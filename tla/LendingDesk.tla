---------------------------- MODULE LendingDesk ----------------------------
(* The app's lending pages over the lenders' contracts. A page polls its reads,
   offers what its forms allow of what it last read, and sends: an approval when
   the allowance it read is short, then the call. Between the read and the call
   time passes, interest grows and the other accounts act. *)
EXTENDS CreditVaults

CONSTANTS Pages, Amounts, OtherAmounts, Proceeds, Prices, Starts, Grant,
          MarginDivisor, DustFloor, RoundingSlack, MaxTime, MaxOthers, MaxSubmits, MaxPolls

ASSUME BoundsAreSane == {MarginDivisor, DustFloor} \subseteq Nat \ {0} /\ MaxSubmits > 0 /\ MaxTime \in Nat /\ MaxOthers \in Nat /\ MaxPolls \in [Pages -> Nat]
ASSUME PagesAreTheApps == Pages \subseteq {"stake", "borrow", "portfolio", "lend", "liquidate", "stocks", "stockLend"}
ASSUME TokensAreNamed == Tokens \cap {"none", "vault", "pool"} = {}
ASSUME SumsAreAmounts == UNION {Amounts, OtherAmounts, Proceeds, Prices} \subseteq Nat /\ Grant \in Nat \ {0}
ASSUME StartsAreLoans ==
  Starts \subseteq [loan : Nat, age : Nat, price : Prices] /\ \A s \in Starts : s.loan + FeeOn(s.loan) <= Grant

VARIABLES page, chain, seen, sent, spent
vars == <<page, chain, seen, sent, spent>>

\* "bo" deposits and borrows, "lee" supplies and liquidates; a page is opened by one of them.
Users == {"bo", "lee"}
StockPages == {"stocks", "stockLend"}
Me == IF page \in {"stake", "borrow", "stocks", "portfolio"} THEN "bo" ELSE "lee"
Spender == IF page \in {"lend", "stockLend"} THEN "pool" ELSE "vault"

-----------------------------------------------------------------------------
\* What the reads return: the contracts' views, at the index as stored.

Danger == (WAD * 12) \div 10
Caution == (WAD * 15) \div 10
HealthBand(hf) ==
  IF hf = NoDebt THEN "none" ELSE IF hf < Danger THEN "danger" ELSE IF hf < Caution THEN "caution" ELSE "safe"

VaultPosition(c) ==
  [collateral |-> CollateralValue(c, "bo"), ledger |-> TotalLedgerValue(c, "bo"), lien |-> LienOf(c, "bo"),
   health |-> HealthFactor(c, "bo"), borrowable |-> MaxBorrowable(c, "bo"),
   liquidatable |-> HealthFactor(c, "bo") < WAD, pending |-> AccruedYield(c, "bo")]

LendShared(c) ==
  [supplied |-> TotalSupplied(c.pool), borrowed |-> TotalBorrowed(c.pool),
   available |-> c.pool.cash, utilization |-> Utilization(c.pool),
   borrowRate |-> BorrowRateAt(Utilization(c.pool)), supplyRate |-> SupplyRateAt(Utilization(c.pool))]

\* useStockLoan asks for one token's worth at any age, and the feed's time apart.
StockLoan(c) ==
  [debt |-> LienOf(c, Me), wallet |-> c.wallet[Me], allowance |-> c.allowed[Me][Spender],
   supplied |-> BalanceOfSupply(c.pool, Me), liquidity |-> c.pool.cash,
   deposited |-> c.stock[Me], held |-> c.stockWallet[Me], approved |-> [t \in Tokens |-> c.allowed[Me][t]],
   worth |-> [t \in Tokens |-> ValueOf(c, t, TokenUnit)], updatedAt |-> [t \in Tokens |-> c.feed[t].at]]

\* The API's row on the borrower: the interest pending is in it.
AtRisk(c) ==
  LET d == Accrued(c)
      repay == IF HealthFactor(d, "bo") < WAD THEN MaxRepay(c, "bo") ELSE 0
      seized == IF repay = 0 THEN 0 ELSE Seized(c, "bo") IN
  [debt |-> LienOf(d, "bo"), health |-> HealthFactor(d, "bo"), liquidatable |-> HealthFactor(d, "bo") < WAD,
   maxRepay |-> repay, seized |-> seized, profitable |-> seized > repay,
   writeOffCandidate |-> LienOf(d, "bo") > c.shares["bo"]]

\* A page's queries; the figures of one multicall are of one block.
Reads(p) ==
  CASE p \in {"stake", "borrow"} -> {"vault", "wallet", "allowance"}
    [] p = "portfolio" -> {"vault", "shared"}
    [] p = "lend" -> {"shared", "mine", "wallet", "allowance"}
    [] p = "liquidate" -> {"atRisk"}
    [] p \in StockPages -> {"loan"}

Reading(part, c) ==
  [height |-> c.height,
   is |-> CASE part = "vault" -> VaultPosition(c)
            [] part = "shared" -> LendShared(c)
            [] part = "mine" -> BalanceOfSupply(c.pool, Me)
            [] part = "wallet" -> c.wallet[Me]
            [] part = "allowance" -> c.allowed[Me][Spender]
            [] part = "atRisk" -> AtRisk(c)
            [] part = "loan" -> StockLoan(c)]

Seen(part) == seen[part].is

-----------------------------------------------------------------------------
\* The pages' arithmetic (lib/accrual, lib/stake, lib/lend, lib/stockLoan, lib/atRisk).

AccrualMargin(debt) == IF debt > 0 THEN debt \div MarginDivisor + 1 ELSE 0
\* Mutant: the margin for interest is left off.
PaysWhatWasRead(debt, wallet) == Lower(debt, wallet)
PayOffAmount(debt, wallet) == Lower(debt + AccrualMargin(debt), wallet)
BorrowHeadroom(ceiling, debt) ==
  IF ceiling > AccrualMargin(debt) THEN ceiling - AccrualMargin(debt) ELSE 0

StakeStanding(p) == [redeemable |-> p.collateral, unbacked |-> IF p.ledger > p.collateral THEN p.ledger - p.collateral ELSE 0]
\* A shortfall below the smallest amount a screen shows counts as none.
Backed(p) == StakeStanding(p).unbacked < DustFloor
StakeCaption(p) ==
  IF ~Backed(p) THEN "credited" ELSE IF p.pending > 0 THEN "earned" ELSE "earning"

HealthAfter(line, debt) == IF debt <= 0 THEN NoDebt ELSE MulDiv(line, WAD, debt)
PreviewHealth(p, delta) ==
  IF p.lien + delta <= 0 THEN NoDebt ELSE MulDiv(p.collateral, LiquidationThreshold, p.lien + delta)

CardBand(p) == IF p.liquidatable THEN "danger" ELSE HealthBand(p.health)

\* Mutant: the change is left out of what is supplied.
ForgetsTheChange(borrowed, available, delta) == IF borrowed = 0 THEN 0 ELSE MulDiv(borrowed, WAD, available + borrowed)
UtilizationAfter(borrowed, available, delta) ==
  IF borrowed = 0 THEN 0
  ELSE MulDiv(borrowed, WAD, (IF available + delta < 0 THEN 0 ELSE available + delta) + borrowed)
LendWarnings(balance, s) ==
  {w \in {"exit-blocked", "exit-limited", "past-kink"} :
     \/ w = "exit-blocked" /\ balance > 0 /\ s.available = 0
     \/ w = "exit-limited" /\ balance > s.available /\ s.available > 0
     \/ w = "past-kink" /\ s.utilization > Kink}

ShareOfPool(balance, supplied) == IF supplied = 0 THEN 0 ELSE MulDiv(balance, WAD, supplied)

\* What the screens say beside the forms: the dashboard's strip and figures, its pool
\* panel, and a supplier's page.
PipelineSummary(p) ==
  [staked |-> StakeStanding(p).redeemable, caption |-> StakeCaption(p), borrowed |-> p.lien, tone |-> CardBand(p)]
Position(p) ==
  [pipeline |-> PipelineSummary(p), card |-> CardBand(p), debt |-> p.lien, borrowable |-> p.borrowable,
   accrued |-> [value |-> p.pending, funded |-> Backed(p)]]
PoolStrip(s) == [earns |-> s.supplyRate, pays |-> s.borrowRate, lent |-> s.borrowed, strained |-> s.utilization > Kink]

ValueOfAmount(l, t, a) == MulDiv(a, l.worth[t], TokenUnit)
Summarise(l, ratio) ==
  SumFunction([t \in {x \in Tokens : l.deposited[x] > 0} |-> MulDiv(ValueOfAmount(l, t, l.deposited[t]), ratio, WAD)])
StalePrices(l, now) == {t \in Tokens : l.deposited[t] > 0 /\ now - l.updatedAt[t] > MaxAge}
OriginationFeeOn(a) == MulDivUp(a, OriginationFee, WAD)

\* The largest borrowing that fits with its fee, from an estimate one over at most.
MaxBorrow(limit, debt) ==
  LET room == limit - debt
      x == MulDiv(room, WAD, WAD + OriginationFee) IN
  IF room <= 0 THEN 0 ELSE IF x + OriginationFeeOn(x) > room THEN x - 1 ELSE x

\* The most of a token that leaves the limit above the debt, by the price read.
StockMaxWithdraw(l, t) ==
  LET room == Summarise(l, MaxLTV) - l.debt IN
  IF l.debt = 0 THEN l.deposited[t]
  ELSE IF l.worth[t] = 0 \/ room <= 0 THEN 0
  ELSE Lower(l.deposited[t], (room * WAD * TokenUnit) \div (l.worth[t] * MaxLTV))

ActionFor(row) ==
  IF row.writeOffCandidate THEN "writeOff" ELSE IF row.liquidatable /\ row.profitable THEN "liquidate" ELSE "watch"
NetToLiquidator(row) == row.seized - row.maxRepay

-----------------------------------------------------------------------------
\* The forms. A job is a call with what the page would show for it; `approve` is
\* what it would first ask the allowance to be, 0 when the allowance it read will do.

Typed(max) == {a \in Amounts \cup {max} : a > 0 /\ a <= max}
Short(allowance, a) == IF allowance < a THEN a ELSE 0
Job(call, a, approve, shows) == [call |-> call, amount |-> a, of |-> "none", approve |-> approve, all |-> FALSE, shows |-> shows]

\* Deposit what the wallet holds; with a lien open leave whole, and not below the lien.
StakeForm ==
  LET p == Seen("vault") IN
  {Job("deposit", a, Short(Seen("allowance"), a), 0) : a \in Typed(Seen("wallet"))}
  \cup {Job("withdraw", a, 0, a - p.lien) :
          a \in {x \in Typed(p.collateral) : p.lien > 0 => x = p.collateral /\ x >= p.lien}}

RepayJob(a, debt, wallet, allowance, shows) ==
  LET send == IF a >= debt THEN PayOffAmount(debt, wallet) ELSE a IN
  [Job("repay", send, Short(allowance, send), shows) EXCEPT !.all = a >= debt]

BorrowForm ==
  LET p == Seen("vault") IN
  {Job("borrow", a, 0, PreviewHealth(p, a)) : a \in Typed(BorrowHeadroom(p.borrowable, p.lien))}
  \cup {RepayJob(a, p.lien, Seen("wallet"), Seen("allowance"), PreviewHealth(p, -a)) :
          a \in {x \in Typed(p.lien) : x <= Seen("wallet")}}

MaxWithdraw(balance, available) == Lower(balance, available)
LendForm ==
  LET s == Seen("shared") IN
  {Job("supply", a, Short(Seen("allowance"), a), UtilizationAfter(s.borrowed, s.available, a)) : a \in Typed(Seen("wallet"))}
  \cup {Job("unsupply", a, 0, UtilizationAfter(s.borrowed, s.available, -a)) :
          a \in Typed(MaxWithdraw(Seen("mine"), s.available))}

LendScreen ==
  LET s == Seen("shared") IN
  [share |-> ShareOfPool(Seen("mine"), s.supplied), withdrawable |-> MaxWithdraw(Seen("mine"), s.available),
   warnings |-> LendWarnings(Seen("mine"), s)]

LiquidateTable ==
  LET row == Seen("atRisk") IN
  IF row.debt = 0 \/ ActionFor(row) = "watch" THEN {}
  ELSE {Job(ActionFor(row), 1, 0, IF ActionFor(row) = "liquidate" THEN NetToLiquidator(row) ELSE 0)}

CollateralPanel ==
  LET l == Seen("loan") IN
  UNION {{[Job("depositStock", a, Short(l.approved[t], a), 0) EXCEPT !.of = t] : a \in Typed(l.held[t])}
         \cup {[Job("withdrawStock", a, 0, 0) EXCEPT !.of = t] :
                 a \in {x \in Typed(StockMaxWithdraw(l, t)) : l.debt > 0 => StalePrices(l, chain.now) = {}}} :
           t \in Tokens}

LoanPanel ==
  LET l == Seen("loan")
      line == Summarise(l, LiquidationThreshold)
      most == Lower(MaxBorrow(Summarise(l, MaxLTV), l.debt + AccrualMargin(l.debt)), l.liquidity) IN
  {Job("borrowStock", a, 0, HealthAfter(line, l.debt + a + OriginationFeeOn(a))) :
     a \in {x \in Typed(most) : StalePrices(l, chain.now) = {}}}
  \cup {RepayJob(a, l.debt, l.wallet, l.allowance, HealthAfter(line, l.debt - a)) : a \in {x \in Typed(l.debt) : x <= l.wallet}}

StockLendPanel ==
  LET l == Seen("loan") IN
  {Job("supply", a, Short(l.allowance, a), 0) : a \in Typed(l.wallet)}
  \cup {Job("unsupply", a, 0, 0) : a \in Typed(Lower(l.supplied, l.liquidity))}

Faucet == {Job("mint", Grant, 0, 0)}

\* Each form sends through a useTransaction of its own.
Forms(p) ==
  CASE p = "stake" -> {"stakeForm", "faucet"}
    [] p = "borrow" -> {"borrowForm"}
    [] p = "lend" -> {"lendForm"}
    [] p = "liquidate" -> {"row"}
    [] p = "stocks" -> {"collateral", "loan"}
    [] p = "stockLend" -> {"lendPanel", "faucet"}
    [] p = "portfolio" -> {}

Offers(form) ==
  CASE form = "stakeForm" -> StakeForm [] form = "borrowForm" -> BorrowForm [] form = "lendForm" -> LendForm
    [] form = "row" -> LiquidateTable [] form = "collateral" -> CollateralPanel [] form = "loan" -> LoanPanel
    [] form = "lendPanel" -> StockLendPanel [] form = "faucet" -> Faucet

-----------------------------------------------------------------------------
\* The contracts' answer to a job: whether the call is accepted, and what it does.

CanPoolSupply(c, u, a) == CanSupply(c.pool, a) /\ CanPull(c, u, "pool", a)
Supplied(c, u, a) == [Pull(Accrued(c), u, "pool", a) EXCEPT !.pool = Supply(@, u, a)]
Unsupply(c, u, a) == [Accrued(c) EXCEPT !.pool = Withdraw(@, u, a), !.wallet[u] = @ + a]

Accepts(c, j) ==
  CASE j.call = "deposit" -> CanDeposit(c, Me, j.amount)
    [] j.call = "withdraw" -> CanVaultWithdraw(c, Me, j.amount)
    [] j.call = "borrow" -> CanVaultBorrow(c, Me, j.amount)
    [] j.call = "repay" -> CanLoanRepay(c, Me, j.amount)
    [] j.call = "supply" -> CanPoolSupply(c, Me, j.amount)
    [] j.call = "unsupply" -> CanWithdraw(Accrued(c).pool, Me, j.amount)
    [] j.call = "liquidate" -> CanLiquidate(c, Me, "bo")
    [] j.call = "writeOff" -> CanWriteOff(c, "bo")
    [] j.call = "depositStock" -> CanStockDeposit(c, Me, j.of, j.amount)
    [] j.call = "withdrawStock" -> CanStockWithdraw(c, Me, j.of, j.amount)
    [] j.call = "borrowStock" -> CanStockBorrow(c, Me, j.amount)
    [] j.call = "mint" -> TRUE

Applied(c, j) ==
  CASE j.call = "deposit" -> Deposit(c, Me, j.amount)
    [] j.call = "withdraw" -> VaultWithdraw(c, Me, j.amount)
    [] j.call = "borrow" -> VaultBorrow(c, Me, j.amount)
    [] j.call = "repay" -> LoanRepay(c, Me, j.amount)
    [] j.call = "supply" -> Supplied(c, Me, j.amount)
    [] j.call = "unsupply" -> Unsupply(c, Me, j.amount)
    [] j.call = "liquidate" -> Liquidate(c, Me, "bo")
    [] j.call = "writeOff" -> WriteOff(c, "bo")
    [] j.call = "depositStock" -> StockDeposit(c, Me, j.of, j.amount)
    [] j.call = "withdrawStock" -> StockWithdraw(c, Me, j.of, j.amount)
    [] j.call = "borrowStock" -> StockBorrow(c, Me, j.amount)
    [] j.call = "mint" -> [c EXCEPT !.wallet[Me] = @ + j.amount]

\* What everybody else may do to the deployment the page is on.
OthersInVault(c) ==
  LET them == IF Me = "bo" THEN "lee" ELSE "bo" IN
  {Accrued(c)}
  \cup {Supplied([c EXCEPT !.allowed[them]["pool"] = a], them, a) : a \in {x \in OtherAmounts : CanSupply(c.pool, x) /\ x <= c.wallet[them]}}
  \cup {Unsupply(c, "lee", a) : a \in {x \in OtherAmounts : them = "lee" /\ CanWithdraw(Accrued(c).pool, "lee", x)}}
  \cup {VaultBorrow(c, "bo", a) : a \in {x \in OtherAmounts : them = "bo" /\ CanVaultBorrow(c, "bo", x)}}
  \cup {VaultWithdraw(c, "bo", a) : a \in {x \in {c.shares["bo"]} : them = "bo" /\ x > 0 /\ CanVaultWithdraw(c, "bo", x)}}
  \cup (IF CanLiquidate(c, "lee", "bo") THEN {Liquidate(c, "lee", "bo")} ELSE {})
  \cup (IF CanWriteOff(c, "bo") THEN {WriteOff(c, "bo")} ELSE {})
  \cup {OnPositionSettled(c, "bo", a) : a \in Proceeds}

OthersInStocks(c) ==
  {[c EXCEPT !.feed[t] = [price |-> p, at |-> c.now]] : t \in Tokens, p \in Prices}
  \cup {Unsupply(c, "lee", a) : a \in {x \in OtherAmounts : Me = "bo" /\ CanWithdraw(Accrued(c).pool, "lee", x)}}
  \cup {StockBorrow(c, "bo", a) : a \in {x \in OtherAmounts : Me = "lee" /\ CanStockBorrow(c, "bo", x)}}
  \cup {StockLiquidate(c, "lee", "bo", t) : t \in {x \in Tokens : CanStockLiquidate(c, "lee", "bo", x)}}
  \cup (IF CanStockWriteOff(c, "lee", "bo") THEN {StockWriteOff(c, "lee", "bo")} ELSE {})

\* The guardians' two pauses, the vault's and the pool's, and reserves out of idle cash.
OwnerCalls(c) ==
  {[c EXCEPT !.paused = ~@], [c EXCEPT !.pool = SwitchEntries(@)]}
  \cup {[c EXCEPT !.pool = WithdrawReserves(@, a)] : a \in {x \in {c.pool.reserves} : CanWithdrawReserves(c.pool, x)}}

-----------------------------------------------------------------------------
NoAllowance == [s \in {"vault", "pool"} \cup Tokens |-> 0]
Blank ==
  [pool |-> NewPool(Users), position |-> [u \in Users |-> [principal |-> 0, settled |-> 0, since |-> 0]],
   shares |-> [u \in Users |-> 0], wallet |-> [u \in Users |-> Grant], allowed |-> [u \in Users |-> NoAllowance],
   stock |-> [u \in Users |-> [t \in Tokens |-> 0]], stockWallet |-> [u \in Users |-> [t \in Tokens |-> Grant]],
   feed |-> [t \in Tokens |-> [price |-> 0, at |-> 0]],
   now |-> 0, paused |-> FALSE, height |-> 0]

\* Before the page opens: lee supplied, bo deposited and may have borrowed a while ago.
Lent == Supplied([Blank EXCEPT !.allowed["lee"]["pool"] = Grant], "lee", Grant)
Funded == [Lent EXCEPT !.wallet["lee"] = Grant]
Before(p, loan) ==
  LET staked == Deposit([Funded EXCEPT !.allowed["bo"]["vault"] = Grant], "bo", Grant)
      pledged == [Funded EXCEPT !.stock["bo"] = [t \in Tokens |-> Grant]] IN
  IF p \in StockPages THEN IF loan = 0 THEN pledged ELSE StockBorrow(pledged, "bo", loan)
  ELSE [IF loan = 0 THEN staked ELSE VaultBorrow(staked, "bo", loan) EXCEPT !.wallet["bo"] = @ + Grant]

Idle == [step |-> "idle"]
Init ==
  /\ page \in Pages
  /\ \E start \in Starts, poked \in BOOLEAN :
       LET c == [Before(page, start.loan) EXCEPT
                   !.now = start.age,
                   !.feed = IF page \in StockPages THEN [t \in Tokens |-> [price |-> start.price, at |-> start.age]] ELSE @] IN
       chain = IF poked THEN Accrued(c) ELSE c
  /\ seen = [part \in Reads(page) |-> Reading(part, chain)]
  /\ sent = [f \in Forms(page) |-> Idle]
  /\ spent = [time |-> 0, others |-> 0, submits |-> 0, polls |-> 0]

Tick ==
  /\ spent.time < MaxTime
  /\ chain' = [chain EXCEPT !.now = @ + 1]
  /\ spent' = [spent EXCEPT !.time = @ + 1]
  /\ UNCHANGED <<page, seen, sent>>

OthersAct ==
  /\ spent.others < MaxOthers
  /\ chain' \in {[c EXCEPT !.height = chain.height + 1] :
                   c \in OwnerCalls(chain) \cup (IF page \in StockPages THEN OthersInStocks(chain) ELSE OthersInVault(chain))}
  /\ spent' = [spent EXCEPT !.others = @ + 1]
  /\ UNCHANGED <<page, seen, sent>>

PolledReads == {part \in Reads(page) : page = "borrow" => part # "allowance"}

\* A poll, or the refetch a finished send asks for. The borrow page's allowance has no interval.
Refetch(part) ==
  /\ part \in PolledReads /\ spent.polls < MaxPolls[page]
  /\ seen[part] # Reading(part, chain)
  /\ seen' = [seen EXCEPT ![part] = Reading(part, chain)]
  /\ spent' = [spent EXCEPT !.polls = @ + 1]
  /\ UNCHANGED <<page, chain, sent>>

\* The button: an approval first if the allowance read is short of what is sent.
Submit(form) ==
  /\ spent.submits < MaxSubmits
  /\ sent[form].step \in {"idle", "refused"}
  /\ \E j \in Offers(form) :
       sent' = [sent EXCEPT ![form] = [step |-> IF j.approve > 0 THEN "approve" ELSE "call", job |-> j,
                                       height |-> Min({seen[part].height : part \in Reads(page)}), at |-> chain.now]]
  /\ spent' = [spent EXCEPT !.submits = @ + 1]
  /\ UNCHANGED <<page, chain, seen>>

\* The approval is of exactly what will be sent; the stock page does not read it back. It
\* is a transaction mined since everything was read, but not to the call it was for.
ApprovalMined(form) ==
  /\ sent[form].step = "approve"
  /\ LET j == sent[form].job IN
       chain' = [chain EXCEPT !.allowed[Me][IF j.of = "none" THEN Spender ELSE j.of] = j.approve, !.height = chain.height + 1]
  /\ seen' = IF "allowance" \in Reads(page) THEN [seen EXCEPT !["allowance"] = Reading("allowance", chain')] ELSE seen
  /\ sent' = [sent EXCEPT ![form].step = "call", ![form].height = IF @ = chain.height THEN chain.height + 1 ELSE @]
  /\ UNCHANGED <<page, spent>>

CallMined(form) ==
  /\ sent[form].step = "call"
  /\ Accepts(chain, sent[form].job)
  /\ chain' = [Applied(chain, sent[form].job) EXCEPT !.height = chain.height + 1]
  /\ sent' = [sent EXCEPT ![form] = Idle]
  /\ UNCHANGED <<page, seen, spent>>

CallRefused(form) ==
  /\ sent[form].step = "call"
  /\ ~Accepts(chain, sent[form].job)
  /\ sent' = [sent EXCEPT ![form].step = "refused"]
  /\ UNCHANGED <<page, chain, seen, spent>>

\* The wallet declines: either prompt, and nothing is sent.
Declined(form) ==
  /\ sent[form].step \in {"approve", "call"}
  /\ sent' = [sent EXCEPT ![form] = Idle]
  /\ UNCHANGED <<page, chain, seen, spent>>

Next ==
  \/ Tick
  \/ OthersAct
  \/ \E part \in Reads(page) : Refetch(part)
  \/ \E form \in Forms(page) :
       Submit(form) \/ ApprovalMined(form) \/ CallMined(form) \/ CallRefused(form) \/ Declined(form)

Spec == Init /\ [][Next]_vars

-----------------------------------------------------------------------------
\* One type invariant: balances stay balances, whatever order the calls land in.
LendingTypeOK ==
  /\ \A u \in Users : chain.wallet[u] \in Nat /\ chain.shares[u] \in Nat /\ chain.pool.supply[u] \in Nat /\ chain.pool.debt[u] \in Nat
  /\ \A u \in Users, t \in Tokens : chain.stock[u][t] \in Nat /\ chain.stockWallet[u][t] \in Nat
  /\ chain.pool.cash \in Nat /\ chain.pool.reserves \in Nat /\ chain.pool.unsocialised \in Nat
  /\ chain.pool.supplyIndex > 0 /\ chain.pool.borrowIndex >= RAY
  /\ \A f \in Forms(page) : sent[f].step \in {"idle", "approve", "call", "refused"}

\* Interest no view shows: what the next write will add to a debt.
Pending(c) == LienOf(Accrued(c), "bo") - LienOf(c, "bo")

\* Why a call may be refused though nothing but its approval was mined since the page's
\* reads: either pause (no page reads one), the pool's cash (the borrow page does not read
\* it; the stock page leaves out the fee), more interest than the margin, an exit the
\* interest has made too small, a stock withdrawal whose Max knows no interest and misses
\* the vault's rounding by a unit (StockMaxIsAccepted is what the page means it to be), a
\* price that aged on the way or that a token held beside others never had, and a
\* liquidator's wallet (the page names the amount and does not read it).
Excused(c, s) ==
  LET j == s.job IN
  \/ c.paused /\ j.call \in {"deposit", "borrow", "depositStock", "borrowStock"}
  \/ c.pool.entries = "paused" /\ j.call \in {"supply", "borrow", "borrowStock"}
  \/ j.call = "borrow" /\ j.amount > c.pool.cash
  \/ j.call = "borrowStock" /\ j.amount + FeeOn(j.amount) > c.pool.cash
  \/ j.call \in {"borrow", "borrowStock"} /\ Pending(c) > AccrualMargin(LienOf(c, "bo"))
  \/ j.call = "withdraw" /\ Pending(c) > 0 /\ j.amount < LienOf(Accrued(c), "bo")
  \/ j.call = "withdrawStock" /\
       LET left == StockLine([c EXCEPT !.stock["bo"][j.of] = @ - j.amount], "bo", MaxLTV) IN
       LienOf(c, "bo") \in 1..left + 1 /\ LienOf(Accrued(c), "bo") > left
  \/ j.call \in {"withdrawStock", "borrowStock"} /\ c.now > s.at /\ ~AllPriced(c, "bo", MaxAge)
  \/ j.call \in {"withdrawStock", "borrowStock"} /\ \E t \in Held(c, "bo") : c.feed[t].price = 0
  \/ j.call = "liquidate" /\ MaxRepay(c, "bo") > c.wallet[Me]

\* A call a form let through, with nothing mined between its reads and it, is accepted;
\* and one that repays everything leaves no debt (lib/accrual's two symptoms).
UntouchedCallDoesItsJob ==
  [][\A f \in Forms(page) :
       LET s == sent[f] IN
       s.step = "call" /\ s.height = chain.height /\ sent'[f] # s =>
         /\ sent'[f].step = "refused" => Excused(chain, s)
         /\ chain' # chain /\ s.job.all =>
              \/ LienOf(chain', "bo") = 0
              \/ Pending(chain) > AccrualMargin(LienOf(chain, "bo"))
              \/ chain'.wallet["bo"] = 0]_vars

\* lib/stockLoan's word: with prices fresh, and not a second or a transaction after the
\* reads, a collateral Max is one the vault accepts rather than one it refuses by a unit.
\* It is not kept: the value left rounds down, and its share that may be borrowed again.
StockMaxIsAccepted ==
  [][LET s == sent["collateral"] IN
     page = "stocks" /\ CallRefused("collateral") /\ s.job.call = "withdrawStock"
       /\ s.height = chain.height /\ s.at = chain.now /\ chain.pool.accruedAt = chain.now
     => ~AllPriced(chain, "bo", MaxAge)]_vars

\* The router's callback repays at the debt as accrued: it is never asked for more than
\* is owed, nor leaves a unit owing that the proceeds could have paid.
ProceedsClearTheLien ==
  \A a \in Proceeds :
    LET d == Accrued(chain)
        after == OnPositionSettled(chain, "bo", a)
        repaid == d.wallet["bo"] + a - after.wallet["bo"] IN
    /\ repaid > 0 => CanRepay(d.pool, "bo", repaid)
    /\ a >= LienOf(d, "bo") => LienOf(after, "bo") = 0

\* Whether everything the page shows was read from the chain as it is.
FreshIn(parts) == \A part \in parts : Seen(part) = Reading(part, chain).is
Fresh == FreshIn(Reads(page))
\* A health factor shown, against the vault's once the debt has rounded by a scaled unit.
Unit(c) == c.pool.borrowIndex \div RAY + 1
NotAbove(c, shown, line) == LienOf(c, "bo") > Unit(c) => shown <= line \div (LienOf(c, "bo") - Unit(c))
NotBelow(c, shown, line) ==
  (shown = NoDebt /\ LienOf(c, "bo") = 0) \/ line \div (LienOf(c, "bo") + Unit(c)) <= shown

\* The card says danger before a liquidation is possible, interest pending counted (the
\* band starts a fifth above the line), and what it calls earned the shares redeem, up
\* to less than the dust the screen cannot show.
DangerIsTold ==
  LET shown == Position(Seen("vault")) IN
  /\ HealthFactor(Accrued(chain), "bo") < WAD /\ 5 * Pending(chain) <= LienOf(chain, "bo") =>
       {shown.card, shown.pipeline.tone} = {"danger"}
  /\ shown.pipeline.caption = "earned" \/ shown.accrued.funded =>
       TotalLedgerValue(chain, "bo") - chain.shares["bo"] < DustFloor

\* What stands beside a button against what the call leaves.
DoesAsShown(c, j) ==
  LET gained == c.wallet[Me] - chain.wallet[Me]
      line == CollateralValue(c, "bo") * LiquidationThreshold IN
  /\ page = "borrow" => NotAbove(c, j.shows, line) /\ NotBelow(c, j.shows, line)
  /\ j.call = "borrowStock" => NotAbove(c, j.shows, StockLine(c, "bo", LiquidationThreshold) * WAD)
  /\ page = "stake" /\ j.call = "withdraw" => gained = j.shows
  /\ page = "lend" => Utilization(c.pool) = j.shows
  /\ j.call \in {"liquidate", "writeOff"} => gained = j.shows /\ (j.call = "liquidate" => j.shows > 0)

DashboardHolds ==
  LET shown == Position(Seen("vault")) IN
  /\ shown.borrowable \in 1..chain.pool.cash /\ ~chain.paused /\ chain.pool.entries = "open" => CanVaultBorrow(chain, "bo", shown.borrowable)
  /\ shown.debt = 0 /\ shown.pipeline.staked > 0 => CanVaultWithdraw(chain, "bo", shown.pipeline.staked)
  /\ PoolStrip(Seen("shared")).lent >= shown.pipeline.borrowed

LendScreenHolds ==
  LET mine == Seen("mine")
      strip == PoolStrip(Seen("shared")) IN
  /\ LendScreen.share <= WAD
  /\ LendScreen.withdrawable > 0 => CanWithdraw(Accrued(chain).pool, Me, LendScreen.withdrawable)
  /\ strip.earns <= strip.pays
  /\ strip.strained <=> "past-kink" \in LendScreen.warnings
  /\ LendScreen.warnings \cap {"exit-blocked", "exit-limited"} # {} <=>
       (mine > 0 /\ ~CanWithdraw(Accrued(chain).pool, Me, mine))

\* Read fresh, with no interest pending, the pages tell what the call will do: health and
\* utilization after it, what an exit returns, what a liquidation nets, what may still be
\* borrowed, withdrawn or held of the pool; and they warn of what the contracts would do
\* to the account as it stands, a liquidation before it is possible.
FiguresHold ==
  /\ Fresh /\ "vault" \in Reads(page) => DangerIsTold
  /\ chain.pool.accruedAt = chain.now =>
       /\ Fresh => \A g \in Forms(page) : \A j \in Offers(g) :
                     Accepts(chain, j) => DoesAsShown(Applied(chain, j), j)
       /\ page = "portfolio" /\ Fresh => DashboardHolds
       /\ page = "lend" /\ FreshIn({"shared", "mine"}) => LendScreenHolds

\* The ledgers kept beside one another: the pool's totals are its accounts' scaled parts,
\* and a vault position is worth something exactly as long as it has shares.
PartsAddUp ==
  /\ chain.pool.totalSupplyScaled = SumFunction(chain.pool.supply)
  /\ chain.pool.totalBorrowScaled = SumFunction(chain.pool.debt)
  /\ \A u \in Users : chain.shares[u] = 0 <=> TotalLedgerValue(chain, u) = 0

\* The pool's books: what is in cash and owed covers what suppliers and reserves are
\* credited, less the losses nobody was there to bear.
BooksBalance ==
  LET p == chain.pool IN
  p.cash + TotalBorrowed(p) + p.unsocialised + RoundingSlack >= TotalSupplied(p) + p.reserves

=============================================================================
