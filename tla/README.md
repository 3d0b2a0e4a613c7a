# GhostStake in TLA+

This directory is the verification project of GhostStake: specifications of its
contracts and services, TLC configurations that check them on small instances,
and TLAPS proofs of the properties that matter most. It models code, not
documents: each definition names the lines it stands for in `PROJECT.json`
("map").

Contents: [inventory](#inventory), [modules](#modules),
[how state and actions correspond to the code](#correspondence-with-the-code),
[runs](#runs), [bounds](#bounds), [fairness](#fairness-and-what-justifies-it),
[proofs](#proofs), [findings](#where-comment-and-code-disagree),
[what is not modelled](#not-modelled), [plan](#plan).

## Inventory

GhostStake is a set of Solidity contracts (`ghoststake-contracts`), a Go backend
that drives and reads them (`ghoststake-backend`), and a web frontend that
presents both (`ghoststake-frontend`). The rules live in the contracts. The
backend holds no authority over them beyond an owner's key in the keeper; what
it can get wrong is *when* it acts and *what it reports*. The web app restates
many of the contracts' rules in order to decide what to offer and what to say;
what it can get wrong is to act or speak on a reading that is no longer, or was
never, true.

### Contracts

| Component | State | Operations | Talks to |
|---|---|---|---|
| `ParimutuelRound` | rounds (status, schedule, strike, pools, rake), stakes per user and side, claimed flags, settlement sinks, router allowlist, uncollected fees, token custody | `openRound`, `takePosition`, `takePositionFor`, `lockRound`, `resolveRound`, `voidUnsettledRound`, `voidUnlockedRound`, `claim`, `setRouter`, `withdrawFees` | an `IRoundOracle`, the stake token, settlement sinks |
| `EntryPausable` (mixin) | `entriesPaused`, `pauseGuardian` | pause, unpause, hand on the role | - |
| `Treasured` (mixin) | `treasury` | `setTreasury` | - |
| `ChainlinkRoundOracle` | none: it reads | `readLatest`, `readAt` | a feed, a sequencer uptime feed, the feed's own pause |
| `DemoPriceFeed` | rounds of a feed | `push`, `pushAt` | read by the adapter |
| `EventRoundOracle` | the state of one bonded claim, bonds in custody, arbiter, the market it discloses against | `propose`, `challenge`, `finalise`, `rule`, `abandon`, `setArbiter`, `setMarket` | the bond token, the market (`stakeOf`), read by the round |
| `CollateralVault` | ERC-4626 shares, a position ledger (principal, settled yield, checkpoint) per account | deposit, withdraw, redeem, transfer, `borrow`, `borrowFor`, `repay`, `liquidate`, `writeOffBadDebt`, `settle` | the pool |
| `BorrowLiquidityPool` | scaled supply and debt, two indices, reserves, bad debt | `accrue`, `supply`, `withdraw`, `borrow`, `repay`, `absorbBadDebt`, `withdrawReserves` | the vault or the stock vault as borrow module |
| `BorrowToPositionRouter` | none | `openPosition`, `onPositionSettled` | vault, round |
| `StockLoanVault` | collateral per account and token | deposit, withdraw, borrow, repay, liquidate, write off | pool, price feeds |
| `MarketRegistry` | listings | `list`, `setEnabled`, `setHorizon` | read by the keeper |

A round's life: opened with a strike, entries until the cutoff, locked (or void,
if a side is below the floor or the lock window was missed), observed until its
close, resolved against one price (or void: a tie, or the owner's unwind after
the resolve deadline). Nobody is paid by any of those steps; each holder, or
anybody for them, calls `claim`.

What is hard there: several actors call the lifecycle functions around the same
deadlines; the status lags the clock (an Open round past its cutoff); the caller
of `resolveRound` chooses which feed round to name; the feed may stop, go
backwards in usefulness (sequencer down, paused) and come back; payouts are
floored one by one out of one shared balance; the claim calls out to a sink; a
question's answer is contested by bonded parties with an arbiter who may never
answer.

What makes it correct: the contract can always pay and keeps only rounding
dust; what a settlement decided never changes; the price is the pinned one, not
the caller's choice; entry ends before the answer is readable; every stake
leaves, whatever the oracle, the keeper or the pause do; bonds go where the
answer says.

For the lending contracts: no operation may round debt down or claims up; the
pool's per-account sums equal its totals; the vault's position ledger is empty
exactly when the shares are; a settlement callback never reverts; a write-off
charges reserves, then suppliers, then is recorded.

### Backend

| Component | State | Operations | Talks to |
|---|---|---|---|
| Keeper (`internal/keeper`) | per market: cursor, pending, retiring, backoff, memoised feed searches | `tick` / `driveMarket` / `driveRound` / `settle` / `openRound`, `refreshMarkets`, `retireFinished` | registry, rounds, feeds, its signer |
| Indexer, store, ledger (`internal/indexer`, `store`, `ledger`) | rows per log, a cursor per stream | `Step`, `checkReorg`, `RollbackFrom`, `Preflight`, `Append` | an RPC endpoint that reorganises, prunes and fails; Postgres |
| Live broker (`internal/live`) | subscriber channels | `Subscribe`, `Publish`, unsubscribe | indexer, websockets |
| Mirror (`internal/mirror`) | last timestamp pushed per feed | `mirrorOne` | source feed, `DemoPriceFeed` |
| Sign-in (`internal/auth`, `store/nonces.go`) | nonces | issue, consume, expire | - |
| Finance (`internal/finance`) | none | claimable, phase, health computed off chain | the ledger |
| Chain client, HTTP API, config | none of the protocol's | - | - |

What is hard there: one process against a chain that moves between its reads;
crashes between steps; transactions that fail, or land after the wait for them
failed; delistings that race the opening of rounds; backoff; reorganisations
around a confirmation window; notifications dropped to slow readers. What makes
it correct: no listed or delisted market with a round in flight is dropped; the
cursor never skips an unsettled round; stored rows are the canonical chain's up
to the cursor; a subscriber's last read is never older than the last update for
it; a nonce is consumed once.

### Web app

| Part | State | Operations | Talks to |
|---|---|---|---|
| Sending a transaction (`useTransaction`, `useStalled`, `TxStatus`, `txToasts`) | per form: status, live reference, attempt, stall verdicts; per send: toast | `send`, `stopWaiting`, `reset`, receipts, the stall timer | wallet, chain |
| The ticket (`MarketBlock`'s `PositionForm`) | amounts, cached allowance and delegation | `submit`: approve, delegate, open, over three sends | token, vault, router |
| Positions, claims, alerts (`lib/positions`, `claims`, `alerts`, `usePositions`, `useClaimAll`, `useAlerts`, the positions, portfolio and round pages) | cached listing, confirmation reads, the run under way, ids already announced | polls, row and card claims, the claim run, announcements | API, round contracts |
| Lending pages (`lend`, `borrow`, `stake`, `stocks`, `liquidate`, `portfolio`, with `lib/accrual`, `lend`, `stake`, `stockLoan`, `atRisk`) | cached reads per page, a job per form | approve, then the call; refetch | vaults, pools, API |
| Market screens and console (`operator` page, `lib/operator`, `RoundCard`, `MarketsScreen`, `FeesPanel`, `useRounds`, `useSpot`, `lib/rounds`, `lib/spot`) | cached round, fees, spot price and its print, the search's result | schedule, open, lock, find, resolve, void, withdraw fees, push; quoting | round, adapter, feed |
| Activity, resolution and question texts, wallet connection, translation, formatting | none of the protocol's | - | - |

What is hard there: every decision is taken on a cached read and acted on later;
a send outlives the form that made it; approvals and calls are separate
transactions that need not all happen; the API's listing is behind the chain; a
claim may be paid by somebody else at any moment; interest grows between reading
and repaying; the console repeats the contract's clock arithmetic and the
adapter's choice of feed round. What makes it correct: no outcome is shown of
the wrong send and none stays unheard; permissions do not outlive what they were
given for; what is offered is accepted unless something happened that no read
could have told; figures shown are those the contracts will apply.

## Modules

| Module | Stands for |
|---|---|
| `BlockTime` | `block.timestamp` (external) |
| `Erc20` | the token in custody, as the contracts use it (external) |
| `EntryPausable`, `Treasured` | the two mixins |
| `ParimutuelRound` | the round contract over any oracle; it EXTENDS the four above |
| `PullEscrow` | the abstract promise: deposits, one decision per round, each holder paid exactly what it gave them, once |
| `ChainlinkRoundOracle` | the price adapter as the operator `ReadAt`, and the two kinds of feed behind it |
| `PriceMarket` | round + price adapter |
| `EventRoundOracle` | the bonded claim |
| `EventMarket` | round + bonded claim, sharing the token, on `DeployQuestion.s.sol`'s schedule |
| `Transaction` | one write of the web app, for every form on screen |
| `PositionTicket` | the ticket over `Transaction` and the permissions on chain |
| `ClaimsDesk` | listing, confirmation, claim run, cards, round page and bell over a log of settlements and payments |
| `LendingPool` | the pool's arithmetic and guards: scaled balances, two indices, reserves, bad debt |
| `CreditVaults` | collateral vault, router callback and stock vault over a pool |
| `LendingDesk` | the lending pages over `CreditVaults`, with time, others and the owner |
| `MarketDesk` | console and card over `PriceMarket` |
| `MCParimutuelRound`, `MCPriceMarket`, `MCEventMarket`, `MCPositionTicket`, `MCClaimsDesk`, `MCLendingDesk`, `MCMarketDesk` | small instances |
| `ParimutuelRoundProofs`, `PriceMarketProofs`, `EventMarketProofs`, `PositionTicketProofs`, `ClaimsDeskProofs`, `LendingProofs`, `MarketDeskProofs` | theorems |
| `SumTheorems` | lemmas: induction over finite sets, sums over them, shares of a pool, products and floored quotients |

### Correspondence with the code

* A transaction is one step. A `require`/`revert` is a conjunct, so a reverting
  call is no step; `nonReentrant` and checks-effects order make a transaction
  atomic in the code as well. `onlyOwner` and `onlyArbiter` are who takes the
  action and need no state.
* Variables carry the names of the storage they stand for. `funders` (the
  funder of each `PositionTaken` event) and `bondsPosted` (what each account
  paid in less what it was paid) are history: no action reads them.
* `Round` drops nothing a function reads; `pool` is `upPool`/`downPool`.
  Events, URIs, digests and reasons are left out.
* The rake and the shares are the code's own integer divisions, over small
  numbers: `Rake/WAD` is a tenth in the runs, any fraction up to a tenth in the
  proofs, as the constructor demands.
* In `ParimutuelRound` `resolveRound(id, read)` takes any answer. `PriceMarket`
  replaces it by `ReadAt(feedId, closeTime)` for a feed round of the caller's
  choice, `EventMarket` by `ReadOutcome`: what holds for any answer holds for
  both.
* The Chainlink publisher stamps rounds with the present, may publish twice in
  an instant, may answer zero, and may skip an id (a phase change). The demo
  publisher may stamp any strictly later instant, the future included.
* A settlement sink is an account that accepts the callback
  `onPositionSettled`. `LendingDesk` checks the router's callback on its own:
  it repays with the debt accrued and never asks the pool for more than is owed
  (`ProceedsClearTheLien`).
* `Transaction` keeps a form and its sends apart, because the code does: `live`
  is the ref each `await` compares with, `sends[s].at` is where a request is
  (wallet, chain, refused, mined, reverted), `awaits` what its closure waits
  for, `toast` the last toast shown. `PositionTicket`'s `jobs` are the running
  `submit` closures with the calls they have left; closing a ticket drops none.
* `ClaimsDesk` keeps one log of settlements and payments; the listing and the
  on-chain polls are positions in it, so "behind the chain" is a smaller number.
  The API's claimable is the contract's entitlement at the indexed position.
* `LendingPool` and `CreditVaults` are operators on one record, `chain`: a guard
  (`CanBorrow`) and an effect (`Borrow`) per contract function, with the
  rounding direction of each division as in the code. Views are taken at the
  stored index, writes accrue first, which is where a page's figures and a
  call's part. `LendingDesk`'s actions are the pages': `Refetch`, `Submit`,
  `ApprovalMined`, `CallMined`, `CallRefused`, `Declined`, beside `Tick` and
  `OthersAct` (supply, borrow, liquidate, write off, settle, move a price,
  pause the vault or the pool, withdraw reserves). The two pause apart, as the
  comment at `BorrowLiquidityPool.sol:364-369` wants it: `chain.paused` is the
  vault's, `chain.pool.entries` the pool's, which refuses a supply and a borrowing.
  The vault's share price is 1 (nobody donates to
  it), a stock token's `uiMultiplier` is 1 and stays so, the liquidator has a
  standing approval, all stock tokens share one set of terms, a page is used by one account, and the device's clock agrees with
  the chain's.
* `MarketDesk` EXTENDS `PriceMarket`, so the console's buttons meet the real
  guards: each function of the contract has its guard as an operator of its own
  (`CanOpen`, `CanLock`, `CanResolve`, ...), and `Accepts(q)` is the guard of the
  function called.

## Runs

| Run | Checks | Shows |
|---|---|---|
| `round` | `TypeOK`, `Solvent`, `NothingStranded`, `ProceedsReturnToFunder`, `ResolvedIsAMarket`, `SettledIsFrozen`, `RefinesPullEscrow`, `EveryRoundSettles`, `EveryStakeLeaves` | two rounds at once, two holders and a router, any oracle: the balance covers fees and everything owed, and exceeds it by rounding dust only; settlements are final; the contract implements `PullEscrow`; no oracle outage and no permanent pause traps a stake |
| `price_market` | `AnswerIsFinal`, `SettledAtPinnedPrice`, `EntryPrecedesAnswer`, `HealthyFeedSettles` | an answer about a past instant never changes, whatever is published later; settlement is the last price published at or before the close, for every caller and every lateness; entries end before that price can be read; with a healthy, publishing feed nobody privileged is needed |
| `event_market` | `EventMarketTypeOK`, `OutcomePays`, `DisclosureStands`, `BondsFollowTheAnswer`, `EveryClaimEnds`, `AnswerSettlesTheRound` | no payment before the answer is final; bonds, disclosed interest; a silent arbiter and an absent owner hang nothing |
| `settleable_unwind` | `UnwindLeavesSettleableAlone` | violated: see the findings |
| `ticket` | `OutcomesAreTrue`, `StandingPermissionIsUnused`, `RetryStartsFresh`, `WaitsHaveADoor`, `WatchedSendIsAnnounced` | two tickets, closed, abandoned, refused and retried: no form or toast speaks of the wrong send, every wait has a way out, what was waited for is announced; a permission that stands beside another ticket's taken position is one an untaken ticket asked for |
| `abandoned_prompt` | `MinedSendIsAnnounced` | violated: see the findings |
| `claims` | `DeskTypeOK`, `ListingTellsTheMoney`, `ShownAmountsHold`, `RunReportIsTrue`, `BiggestFirst`, `PaidOfferIsWithdrawn`, `WinIsAnnounced` | behind a lagging listing, with strangers claiming too: amounts beside a button can be collected or were collected since, the run's report is what it was paid, the largest goes first, paid offers go, recent wins are announced |
| `hedged_win` | `WinNetsPositive` | violated: see the findings |
| `lending` | `LendingTypeOK`, `ProceedsClearTheLien`, `FiguresHold`, `PartsAddUp`, `BooksBalance`, `UntouchedCallDoesItsJob` | all seven pages over both vaults: a call with nothing mined since its reads is accepted but for named reasons, repay-all leaves nothing, figures are what the contracts apply, the pool's totals are the sums of its accounts' parts, and what it holds and is owed covers what it owes but for rounding |
| `stock_max` | `StockMaxIsAccepted` | violated: see the findings |
| `market_desk` | `DueRoundIsOffered`, `CardTellsTheRound`, `OfferedCallIsAccepted` | console and card over round and adapter: live buttons do not revert, no due round goes unoffered, entry, quote, leader and age on the card are the contract's |
| `search_gap` | `SearchFindsTheRound` | violated: see the findings |

Every property has a mutant: the same model with one plausible bug (a dropped
guard, a share rounded up, a claim not recorded, ...), under which TLC finds the
property violated. Mutants are the operators introduced by a `Mutant:` comment;
no action uses them.

### Bounds

`MaxTime`, `MaxRounds`, `Amounts`, `Strikes`, `Prices`, `Funding`, `MaxFeedId`,
`Answers` bound the instances; each is declared as a bound in its module.
`openRound` and `propose` only accept schedules whose deadlines fit the clock,
so a liveness failure is never an artefact of time running out.

* `round`: five instants hold a round's whole life with cutoff, lock window and
  resolve deadline of 1 each. One holder has 11, enough for both sides; the router
  lends the other 4 or 7, and may try to top up the first one's position; so the
  first round can pay 4 and 7 of one side against 7 of the other, with a remainder
  in every division, and what it pays is staked again in the second, while its fees
  share the balance. The floor of 5 is missed by one by a lone stake of 4.
* `price_market`: three feed rounds are enough for a round
  before the close, one at it and one after it; staleness of 2 and a grace
  period of 1 leave both sides of each comparison reachable; answers 1 and 3,
  scaled by 2, fall on either side of strike 4. A tie cannot happen here (it does
  in `round`, strike 2 and prices 1 to 3), and the adapter refuses no answer for
  being zero or above `MaxUint` div `ScaleUp`: a third answer doubles the run, and
  `SettlementIsPinned` and `AnswersAreFinal` hold of every set of answers.
* `event_market`: two reporters who also hold positions, two arbiters, windows
  of 2 so that the last instant of a window differs from its first; the
  resolve deadline is as long as window and ruling together, as the script's
  defaults have it (14 days against 2 + 3).
* `ticket`: two forms, three sends, one stop, one fault, and positions on credit
  alone: delegate and open, and a third send that repeats one of them or is another
  ticket's delegation, mined once the first position is taken. The allowance is kept
  by the same operators and `PermissionsAreUnused` is proved for both, for all
  amounts and any number of sends. `abandoned_prompt` is the same with own money and
  credit together (approve, delegate, open).
* `claims`: three rounds are an old win outside the cards' window of two, a
  recent one entered on both sides, and one that may still end up, down or void;
  one run, one fault, one move of the health band; two ids remembered.
  `hedged_win` opens on one round entered on both sides.
* `lending`: `WAD` 100 and `RAY` 1000 make a rate of a few per cent a tick and
  rounding visible in every division. A page opens on no loan, a healthy one,
  one past the liquidation line, one past the deposit, and, on the stock pages, one
  whose collateral's price has fallen, so that a write-off takes more than the
  reserves hold and suppliers bear the rest; the other deployment reads no price, and
  starts that differ only in one are the same start there. The index was stored just
  now or long ago; then one more tick, one act of others, two submits and one poll:
  enough for read, act of another, refetch, approval and call in every order, a
  refetch of one read leaving the page's others old. `DustFloor` of 2 puts a yield of
  one unit below what the screen can show. A price is young for less than a tick
  (`MaxAge` 0) and good for a liquidation one tick longer. `RoundingSlack` of 2 is one
  unit per rounding of totals: a figure of this instance, not of the code.
  `stock_max` is the stock page alone, with a debt of 52 against tokens worth 170.
* `market_desk`: one round, opened by the console itself or already scheduled
  with both sides filled or one empty; six instants hold schedule, lock window,
  close and resolve deadline; three feed rounds as in `price_market`, one of
  whose ids may be skipped; the operator is the owner or a stranger; one press.
  The card starts before the round opens, its holder has two stakes. Stakes land
  on the card's page only;
  the feed skips ids and is paused on the console's only, where a settlement is
  searched for. The chain has no sequencer feed and entries are not paused
  there. `search_gap` lengthens the feed to six ids with gaps of two and presses
  nothing. `OpeningPools` is what the two sides hold when the console's round is
  already open; the form offers strike 0 beside 4.

### Fairness and what justifies it

* Time passes (`Tick`): blocks are mined.
* `round`: `lockRound`, `claim` are anybody's to call and somebody (the
  keeper, the holder) has an interest in calling them; `voidUnsettledRound` is
  the owner's, and the run assumes an owner who eventually unwinds what is past
  its deadline. `resolveRound` gets no fairness: the oracle may never answer.
* `price_market`: only `Tick`, `lockRound` and `resolveRound`; the owner does
  nothing. The feed's behaviour is the hypothesis of the property.
* `ticket`: the stall timer fires, a signed request is mined or reverted, a
  receipt that exists arrives or its wait throws. Nothing makes the wallet
  answer, the holder click, or a submit go on. `abandoned_prompt` has the same
  fairness, so its counterexample is not a lost receipt.
* `claims`: the polls that have an interval; an announcement is part of the
  poll that renders it. Nobody is made to claim, and the listing need not
  refetch.
* `lending`, `market_desk`, `search_gap`: safety only.
* `event_market`: `Tick`, `finalise`, `abandon`, `lockRound`, `resolveRound`,
  all permissionless. The arbiter and the owner are under no obligation.

## Proofs

Eight modules hold theorems, all checked by TLAPS from no assumption but the
`ASSUME`s of the modules, which TLC evaluates in every run. Those say:

* what constructors and deployment scripts enforce: rates and ratios in their
  ranges, windows and scales positive, a loan-to-value ratio above zero
  (`StockLoanVault` refuses zero) and below the liquidation threshold, which is
  below one, a close factor above zero and at most one and a bonus below one (both
  constructors; `StockLoanVault` also demands that the threshold leave room for
  the bonus, which no proof uses), price ages that are natural numbers;
* that distinct roles are distinct addresses (`AddressesAreDistinct`,
  `QuestionIsAnAccount`), that a stock token is neither of the spenders nor the
  name for no token (`TokensAreNamed`), and that a question holds no token before it is
  deployed and takes no part in its own market (`QuestionIsItsOwn`: no function
  of it stakes or receives fees). Reporters may hold positions;
* that amounts, prices and scales are natural numbers, and that users, tokens and
  listed rounds are finite sets, as storage can only hold finitely many;
* what the pages start from: `OpensOnAChain` and `ResultsAreSettlements` say
  that the log a visit opens on, and the settlements still to come, are ones the
  round contract can have made (a round is void, or settles for a side that has a
  pool, with a rake the two pools cover; nothing is paid before that, or twice);
  `StartsAreLoans` that a loan and its fee were lent out of what there was,
  `DeskInputs` that a round already open had a schedule, pools and a strike the
  contract accepts;
* that health is written in decimals (`HealthIsDecimal`): `WAD` is 10^18 in the
  code, and the health of an account without debt is the largest integer;
* `SeenHoldsTheAlerts`: the browser remembers at least as many ids as one visit
  can raise at once, two; `useAlerts.ts` keeps fifty.

Sets of users, routers, prices, tokens and rounds, and the numbers of rounds,
instants, forms, sends, submits and polls, are arbitrary; only `LendingDesk`
names its accounts, the page's holder and one other. A proof module that
needs another's theorems extends it: `PriceMarketProofs` and `EventMarketProofs`
stand on `ParimutuelRoundProofs`, and `MarketDeskProofs` on `PriceMarketProofs`.

`ParimutuelRoundProofs`. The runs' invariants are not inductive. `IInv` adds
`ScheduledInOrder` (ids above `roundCount` are untouched storage, so opening a
round overwrites nothing), `WellScheduled` (cutoff after opening, lock before
close), `LockedIsFilled` (both pools at the floor from lock on; without it
`ResolvedIsAMarket` cannot be shown at the resolve step) and `NoSinkWithoutStake`
(a sink is only recorded with a stake; without it the first stake of a position
could inherit a sink). The step relation of the proofs, `Step`, lets
`resolveRound` take *any* natural price, so every theorem also holds of each
market built on the contract. Proved: `TypeCorrect`, `MarketsOnly`
(`ResolvedIsAMarket`), `ProceedsFollowFunding`, `PauseLiftable`
(while entries are paused somebody holds the role that can lift the pause; the
runs check it as part of the type invariant), `SettledStaysFrozen` (an action
property).

`ImplementsEscrow`, in the same module: under the mapping of `ParimutuelRound`
(status to phase, stakes, entitlements, claimed, fees, balance) every step is a
step of `PullEscrow` or a stutter. The resolve step needs `LockedIsFilled` and
that a rake is never negative; the claim step that an entitlement is what the
escrow calls due.

`SumTheorems`. The library's induction rules take a predicate as a parameter,
which the provers cannot instantiate. `SetInduction` takes the *set* of values
that have the property instead: a family of subsets that holds the empty set and
grows by one element at a time holds the whole finite set. It follows from the
well-foundedness of strict inclusion, and from it follow the lemmas about
`SumFunction` that every book below needs: adding at one place, monotonicity, one
addend within the sum, and `SharesLeaveDust`: floored shares of a pool, at least
one, come to at most the pool and fall short by less than one unit each. The
module also holds what the books and figures need of products and floors:
`DivBounds`, `LessCancels`, `MulMonotone`, `FloorGrows`, `FloorFalls`.

Solvency, in the same module. What a round owes is a sum over its holders. `MoneyInv` says
that the pools are the sums of the stakes (`PoolsCountStakes`), that only a settled
round has claims, and that the balance is at least fees plus everything owed
(`Solvent`) and at most that plus the dust of the settled rounds
(`NothingStranded`). Staking adds the same amount to the balance and to one
pool; a settlement turns the two pools into shares that `SharesLeaveDust` bounds
on both sides; a claim takes one share out of both sums. Proved: `AlwaysSolvent`,
`OnlyDustStays`, and `EveryClaimIsCovered`: no claim or refund can be refused for
want of tokens, in whatever order rounds settle and holders claim.

`PriceMarketProofs`. `FeedInOrder` says a feed's timestamps never decrease with
the id and, for Chainlink, never exceed the present. From it `ReadableIsUnique`
(for one instant at most one feed round is readable), `AnswersAreFinal`
(`AnswerIsFinal`: the round that covers an instant has a successor after it, and no
publication of a later step comes between the two), `SettlementIsPinned` (the
settled price is and stays the last one at or before the close: no later
publication can fall in between, since the successor is already after it), and
`NoStakeOnAKnownAnswer` (a readable settlement needs a timestamp after the
close, and the cutoff is before it). `MarketImplementsEscrow` carries the
refinement over, and `PriceMarketIsSolvent` the book of fees and debts.

`EventMarketProofs`. The question and the round share one token, so
`QuestionInv` contains `MoneyInv`: a bond paid out of the pools would break it
(`BondsSpareThePools`). `ClaimIsWellFormed` ties each state of the claim to its
parties and to a time after the event. `PaysTheAnswer` holds because a round
resolves on an answer only in a final state of the claim, and a final state
admits no further step. `DisclosureIsFinal` needs
`FitsTheEvent`, the schedule the deployment script enforces: a claim can only be
made after the event, when entries are over, so a proposer's stake cannot move
once disclosed. `BondsAreAccountedFor` follows each bond through propose,
challenge, finalise, rule and abandon. The round's own actions never touch the
question's balance, as it is neither user nor treasury.
`EventMarketImplementsEscrow`: the pull escrow holds the market's balance alone,
which no bond enters or leaves, so every step of the claim is a stutter of it and
every step of the round is the step `ImplementsEscrow` maps.

`PositionTicketProofs`. `TicketInvariance`, `OutcomesTold` (`OutcomesAreTrue`)
and `RetriesStartFresh` (`RetryStartsFresh`), for any number of forms, sends and
stops. Every step of the ticket is first reduced to one of `TxStep`'s (a send
begins, a send settles, a form stops or stalls), so the rest of the argument
never sees the chain. `OutcomesAreTrue` is not inductive: that a form's send is
its latest needs `SendsAreNumbered` (numbers grow with the index and stay below
`live`) and `FormsListen` (the send shown is the one `live` names); that a
status is true needs `StagesAgree` (where a send is, against what is awaited and
said of it). `RetryStartsFresh` needs `VerdictsArePast`: no timer has fired for
an attempt not yet begun.

`PermissionsAreUnused`, in the same module, is
`StandingPermissionIsUnused`. Its invariant `PermitInv` ranges over the history:
a submit's calls are sent in the plan's order, each only after the one before it
was mined (`CallsInOrder`, with `OkIsMined`: the app's "mined" is the chain's),
and the position is the last of them (`PositionIsLast`). So a permission mined
for a submit is mined before its position, and the position uses it up.

`ClaimsDeskProofs`. `DeskInv` has four parts. The log is a chain (`IsChain`: a
round settles once, and is paid at most once and after that); every read is a
position in it (`ReadsOK`); a run's claims are as large as the settlement pays,
in descending order, and their states follow the position the run has reached
and what the chain did with the claim sent (`RunOK`); the bell has seen no
more alerts than the browser remembers (`SeenOK`). The chain only grows, so what
a read of any age says of a *settled* round still holds of the chain as it is:
that gives `ListingIsTrue` and `AmountsHold` for listings, confirmations and
round reads of three different moments. `RunReports` follows from the states of
the items, whoever else claims, and `BiggestIsFirst` from the order; that a
finite set of claims can be put in descending order at all is proved by
`SetInduction`. One thing the proof found: a winner whose stake is one unit can
be paid nothing, the rake and the flooring having taken it, so
`ListingTellsTheMoney` asks only of wins that pay something that a payload
without the winner is read as a win.

`LendingProofs`. `LendingInv` is `ChainOK` (the pool, both vaults and the feeds are
typed and their books add up), `SeenOK` (the amounts a page has read are
amounts) and `SentOK` (a send under way is of a job its form can make of such
reads, of any age). There is one
lemma for each function of the pool, on a pool whose books are in order: accrue,
supply, withdraw, borrow, repay, absorb. The vaults' functions are composed of
them, and the pages' and others' steps of those. Proved: `LendingTypeCorrect` (no
subtraction goes below zero, whatever the rounding), `BooksAddUp`
(`PartsAddUp`: scaled supply and debt are the sums over the accounts, and a
position's ledger lasts exactly as long as its shares) and `ProceedsClear`
(`ProceedsClearTheLien`: a repayment out of proceeds is one the pool accepts, and
when the proceeds reach the debt as accrued no unit of it is left).

`FiguresAreRight`, in the same module, states `FiguresHold` for every page. The
invariant is `LendingInv` again; the work is in the figures, one lemma for each
named part. `DoesAsShown` is a case for each page: what a form shows is compared
with the state after the call the contracts make of it. The health a borrower
is shown comes from a debt the page adds up, the contracts' from a scaled debt
rounded up at the index; `DebtAfterBorrow` and `DebtAfterRepay` say that the two
differ by at most what a unit of the scaled debt is worth, which is the tolerance of
`NotAbove` and `NotBelow`. `AccruedIsQuiet`: when nothing is pending, the accrual
each write begins with changes nothing the figures use, so an equality with the
vault's view survives it. The stock page draws its line from the worth of one
token, `LineShownIsLow`: never above the vault's. `DangerIsTold` asks that health
be a decimal (`HealthIsDecimal`: `WAD` divisible by ten, as the bands of
`lib/atRisk` are written in tenths, and the health of no debt above two). What the
caption calls earned, and the dashboard funded, the shares redeem but for less than
`DustFloor`, the tolerance of `lib/stake`.
`DashboardHolds` and `LendScreenHolds` follow from the views and the guards they
stand for.

`UntouchedCallsAreAccepted`, also there, states `UntouchedCallDoesItsJob`: a call
a form let through is accepted, the causes in `Excused` apart, when nothing but
its own approval was mined since the page's reads. Time passes meanwhile, so what
was read is no longer what the chain says. `UntouchedInv` adds to `LendingInv`
what of it lasts, for as long as the chain's height is that of the oldest read:

* `ReadStands`: debts, shares and cash are those read; a row of the liquidation
  table says liquidate or write off of a borrower whom interest has only pushed
  further (`LiquidationStands`);
* `JobStands`: the reason a form let the job through, one clause for each call (a
  repayment is of at most the wallet, a borrowing leaves the margin under the
  ceiling, a withdrawal of stock is within one of the line, prices were young
  when the button was pressed);
* `AllowanceStands`: an approval asks for exactly the amount sent, and once it is
  mined, or when none was needed, the allowance covers it.

A mined transaction raises the height, and leaves the invariant nothing to keep of
the reads and sends before it (`MinedSince`); a tick keeps it because interest only
grows (`TimeStands`: both indices grow with the time accrued, `AccrueGrows`); a
submit establishes it (`OffersStand`, one lemma for each form). `CallAccepted` then
meets each clause with the contract's guard at the accrued index, and `AllIsRepaid`
shows what a repayment of everything leaves. `LedgerLasts` already says that
principal in the vault is at least its shares, so a position is worth exactly its
shares (`WorthItsShares`), whatever time does. `StockExitStands` needs
`0 < MaxLTV`: `stockLoan.ts` divides by it.

Two things the proof found, both now in the model. An approval is a transaction
mined like any other: on the stock page, whose reads do not follow it, a second
form's call may rest on an allowance the first one's approval has replaced, so an
approval counts as mined for every call but its own. And the withdrawal bound of
the stock page is within one unit of the vault's line, not on it, so the excuse
for it asks that the debt as accrued really be above what is left.

`MarketDeskProofs`. A desk step is a step of the price market or leaves it alone,
so every invariant of `PriceMarketProofs` and solvency hold under the screens
(`ScreensInvariance`); the runs open on a round already scheduled or filled, and
`OpenedMarket` shows that such a chain satisfies them. `ScreensInv` says what time
cannot undo of what the screens hold:

* `SeenIsPast`: the round read is an earlier state of the round on chain, with the
  same terms, and is that round once it is settled;
* `SpotIsRead`: the spot price is an answer the feed published;
* `FoundIsAnswerable`: the feed round the search found stays one that `readAt`
  accepts, but for the pause;
* `RequestIsBacked`: of the reason a button was live, the part that lasts
  (`Standing`) still stands when the wallet sends the call.

`LiveButtonsAreAccepted` is then a case for each button against the contract's
guard; `CanWithdrawFees` needs `Solvent` (`FeesAreCovered`).

For `DueRoundsAreOffered` the search has to end on the feed round the adapter
accepts. Its loop is a recursive function of the turn, which exists because its
first *k* turns do for every *k* (`TurnsExist`). `LoopKeeps` shows that after each
turn the two ends straddle the first id at which the predicate fails
(`Straddles`) and are closer by at least one, so `MaxFeedId` turns suffice: the
code halves, but termination needs no more. When no id is skipped after the close,
the lower end is the last publication before it, which `ReadableIsUnique` makes
the adapter's (`SearchIsRight`). With gaps the statement is false: `search_gap`.

`TheCardTellsTheTruth` compares two roundings (`QuoteIsClose`): the card floors
the multiple and applies it to a stake, the contract floors the share itself; the
payout is never below the quote and exceeds it by at most one unit and one more
for each whole unit of stake.

`DeskInputs` states what the screens start from: schedules the contract accepts,
pools the holder could fund, and a strike other than zero.

Only model-checked:

* every liveness property, `PaidOfferIsWithdrawn`, `WinIsAnnounced`,
  `WaitsHaveADoor` and `WatchedSendIsAnnounced` among them: fairness and ENABLED
  are beyond the provers;
* `BooksBalance`: its slack bounds the roundings of this instance; for arbitrary
  rates and any number of accruals no constant does.

## Where comment and code disagree

Five runs end in a violation; each refutes a sentence of a comment.

`settleable_unwind`. `voidUnsettledRound`'s comment says the owner's power
"cannot touch a round that is still settleable by anyone else"
(`ParimutuelRound.sol:654-655`). The code checks the status and the deadline,
not the oracle: a round locked and left unresolved until its deadline, with a
feed round the adapter accepts for its close, is voided by the owner. Anybody
could have resolved it at any moment since the successor was published, which is
the argument of the rest of that comment; the sentence itself is stronger than
the code.

`abandoned_prompt`. `useTransaction.ts:90-92` says that "a send the form has
stopped waiting for, or that outlived the page that sent it, still lands on
chain, and the toast is how anyone hears that it did". It holds of sends the app
had begun to wait for (`WatchedSendIsAnnounced`). A send abandoned while the
wallet prompt was still open shows its "sent" toast once signed, returns at line
99 and is never waited for: it is mined and its toast says loading for good.

`search_gap`. `operator.ts:209-218` says the search's predicate is "true for every
id below the answer and false for every id above it", and that null means the
feed has not published since the close or begins after it. An id without data
counts as "at or before". When the feed skips ids *after* the close, at a phase
change, a probe that lands in the gap moves the lower bound above the answer and
the search ends on an empty id, null, although `readAt` accepts a round. With no
gap after the close the search is right, and `DueRoundIsOffered` says so.

`hedged_win`. `positions.ts:208` says of `netOf` that it is "Negative on a loss,
zero on a void, positive on a win". A holder of both sides wins a round and may be
paid less than the two stakes came to: the row is "won", and its net is zero or
below. `ListingTellsTheMoney` therefore says nothing of the sign of a win's net.

`stock_max`. `stockLoan.ts:5-8` says each function rounds as the contract's line
does, "so a "max" the screen offers is one the contract accepts rather than one it
reverts on by a unit", and lines 114-115 floor the tokens "so the result never
exceeds what the contract will allow". The contract floors twice on what is *left*:
its value, then the share of that value which may be borrowed. Taking out tokens worth
exactly the room can leave a limit one unit below the debt, and the vault refuses.
In the run 102 may be borrowed against 170, 52 is owed, and a Max of 49 tokens
leaves 51. `StockExitStands` proves that it is never more than that unit.

Smaller divergences met on the way, each without a run of its own:

* `operator.ts:68-70` says `VoidUnsettled` is "offered alongside a resolve";
  `actionFor` returns only the void once the deadline has passed.
* `spot.ts:33-35` calls a price on the strike Down and a tie something "that does
  not exist"; the contract voids a tie.
* `alerts.ts:18-19`: a second drop into the same band is never announced, since
  the id is remembered.
* `useClaimAll`'s branch for a mined revert is dead: wagmi's wait throws first,
  as `useTransaction`'s own comment explains.
* `borrow/page.tsx:82`: the allowance is read without an interval. After a
  repayment used it up, a second repayment skips its approval on the cached
  value and reverts.
* `borrow/page.tsx` does not read the pool's cash, and `stocks/page.tsx:390`
  leaves the origination fee out of its liquidity bound: both offer borrowings
  the pool refuses. `stockLoan.ts:5-8` and `stocks/page.tsx:274` compute a
  withdrawal's maximum without pending interest. These are the named excuses of
  `UntouchedCallDoesItsJob`.
* The console lets a typed strike of zero through (`operator/page.tsx:266-272`,
  `363-371`; `amount.ts:12`) although `openRound` reverts with `InvalidStrike`:
  the named excuse of `OfferedCallIsAccepted`.
* `summarise` in `stockLoan.ts` leaves a token without a price out, and
  `stalePrices` does not report one whose time is recent: held beside others it
  makes the vault refuse a borrowing or a withdrawal that the page, with a notice,
  still offers. Another excuse.
* `liquidate/page.tsx` asks for the most the vault allows and does not read the
  wallet it is taken from: the last excuse.
* No page reads either pause before it offers a deposit, a supply, a borrowing or
  an entry.
* `phaseOf` answers Cutoff before the opening time, so a card calls entry closed
  before it has opened.
* `usePositions` is fetched once and never polled; after a settlement its rows
  are as of the last visit until a claim or a reload.

## Not modelled

* `readLatest`, `phaseOf`, `oddsOf` and other views no action depends on.
* Fee-on-transfer or rebasing tokens: the contract's comment excludes them.
* Overflow of 256-bit amounts and 64-bit timestamps: Solidity reverts; the
  adapter's explicit overflow guard *is* modelled.
* Ownership transfer (OpenZeppelin): the owner is whoever takes the owner's
  actions.
* A stock token's `uiMultiplier` (`StockLoanVault.sol:486-488`, `502-518`): splits, and
  the rounding of its product, which may move a value by one more unit.
* Share transfers and donations in `CollateralVault`, listing and delisting of
  stock tokens, and the owner's setters of rates and limits: parameters are
  constants of the model.
* `MarketRegistry`, `Keeper`, `Indexer` with store and ledger, broker, mirror,
  sign-in nonces, the finance mirror. On chain the keeper and the mirror are
  callers, and every property of the contracts holds for any caller at any time;
  the listing the web app reads is a prefix of the log that may lag
  (`ClaimsDesk`). What happens *inside* these processes is not checked: the
  keeper's cursor over settled prefixes (`keeper.go:586`), its reconciliation of
  delistings with rounds opened in the same pass (`keeper.go:607`), backoff
  keyed by action (`keeper.go:640`), the indexer's reorganisations
  (`indexer.go:625`, `indexer.go:865`) and rollback by chain (`ledger.go:148`),
  dropped notifications (`broker.go:119`), a push mined after its wait failed
  (`mirror.go:247`), concurrent nonces (`nonces.go:37`). Those are the hazards
  that remain.
* On the web side: several markets side by side, their order and categories,
  the `openRound` of older deployments, repointing a treasury, the pool's
  reserves panel, activity and question texts, wallet connection, translation
  and formatting, and generated interface files: wording, layout and I/O.
* The HTTP API, JSON-RPC and SQL plumbing: I/O and formatting.

## Plan

Done, in order: `ParimutuelRound`, `PullEscrow`, `PriceMarket`, `EventMarket`;
`Transaction` and `PositionTicket`; `ClaimsDesk`; `LendingPool`, `CreditVaults`
and `LendingDesk`; `MarketDesk`.

Left, in the order worth taking:

1. `Keeper`: several markets, the cursor, pending and retirement, failures and
   backoff. Abstract specification: a set of rounds in flight that only shrinks
   by settlement.
2. `Indexer` with the broker: reorganisations, crashes between steps, two
   streams on one chain. Abstract specification: the stored rows are the
   canonical chain's prefix. It would replace `ClaimsDesk`'s assumption on its
   listing.
3. `Mirror` and `Nonces`; the finance mirror compared with `Entitlement`.
4. Theorems: the invariants of the components above. Every invariant and every
   action property the runs check is proved, `BooksBalance` apart.
