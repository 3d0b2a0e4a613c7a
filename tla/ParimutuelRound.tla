--------------------------- MODULE ParimutuelRound ---------------------------
(***************************************************************************)
(* ParimutuelRound.sol: binary rounds that pool stakes per side, settle    *)
(* against one price and pay by pull.                                      *)
(*                                                                         *)
(* One action per external function.  A revert leaves the state alone, so  *)
(* a require is a conjunct and a call that reverts is no step.  onlyOwner  *)
(* needs no state: the owner is the one who takes those actions.  The      *)
(* oracle is whatever resolveRound is told: here any answer at all, in     *)
(* PriceMarket the answer of the adapter.                                  *)
(***************************************************************************)
EXTENDS BlockTime, Erc20, EntryPausable, Treasured, FiniteSets, FiniteSetsExt

CONSTANTS
  Users,                \* addresses that hold positions
  Routers,              \* contracts the owner may let stake for others
  Market,               \* address(this)
  MaxRounds,            \* bound: rounds a behaviour may open
  Amounts,              \* bound: stakes a caller may ask for
  Strikes,              \* bound: strikes the owner may ask for
  Prices,               \* bound: prices the oracle may answer
  Funding,              \* what every account holds at deployment
  Rake, WAD,            \* the protocol's cut is Rake/WAD of a resolved pool
  EntryCutoff, LockWindow, ResolveDeadline, MinSidePool

\* The constructor's checks (ParimutuelRound.sol:307-332) and distinct addresses.
ASSUME ConstructorAccepts ==
  /\ {Rake, WAD, EntryCutoff, LockWindow, ResolveDeadline, MinSidePool} \subseteq Nat
  /\ WAD > 0
  /\ 10 * Rake <= WAD
  /\ EntryCutoff > 0 /\ LockWindow > 0 /\ ResolveDeadline > 0 /\ MinSidePool > 0

ASSUME InputsAreNaturals ==
  /\ MaxRounds \in Nat
  /\ Amounts \subseteq Nat /\ Strikes \subseteq Nat /\ Prices \subseteq Nat

ASSUME AddressesAreDistinct ==
  /\ Users \cup Routers \cup Treasuries \cup {Market} \subseteq Accounts
  /\ ZeroAddress \notin Accounts
  /\ Market \notin Users \cup Routers \cup Treasuries
  /\ Users \cap Routers = {}
  /\ Funding \in [Accounts -> Nat]
  /\ Funding[Market] = 0

\* An address is a number of 160 bits.
ASSUME UsersAreFinite == IsFiniteSet(Users)

RoundIds == 1..MaxRounds
Sides == {"Up", "Down"}

VARIABLES
  roundCount,
  rounds,               \* _rounds
  stakeOf,              \* roundId -> user -> side -> amount
  claimed,
  settlementSinkOf,
  isRouter,
  protocolFees,
  funders               \* history: the funder of every PositionTaken event

bookVars == <<stakeOf, claimed, settlementSinkOf, funders>>
roundVars == <<roundCount, rounds, bookVars, isRouter, protocolFees, balance>>
vars == <<now, entriesPaused, pauseGuardian, treasury, roundVars>>

Statuses == {"None", "Open", "Locked", "Resolved", "Void"}
Terminal == {"Resolved", "Void"}

Round ==
  [status: Statuses, openTime: Times, lockTime: Times, closeTime: Times,
   winner: Sides, lockPrice: Nat, closePrice: Nat, pool: [Sides -> Nat],
   rakeTaken: Nat]

\* Storage no one has written to.
NoRound ==
  [status |-> "None", openTime |-> 0, lockTime |-> 0, closeTime |-> 0,
   winner |-> "Up", lockPrice |-> 0, closePrice |-> 0,
   pool |-> [s \in Sides |-> 0], rakeTaken |-> 0]

TypeOK ==
  /\ now \in Times
  /\ PauseTypeOK
  /\ treasury \in Treasuries
  /\ roundCount \in 0..MaxRounds
  /\ rounds \in [RoundIds -> Round]
  /\ stakeOf \in [RoundIds -> [Users -> [Sides -> Nat]]]
  /\ claimed \in [RoundIds -> [Users -> BOOLEAN]]
  /\ settlementSinkOf \in [RoundIds -> [Users -> Routers \cup {ZeroAddress}]]
  /\ isRouter \in [Routers -> BOOLEAN]
  /\ protocolFees \in Nat
  /\ balance \in [Accounts -> Nat]
  /\ funders \in [RoundIds -> [Users -> SUBSET (Users \cup Routers)]]

Init ==
  /\ now = 0
  /\ PauseInit
  /\ TreasuryInit
  /\ roundCount = 0
  /\ rounds = [id \in RoundIds |-> NoRound]
  /\ stakeOf = [id \in RoundIds |-> [u \in Users |-> [s \in Sides |-> 0]]]
  /\ claimed = [id \in RoundIds |-> [u \in Users |-> FALSE]]
  /\ settlementSinkOf = [id \in RoundIds |-> [u \in Users |-> ZeroAddress]]
  /\ isRouter = [r \in Routers |-> FALSE]
  /\ protocolFees = 0
  /\ balance = Funding
  /\ funders = [id \in RoundIds |-> [u \in Users |-> {}]]

-----------------------------------------------------------------------------
(***************************************************************************)
(* Views.                                                                  *)
(***************************************************************************)
TotalPool(id) == rounds[id].pool["Up"] + rounds[id].pool["Down"]

TotalStake(id, u) == stakeOf[id][u]["Up"] + stakeOf[id][u]["Down"]

CutoffAt(id) == rounds[id].lockTime - EntryCutoff

\* Mutant: entry stays open until somebody calls lockRound.
OpenUntilLocked(id) ==
  /\ rounds[id].status = "Open"
  /\ now >= rounds[id].openTime

entryIsOpen(id) ==
  /\ rounds[id].status = "Open"
  /\ now >= rounds[id].openTime
  /\ now < CutoffAt(id)

\* Mutant: a share of the pool rounds up.
ShareRoundedUp(pool, stake, winningPool) ==
  (pool * stake + winningPool - 1) \div winningPool

Share(pool, stake, winningPool) == (pool * stake) \div winningPool

\* Mutant: a void refunds one side of a hedged position.
RefundsUpSideOnly(id, u) ==
  LET r == rounds[id]
  IN  CASE r.status = "Void" -> stakeOf[id][u]["Up"]
        [] r.status = "Resolved" /\ stakeOf[id][u][r.winner] > 0 ->
             Share(TotalPool(id) - r.rakeTaken, stakeOf[id][u][r.winner], r.pool[r.winner])
        [] OTHER -> 0

\* What a position is worth once its round is settled, whether collected or not.
Entitlement(id, u) ==
  LET r == rounds[id]
  IN  CASE r.status = "Void" -> TotalStake(id, u)
        [] r.status = "Resolved" /\ stakeOf[id][u][r.winner] > 0 ->
             Share(TotalPool(id) - r.rakeTaken, stakeOf[id][u][r.winner], r.pool[r.winner])
        [] OTHER -> 0

claimableOf(id, u) == IF claimed[id][u] THEN 0 ELSE Entitlement(id, u)

\* Where the proceeds of a position go.
Recipient(id, u) ==
  IF settlementSinkOf[id][u] = ZeroAddress THEN u ELSE settlementSinkOf[id][u]

-----------------------------------------------------------------------------
(***************************************************************************)
(* Scheduling and entry.                                                   *)
(***************************************************************************)
CanOpen(openTime, lockTime, closeTime, strike) ==
  /\ whenEntriesOpen
  /\ openTime >= now
  /\ lockTime > openTime + EntryCutoff
  /\ closeTime > lockTime
  /\ strike # 0
  /\ roundCount < MaxRounds
  /\ closeTime + ResolveDeadline < MaxTime          \* bound: deadlines fit the clock

openRound(openTime, lockTime, closeTime, strike) ==
  /\ CanOpen(openTime, lockTime, closeTime, strike)
  /\ roundCount' = roundCount + 1
  /\ rounds' = [rounds EXCEPT ![roundCount + 1] =
                  [NoRound EXCEPT !.status = "Open", !.openTime = openTime,
                     !.lockTime = lockTime, !.closeTime = closeTime,
                     !.lockPrice = strike]]
  /\ UNCHANGED <<now, pauseVars, treasury, bookVars, isRouter, protocolFees, balance>>

\* Mutant: a position may be topped up from another source.
AnyFunding(id, u, sink) == TRUE

\* One funding source per user per round (MixedFunding).
SameFunding(id, u, sink) ==
  TotalStake(id, u) # 0 => settlementSinkOf[id][u] = sink

\* _takePosition, the private function both entries go through.
TakePosition(id, u, side, amount, payer, sink) ==
  /\ whenEntriesOpen
  /\ amount # 0
  /\ entryIsOpen(id)
  /\ SameFunding(id, u, sink)
  /\ settlementSinkOf' =
       IF sink # ZeroAddress /\ TotalStake(id, u) = 0
         THEN [settlementSinkOf EXCEPT ![id][u] = sink]
         ELSE settlementSinkOf
  /\ stakeOf' = [stakeOf EXCEPT ![id][u][side] = @ + amount]
  /\ rounds' = [rounds EXCEPT ![id].pool[side] = @ + amount]
  /\ Transfer(payer, Market, amount)
  /\ funders' = [funders EXCEPT ![id][u] = @ \cup {payer}]
  /\ UNCHANGED <<now, pauseVars, treasury, roundCount, claimed, isRouter, protocolFees>>

takePosition(u, id, side, amount) ==
  TakePosition(id, u, side, amount, u, ZeroAddress)

takePositionFor(router, id, u, side, amount) ==
  /\ isRouter[router]
  /\ TakePosition(id, u, side, amount, router, router)

-----------------------------------------------------------------------------
(***************************************************************************)
(* Lock, resolve, void.                                                    *)
(***************************************************************************)
SettlesNothingElse ==
  UNCHANGED <<now, pauseVars, treasury, roundCount, bookVars, isRouter, balance>>

SidesFilled(id) == \A s \in Sides : rounds[id].pool[s] >= MinSidePool

\* Mutant: a round locks with a side below the floor.
LocksAnyPool(id) ==
  /\ rounds[id].status = "Open"
  /\ now >= rounds[id].lockTime
  /\ rounds' = [rounds EXCEPT ![id].status =
       IF now <= rounds[id].lockTime + LockWindow THEN "Locked" ELSE "Void"]
  /\ SettlesNothingElse
  /\ UNCHANGED protocolFees

\* Mutant: a late lock is refused instead of voiding the round.
LocksUnlessLate(id) ==
  /\ rounds[id].status = "Open"
  /\ now \in rounds[id].lockTime..(rounds[id].lockTime + LockWindow)
  /\ rounds' = [rounds EXCEPT ![id].status = IF SidesFilled(id) THEN "Locked" ELSE "Void"]
  /\ SettlesNothingElse
  /\ UNCHANGED protocolFees

CanLock(id) == rounds[id].status = "Open" /\ now >= rounds[id].lockTime

lockRound(id) ==
  /\ CanLock(id)
  /\ rounds' = [rounds EXCEPT ![id].status =
       IF SidesFilled(id) /\ now <= rounds[id].lockTime + LockWindow
         THEN "Locked" ELSE "Void"]
  /\ SettlesNothingElse
  /\ UNCHANGED protocolFees

RakeOn(pool) == (pool * Rake) \div WAD

\* `read` is what oracle.readAt answered for the feed round the caller named.
CanResolve(id, read) ==
  /\ rounds[id].status = "Locked"
  /\ now >= rounds[id].closeTime
  /\ read.ok

resolveRound(id, read) ==
  LET strike == rounds[id].lockPrice
      rake == RakeOn(TotalPool(id))
  IN
  /\ CanResolve(id, read)
  /\ \/ /\ read.price = strike                       \* a tie refunds everybody
        /\ rounds' = [rounds EXCEPT ![id].closePrice = read.price, ![id].status = "Void"]
        /\ UNCHANGED protocolFees
     \/ /\ read.price # strike
        /\ rounds' = [rounds EXCEPT
             ![id].status = "Resolved",
             ![id].closePrice = read.price,
             ![id].winner = IF read.price > strike THEN "Up" ELSE "Down",
             ![id].rakeTaken = rake]
        /\ protocolFees' = protocolFees + rake
  /\ SettlesNothingElse

\* _void: a status change; refunds fall out of claimableOf.
VoidRound(id) ==
  /\ rounds' = [rounds EXCEPT ![id].status = "Void"]
  /\ SettlesNothingElse
  /\ UNCHANGED protocolFees

PastResolveDeadline(id) == now > rounds[id].closeTime + ResolveDeadline

\* Mutant: the owner's unwind forgets to look at the status.
VoidsAnySettledRound(id) ==
  /\ rounds[id].status \notin {"None", "Open"}
  /\ PastResolveDeadline(id)
  /\ VoidRound(id)

\* Mutant: the unwind is guarded like an entry.
VoidsOnlyUnpaused(id) ==
  /\ whenEntriesOpen
  /\ rounds[id].status = "Locked"
  /\ PastResolveDeadline(id)
  /\ VoidRound(id)

CanVoidUnsettled(id) == rounds[id].status = "Locked" /\ PastResolveDeadline(id)
CanVoidUnlocked(id) == rounds[id].status = "Open" /\ now > rounds[id].lockTime + LockWindow

voidUnsettledRound(id) == CanVoidUnsettled(id) /\ VoidRound(id)
voidUnlockedRound(id) == CanVoidUnlocked(id) /\ VoidRound(id)

-----------------------------------------------------------------------------
(***************************************************************************)
(* Claims and administration.                                              *)
(***************************************************************************)
\* Mutant: the claim pays and is not recorded.
PaysWithoutMark(id, u) ==
  /\ claimableOf(id, u) # 0
  /\ Transfer(Market, Recipient(id, u), claimableOf(id, u))
  /\ UNCHANGED <<now, pauseVars, treasury, roundCount, rounds, bookVars,
                 isRouter, protocolFees>>

\* Mutant: the pause refuses claims too.
ClaimsUnpaused(id, u) ==
  /\ whenEntriesOpen
  /\ claimableOf(id, u) # 0
  /\ claimed' = [claimed EXCEPT ![id][u] = TRUE]
  /\ Transfer(Market, Recipient(id, u), claimableOf(id, u))
  /\ UNCHANGED <<now, pauseVars, treasury, roundCount, rounds, stakeOf,
                 settlementSinkOf, isRouter, protocolFees, funders>>

claim(id, u) ==
  /\ rounds[id].status # "None"
  /\ claimableOf(id, u) # 0
  /\ claimed' = [claimed EXCEPT ![id][u] = TRUE]
  /\ Transfer(Market, Recipient(id, u), claimableOf(id, u))
  /\ UNCHANGED <<now, pauseVars, treasury, roundCount, rounds, stakeOf,
                 settlementSinkOf, isRouter, protocolFees, funders>>

setRouter(router, allowed) ==
  /\ isRouter' = [isRouter EXCEPT ![router] = allowed]
  /\ UNCHANGED <<now, pauseVars, treasury, roundCount, rounds, bookVars,
                 protocolFees, balance>>

\* Mutant: the owner withdraws from the pools, not only from the fees.
WithdrawsFromPools(amount) ==
  /\ protocolFees' = protocolFees - amount
  /\ Transfer(Market, treasury, amount)
  /\ UNCHANGED <<now, pauseVars, treasury, roundCount, rounds, bookVars, isRouter>>

CanWithdrawFees(amount) == amount # 0 /\ amount <= protocolFees /\ CanTransfer(Market, amount)

withdrawFees(amount) ==
  /\ CanWithdrawFees(amount)
  /\ protocolFees' = protocolFees - amount
  /\ Transfer(Market, treasury, amount)
  /\ UNCHANGED <<now, pauseVars, treasury, roundCount, rounds, bookVars, isRouter>>

-----------------------------------------------------------------------------
Administration ==
  \/ PauseNext /\ UNCHANGED <<now, treasury, roundVars>>
  \/ \E to \in Treasuries : setTreasury(to) /\ UNCHANGED <<now, pauseVars, roundVars>>
  \/ \E router \in Routers, allowed \in BOOLEAN : setRouter(router, allowed)
  \/ \E amount \in 0..balance[Market] : withdrawFees(amount)

Entries ==
  \/ /\ roundCount < MaxRounds      \* of CanOpen, asked once and not of every schedule
     /\ \E o, l, c \in Times, strike \in Strikes : openRound(o, l, c, strike)
  \/ \E u \in Users, id \in RoundIds, side \in Sides, amount \in Amounts :
       \/ takePosition(u, id, side, amount)
       \/ \E router \in Routers : takePositionFor(router, id, u, side, amount)

Exits ==
  \E id \in RoundIds :
    \/ lockRound(id)
    \/ voidUnsettledRound(id)
    \/ voidUnlockedRound(id)
    \/ \E u \in Users : claim(id, u)

\* Everything but the settlement price, which the oracle behind the round decides.
NextButResolve ==
  \/ Tick /\ UNCHANGED <<pauseVars, treasury, roundVars>>
  \/ Administration
  \/ Entries
  \/ Exits

Reads == [ok: BOOLEAN, price: Prices]

Next ==
  \/ NextButResolve
  \/ \E id \in RoundIds, read \in Reads : resolveRound(id, read)

Spec == Init /\ [][Next]_vars

\* The keeper locks what is due, the owner unwinds what is stuck, holders (or
\* anyone for them) claim, and blocks keep coming.
Fairness ==
  /\ WF_vars(Tick /\ UNCHANGED <<pauseVars, treasury, roundVars>>)
  /\ \A id \in RoundIds :
       /\ WF_vars(lockRound(id))
       /\ WF_vars(voidUnsettledRound(id))
       /\ \A u \in Users : WF_vars(claim(id, u))

FairSpec == Spec /\ Fairness

-----------------------------------------------------------------------------
(***************************************************************************)
(* What the contract owes for a round: the stakes of one that is still     *)
(* running, what is left to claim of one that is settled.                  *)
(***************************************************************************)
OwedTo(id, u) ==
  IF rounds[id].status \in Terminal THEN claimableOf(id, u) ELSE TotalStake(id, u)

OwedOn(id) == SumFunction([u \in Users |-> OwedTo(id, u)])

Owed == SumFunction([id \in RoundIds |-> OwedOn(id)])

Winners(id) == {u \in Users : stakeOf[id][u][rounds[id].winner] > 0}

\* Flooring each share keeps back less than one unit per winner, so at most
\* one unit fewer than there are winners.
DustOn(id) == IF rounds[id].status = "Resolved" THEN Cardinality(Winners(id)) - 1 ELSE 0

DustBound == SumFunction([id \in RoundIds |-> DustOn(id)])

(***************************************************************************)
(* The contract can always pay: its token balance covers the uncollected   *)
(* rake and everything owed on every round at once, whatever the order of  *)
(* claims and fee withdrawals (claimableOf, claim, withdrawFees).          *)
(***************************************************************************)
Solvent == balance[Market] >= protocolFees + Owed

(***************************************************************************)
(* ... and keeps nothing else: what is neither fees nor owed is rounding   *)
(* dust, less than a unit per winner (the comment in claimableOf).  A void *)
(* therefore refunds every stake in full, on both sides.                   *)
(***************************************************************************)
NothingStranded == balance[Market] <= protocolFees + Owed + DustBound

(***************************************************************************)
(* A position has one funding source, and its proceeds go back to it: who  *)
(* paid in is exactly who a claim pays out to (MixedFunding, claim).       *)
(***************************************************************************)
ProceedsReturnToFunder ==
  \A id \in RoundIds, u \in Users :
    funders[id][u] = IF TotalStake(id, u) = 0 THEN {} ELSE {Recipient(id, u)}

(***************************************************************************)
(* A resolved round was a market: both sides reached the floor, so the     *)
(* payout never divides by zero, the price was not the strike, and the     *)
(* rake is the declared share of the pool (lockRound, resolveRound).       *)
(***************************************************************************)
ResolvedIsAMarket ==
  \A id \in RoundIds :
    LET r == rounds[id]
    IN  r.status = "Resolved" =>
          /\ SidesFilled(id)
          /\ r.closePrice # r.lockPrice
          /\ r.winner = "Up" <=> r.closePrice > r.lockPrice
          /\ r.rakeTaken = (TotalPool(id) * Rake) \div WAD

(***************************************************************************)
(* A settled round is frozen: nothing that happens later, to it or to any  *)
(* other round, changes its record or what any holder is entitled to, so   *)
(* no claim depends on who claimed before (resolveRound, voidUnsettled-    *)
(* Round, claim).                                                          *)
(***************************************************************************)
SettledIsFrozen ==
  [][\A id \in RoundIds : rounds[id].status \in Terminal =>
       /\ rounds'[id] = rounds[id]
       /\ \A u \in Users : Entitlement(id, u)' = Entitlement(id, u)]_vars

(***************************************************************************)
(* Every round that opens is eventually resolved or void, even if entries  *)
(* are paused for good and no price is ever readable.                      *)
(***************************************************************************)
EveryRoundSettles ==
  \A id \in RoundIds : rounds[id].status = "Open" ~> rounds[id].status \in Terminal

(***************************************************************************)
(* Every stake is eventually settled with nothing left to collect, even    *)
(* under a permanent pause: the pause refuses entries and traps nothing.   *)
(***************************************************************************)
EveryStakeLeaves ==
  \A id \in RoundIds, u \in Users :
    TotalStake(id, u) > 0 ~>
      rounds[id].status \in Terminal /\ claimableOf(id, u) = 0

-----------------------------------------------------------------------------
(***************************************************************************)
(* The round as a pull-payment escrow.                                     *)
(***************************************************************************)
EscrowPhase ==
  [id \in RoundIds |->
    CASE rounds[id].status = "None" -> "idle"
      [] rounds[id].status = "Open" -> "taking"
      [] rounds[id].status = "Locked" -> "sealed"
      [] OTHER -> "settled"]

EscrowStake == [id \in RoundIds |-> [u \in Users |-> TotalStake(id, u)]]

EscrowDue == [id \in RoundIds |-> [u \in Users |-> Entitlement(id, u)]]

Escrow == INSTANCE PullEscrow WITH
  Rounds <- RoundIds,
  Holders <- Users,
  phase <- EscrowPhase,
  stake <- EscrowStake,
  due <- EscrowDue,
  paid <- claimed,
  fees <- protocolFees,
  held <- balance[Market]

(***************************************************************************)
(* Every step of the contract is a step of the escrow or leaves it alone.  *)
(***************************************************************************)
RefinesPullEscrow == Escrow!EscrowSpec
=============================================================================
