------------------------ MODULE ParimutuelRoundProofs ------------------------
(***************************************************************************)
(* ParimutuelRound for every number of users, rounds, amounts and prices.  *)
(***************************************************************************)
EXTENDS ParimutuelRound, SumTheorems

\* A round that left the entry phase for settlement had both sides filled.
LockedIsFilled ==
  \A id \in RoundIds : rounds[id].status \in {"Locked", "Resolved"} => SidesFilled(id)

\* Any answer an oracle could give, and a step with any of them: what is proved of
\* Step holds of every market built on the contract, whatever its oracle.
OracleReads == [ok: BOOLEAN, price: Nat]

Step ==
  \/ NextButResolve
  \/ \E id \in RoundIds, read \in OracleReads : resolveRound(id, read)

\* Round ids are handed out in order.
ScheduledInOrder ==
  \A id \in RoundIds : rounds[id].status = "None" <=> id > roundCount

\* Entry closes before the lock and the lock comes before the close.
WellScheduled ==
  \A id \in RoundIds :
    rounds[id].status # "None" =>
      /\ CutoffAt(id) > rounds[id].openTime
      /\ rounds[id].lockTime < rounds[id].closeTime

\* A sink is recorded with the stake it stands behind.
NoSinkWithoutStake ==
  \A id \in RoundIds, u \in Users :
    TotalStake(id, u) = 0 => settlementSinkOf[id][u] = ZeroAddress

\* The inductive invariant.
IInv ==
  /\ TypeOK
  /\ ScheduledInOrder
  /\ WellScheduled
  /\ LockedIsFilled
  /\ ResolvedIsAMarket
  /\ NoSinkWithoutStake
  /\ ProceedsReturnToFunder
  /\ PauseIsLiftable

LEMMA DivIsNat ==
  ASSUME NEW a \in Nat, NEW b \in Nat, b > 0
  PROVE  a \div b \in Nat
  OBVIOUS

LEMMA RakeIsNat ==
  ASSUME NEW pool \in Nat
  PROVE  RakeOn(pool) \in Nat
<1>1. Rake \in Nat /\ WAD \in Nat /\ WAD > 0
  BY ConstructorAccepts
<1>2. pool * Rake \in Nat
  BY <1>1
<1> QED
  BY <1>1, <1>2, DivIsNat DEF RakeOn

\* A floor never exceeds what it floors.
LEMMA DivTimes ==
  ASSUME NEW a \in Nat, NEW b \in Nat, b > 0
  PROVE  (a \div b) * b <= a
  OBVIOUS

LEMMA RakeWithinPool ==
  ASSUME NEW pool \in Nat
  PROVE  RakeOn(pool) <= pool
<1> DEFINE q == RakeOn(pool)
<1>1. Rake \in Nat /\ WAD \in Nat /\ WAD > 0 /\ Rake <= WAD
  BY ConstructorAccepts
<1>2. q \in Nat
  BY RakeIsNat
<1>3. pool * Rake <= pool * WAD /\ pool * Rake \in Nat /\ pool * WAD \in Nat
  BY <1>1, MulMonotone
<1>4. q * WAD <= pool * Rake
  BY <1>1, <1>3, DivTimes DEF RakeOn
<1>5. ASSUME q > pool PROVE FALSE
  <2>1. q * WAD >= (pool + 1) * WAD
    BY <1>1, <1>2, <1>5
  <2>2. (pool + 1) * WAD = pool * WAD + WAD
    BY <1>1
  <2> QED
    BY <1>1, <1>2, <1>3, <1>4, <2>1, <2>2
<1> QED
  BY <1>2, <1>5

LEMMA NoRoundIsRound == NoRound \in Round
  BY MaxTimeIsNat DEF NoRound, Round, Statuses, Sides, Times

LEMMA TransferTyped ==
  ASSUME balance \in [Accounts -> Nat],
         NEW from \in Accounts, NEW to \in Accounts, NEW amount \in Nat,
         Transfer(from, to, amount)
  PROVE  balance' \in [Accounts -> Nat]
  BY DEF Transfer, CanTransfer

LEMMA StatusTyped ==
  ASSUME rounds \in [RoundIds -> Round],
         NEW id \in RoundIds, NEW st \in Statuses
  PROVE  [rounds EXCEPT ![id].status = st] \in [RoundIds -> Round]
<1>1. ASSUME NEW r \in Round PROVE [r EXCEPT !.status = st] \in Round
  BY DEF Round
<1> QED
  BY <1>1

LEMMA InitTypeOK == Init => TypeOK
<1> SUFFICES ASSUME Init PROVE TypeOK
  OBVIOUS
<1>1. now \in Times /\ treasury \in Treasuries
  BY MaxTimeIsNat, OwnerIsATreasury DEF Init, Times, TreasuryInit
<1>7. PauseTypeOK
  BY DEF Init, PauseInit, PauseTypeOK
<1>2. roundCount \in 0..MaxRounds /\ protocolFees \in Nat
  BY InputsAreNaturals DEF Init
<1>3. rounds \in [RoundIds -> Round]
  BY NoRoundIsRound DEF Init
<1>4. stakeOf \in [RoundIds -> [Users -> [Sides -> Nat]]]
  BY DEF Init
<1>5. /\ claimed \in [RoundIds -> [Users -> BOOLEAN]]
      /\ settlementSinkOf \in [RoundIds -> [Users -> Routers \cup {ZeroAddress}]]
      /\ isRouter \in [Routers -> BOOLEAN]
      /\ funders \in [RoundIds -> [Users -> SUBSET (Users \cup Routers)]]
  BY DEF Init
<1>6. balance \in [Accounts -> Nat]
  BY AddressesAreDistinct DEF Init
<1> QED
  BY <1>1, <1>2, <1>3, <1>4, <1>5, <1>6, <1>7 DEF TypeOK

\* Shares of a filled side are naturals: the division has a positive divisor.
LEMMA EntitlementIsNat ==
  ASSUME TypeOK, LockedIsFilled, ResolvedIsAMarket, NEW id \in RoundIds, NEW u \in Users
  PROVE  Entitlement(id, u) \in Nat
<1> DEFINE r == rounds[id]
<1>1. r \in Round /\ r.pool \in [Sides -> Nat] /\ r.winner \in Sides /\ r.rakeTaken \in Nat
  BY DEF TypeOK, Round
<1>2. stakeOf[id][u] \in [Sides -> Nat]
  BY DEF TypeOK
<1>3. CASE r.status = "Void"
  BY <1>2, <1>3 DEF Entitlement, TotalStake, Sides
<1>4. CASE r.status = "Resolved" /\ stakeOf[id][u][r.winner] > 0
  <2>1. MinSidePool \in Nat /\ MinSidePool > 0
    BY ConstructorAccepts
  <2>2. r.pool[r.winner] \in Nat /\ r.pool[r.winner] > 0
    BY <1>1, <1>4, <2>1 DEF LockedIsFilled, SidesFilled
  <2>3. TotalPool(id) \in Nat /\ r.rakeTaken <= TotalPool(id)
    <3>1. TotalPool(id) \in Nat
      BY <1>1 DEF TotalPool, Sides
    <3>2. r.rakeTaken = RakeOn(TotalPool(id))
      BY <1>4 DEF ResolvedIsAMarket, RakeOn
    <3> QED
      BY <3>1, <3>2, RakeWithinPool
  <2>4. (TotalPool(id) - r.rakeTaken) * stakeOf[id][u][r.winner] \in Nat
    BY <1>1, <1>2, <2>3, MulIsNat
  <2> QED
    BY <1>4, <2>2, <2>4, DivIsNat DEF Entitlement, Share
<1>5. CASE r.status # "Void" /\ ~(r.status = "Resolved" /\ stakeOf[id][u][r.winner] > 0)
  BY <1>5 DEF Entitlement
<1> QED
  BY <1>3, <1>4, <1>5

LEMMA TypeStep ==
  ASSUME TypeOK, LockedIsFilled, ResolvedIsAMarket, [Step]_vars
  PROVE  TypeOK'
<1> USE DEF TypeOK
<1>1. CASE Tick /\ UNCHANGED <<pauseVars, treasury, roundVars>>
  <2>1. now' \in Times
    BY <1>1, MaxTimeIsNat DEF Tick, Times
  <2> QED
    BY <1>1, <2>1 DEF pauseVars, roundVars, bookVars, PauseTypeOK
<1>2. CASE PauseNext /\ UNCHANGED <<now, treasury, roundVars>>
  <2>1. PauseTypeOK'
    <3>1. CASE pauseEntries
      BY <3>1 DEF pauseEntries, onlyPauseGuardian, PauseTypeOK
    <3>2. CASE unpauseEntries
      BY <3>2 DEF unpauseEntries, PauseTypeOK
    <3>3. CASE \E to \in Guardians \cup {ZeroAddress} : transferPauseGuardian(to)
      BY <3>3 DEF transferPauseGuardian, MayHandTo, PauseTypeOK
    <3> QED BY <1>2, <3>1, <3>2, <3>3 DEF PauseNext
  <2> QED
    BY <1>2, <2>1 DEF roundVars, bookVars
<1>3. ASSUME NEW to \in Treasuries, setTreasury(to) /\ UNCHANGED <<now, pauseVars, roundVars>>
      PROVE  TypeOK'
  BY <1>3 DEF setTreasury, pauseVars, roundVars, bookVars, PauseTypeOK
<1>4. ASSUME NEW router \in Routers, NEW allowed \in BOOLEAN, setRouter(router, allowed)
      PROVE  TypeOK'
  BY <1>4 DEF setRouter, pauseVars, bookVars, PauseTypeOK
<1>5. ASSUME NEW amount \in 0..balance[Market], withdrawFees(amount)
      PROVE  TypeOK'
  <2>1. amount \in Nat /\ Market \in Accounts /\ treasury \in Accounts
    BY AddressesAreDistinct
  <2>2. protocolFees' \in Nat
    BY <1>5, <2>1 DEF withdrawFees, CanWithdrawFees
  <2>3. balance' \in [Accounts -> Nat]
    BY <1>5, <2>1, TransferTyped DEF withdrawFees, CanWithdrawFees
  <2> QED
    BY <1>5, <2>2, <2>3 DEF withdrawFees, pauseVars, bookVars, PauseTypeOK, CanWithdrawFees
<1>6. ASSUME NEW o \in Times, NEW l \in Times, NEW c \in Times, NEW strike \in Strikes,
             openRound(o, l, c, strike)
      PROVE  TypeOK'
  <2> DEFINE new == [NoRound EXCEPT !.status = "Open", !.openTime = o, !.lockTime = l,
                                    !.closeTime = c, !.lockPrice = strike]
  <2>1. new \in Round
    BY NoRoundIsRound, InputsAreNaturals DEF Round, Statuses
  <2>2. roundCount' \in 0..MaxRounds
    BY <1>6, InputsAreNaturals DEF openRound, CanOpen
  <2>3. rounds' \in [RoundIds -> Round]
    BY <1>6, <2>1 DEF openRound, CanOpen
  <2> QED
    BY <1>6, <2>2, <2>3 DEF openRound, pauseVars, bookVars, PauseTypeOK, CanOpen
<1>7. ASSUME NEW u \in Users, NEW id \in RoundIds, NEW side \in Sides, NEW amount \in Amounts,
             NEW payer \in Users \cup Routers, NEW sink \in Routers \cup {ZeroAddress},
             TakePosition(id, u, side, amount, payer, sink)
      PROVE  TypeOK'
  <2>1. amount \in Nat /\ payer \in Accounts /\ Market \in Accounts
    BY InputsAreNaturals, AddressesAreDistinct
  <2>2. balance' \in [Accounts -> Nat]
    BY <1>7, <2>1, TransferTyped DEF TakePosition
  <2>3. stakeOf' \in [RoundIds -> [Users -> [Sides -> Nat]]]
    BY <1>7, <2>1 DEF TakePosition
  <2>4. rounds' \in [RoundIds -> Round]
    <3>1. rounds[id] \in Round
      OBVIOUS
    <3> DEFINE pool == [rounds[id].pool EXCEPT ![side] = @ + amount]
    <3>2. pool \in [Sides -> Nat]
      BY <2>1, <3>1 DEF Round
    <3>3. [rounds[id] EXCEPT !.pool = pool] \in Round
      BY <3>1, <3>2 DEF Round
    <3>4. rounds' = [rounds EXCEPT ![id] = [rounds[id] EXCEPT !.pool = pool]]
      BY <1>7 DEF TakePosition
    <3> QED
      BY <3>3, <3>4
  <2>5. settlementSinkOf' \in [RoundIds -> [Users -> Routers \cup {ZeroAddress}]]
    BY <1>7 DEF TakePosition
  <2>6. funders' \in [RoundIds -> [Users -> SUBSET (Users \cup Routers)]]
    BY <1>7 DEF TakePosition
  <2> QED
    BY <1>7, <2>2, <2>3, <2>4, <2>5, <2>6 DEF TakePosition, pauseVars, PauseTypeOK
<1>8. ASSUME NEW id \in RoundIds, lockRound(id)
      PROVE  TypeOK'
  <2>1. rounds' \in [RoundIds -> Round]
    BY <1>8, StatusTyped DEF lockRound, Statuses, CanLock
  <2> QED
    BY <1>8, <2>1 DEF lockRound, SettlesNothingElse, pauseVars, bookVars, PauseTypeOK, CanLock
<1>9. ASSUME NEW id \in RoundIds, VoidRound(id)
      PROVE  TypeOK'
  <2>1. rounds' \in [RoundIds -> Round]
    BY <1>9, StatusTyped DEF VoidRound, Statuses
  <2> QED
    BY <1>9, <2>1 DEF VoidRound, SettlesNothingElse, pauseVars, bookVars, PauseTypeOK
<1>10. ASSUME NEW id \in RoundIds, NEW u \in Users, claim(id, u)
       PROVE  TypeOK'
  <2>1. claimed' \in [RoundIds -> [Users -> BOOLEAN]]
    BY <1>10 DEF claim
  <2>2. Market \in Accounts /\ Recipient(id, u) \in Accounts
    BY AddressesAreDistinct DEF Recipient
  <2>3. claimableOf(id, u) \in Nat
    BY EntitlementIsNat DEF claimableOf
  <2>4. balance' \in [Accounts -> Nat]
    BY <1>10, <2>2, <2>3, TransferTyped DEF claim
  <2> QED
    BY <1>10, <2>1, <2>4 DEF claim, pauseVars, PauseTypeOK
<1>11. ASSUME NEW id \in RoundIds, NEW read \in OracleReads,
              resolveRound(id, read)
       PROVE  TypeOK'
  <2>1. rounds[id] \in Round /\ rounds[id].pool \in [Sides -> Nat]
    BY DEF Round
  <2>2. RakeOn(TotalPool(id)) \in Nat
    BY <2>1, RakeIsNat DEF TotalPool, Sides
  <2>3. protocolFees' \in Nat
    BY <1>11, <2>2 DEF resolveRound, CanResolve
  <2>4. rounds' \in [RoundIds -> Round]
    <3>1. read.price \in Nat
      BY DEF OracleReads
    <3>2. CASE read.price = rounds[id].lockPrice
      <4>1. [rounds[id] EXCEPT !.closePrice = read.price, !.status = "Void"] \in Round
        BY <2>1, <3>1 DEF Round, Statuses
      <4> QED
        BY <1>11, <3>2, <4>1 DEF resolveRound, CanResolve
    <3>3. CASE read.price # rounds[id].lockPrice
      <4> DEFINE winner == IF read.price > rounds[id].lockPrice THEN "Up" ELSE "Down"
                 settled == [rounds[id] EXCEPT !.status = "Resolved",
                               !.closePrice = read.price, !.winner = winner,
                               !.rakeTaken = RakeOn(TotalPool(id))]
      <4>1. winner \in Sides
        BY DEF Sides
      <4>2. settled \in Round
        BY <2>1, <2>2, <3>1, <4>1 DEF Round, Statuses
      <4>3. rounds' = [rounds EXCEPT ![id] = settled]
        BY <1>11, <3>3 DEF resolveRound, CanResolve
      <4> QED
        BY <4>2, <4>3
    <3> QED
      BY <3>2, <3>3
  <2> QED
    BY <1>11, <2>3, <2>4
       DEF resolveRound, SettlesNothingElse, pauseVars, bookVars, PauseTypeOK, CanResolve
<1>12. CASE UNCHANGED vars
  BY <1>12 DEF vars, roundVars, bookVars, PauseTypeOK
<1> QED
  BY <1>1, <1>2, <1>3, <1>4, <1>5, <1>6, <1>7, <1>8, <1>9, <1>10, <1>11, <1>12,
     InputsAreNaturals
     DEF Step, NextButResolve, Administration, Entries, Exits,
         takePosition, takePositionFor, voidUnsettledRound, voidUnlockedRound, CanVoidUnsettled, CanVoidUnlocked

-----------------------------------------------------------------------------
(***************************************************************************)
(* What one step can do to one round.                                      *)
(***************************************************************************)
Untouched(id) ==
  /\ rounds'[id] = rounds[id]
  /\ stakeOf'[id] = stakeOf[id]
  /\ settlementSinkOf'[id] = settlementSinkOf[id]
  /\ funders'[id] = funders[id]

Opened(id) ==
  /\ id = roundCount + 1
  /\ rounds'[id].status = "Open"
  /\ CutoffAt(id)' > rounds'[id].openTime
  /\ rounds'[id].lockTime < rounds'[id].closeTime
  /\ UNCHANGED bookVars

Staked(id) ==
  \E u \in Users, side \in Sides, amount \in Amounts :
    \/ takePosition(u, id, side, amount)
    \/ \E router \in Routers : takePositionFor(router, id, u, side, amount)

Voided(id) ==
  /\ rounds[id].status \in {"Open", "Locked"}
  /\ CanVoidUnsettled(id) \/ CanVoidUnlocked(id)
  /\ VoidRound(id)

Resolved(id) == \E read \in OracleReads : resolveRound(id, read)

LEMMA RoundEvolvesUnresolved ==
  ASSUME TypeOK, NextButResolve, NEW id \in RoundIds
  PROVE  Untouched(id) \/ Opened(id) \/ Staked(id) \/ lockRound(id) \/ Voided(id)
<1> USE DEF TypeOK
<1>1. CASE UNCHANGED <<rounds, bookVars>>
  BY <1>1 DEF Untouched, bookVars
<1>2. ASSUME NEW o \in Times, NEW l \in Times, NEW c \in Times, NEW strike \in Strikes,
             openRound(o, l, c, strike)
      PROVE  Untouched(id) \/ Opened(id)
  <2>1. CASE id = roundCount + 1
    <3>1. /\ rounds'[id].status = "Open" /\ rounds'[id].openTime = o
          /\ rounds'[id].lockTime = l /\ rounds'[id].closeTime = c
      BY <1>2, <2>1 DEF openRound, NoRound, CanOpen
    <3>2. l - EntryCutoff > o /\ l < c
      BY <1>2, MaxTimeIsNat, ConstructorAccepts DEF openRound, Times, CanOpen
    <3> QED
      BY <1>2, <2>1, <3>1, <3>2 DEF openRound, Opened, CutoffAt, CanOpen
  <2>2. CASE id # roundCount + 1
    BY <1>2, <2>2 DEF openRound, Untouched, bookVars, CanOpen
  <2> QED
    BY <2>1, <2>2
<1>3. ASSUME NEW other \in RoundIds, NEW u \in Users, NEW side \in Sides,
             NEW amount \in Amounts, NEW payer, NEW sink,
             TakePosition(other, u, side, amount, payer, sink), other # id
      PROVE  Untouched(id)
  BY <1>3 DEF TakePosition, Untouched
<1>4. ASSUME NEW other \in RoundIds, other # id, lockRound(other) PROVE Untouched(id)
  BY <1>4 DEF lockRound, SettlesNothingElse, Untouched, bookVars, CanLock
<1>5. ASSUME NEW other \in RoundIds, other # id, VoidRound(other) PROVE Untouched(id)
  BY <1>5 DEF VoidRound, SettlesNothingElse, Untouched, bookVars
<1>7. ASSUME NEW other \in RoundIds, NEW u \in Users, claim(other, u) PROVE Untouched(id)
  BY <1>7 DEF claim, Untouched
<1>8. CASE Tick /\ UNCHANGED <<pauseVars, treasury, roundVars>>
  BY <1>1, <1>8 DEF roundVars
<1>9. CASE Administration
  BY <1>1, <1>9 DEF Administration, roundVars, setRouter, withdrawFees, bookVars, CanWithdrawFees
<1>10. CASE Entries
  BY <1>2, <1>3, <1>10 DEF Entries, Staked, takePosition, takePositionFor
<1>11. CASE Exits
  BY <1>4, <1>5, <1>7, <1>11 DEF Exits, Voided, voidUnsettledRound, voidUnlockedRound, CanVoidUnsettled, CanVoidUnlocked
<1> QED
  BY <1>8, <1>9, <1>10, <1>11 DEF NextButResolve

LEMMA RoundEvolves ==
  ASSUME TypeOK, [Step]_vars, NEW id \in RoundIds
  PROVE  Untouched(id) \/ Opened(id) \/ Staked(id) \/ lockRound(id) \/ Voided(id)
           \/ Resolved(id)
<1>1. ASSUME NEW other \in RoundIds, other # id, NEW read, resolveRound(other, read)
      PROVE  Untouched(id)
  BY <1>1 DEF resolveRound, SettlesNothingElse, Untouched, bookVars, TypeOK, CanResolve
<1>2. CASE UNCHANGED vars
  BY <1>2 DEF Untouched, vars, roundVars, bookVars
<1>3. CASE NextButResolve
  BY <1>3, RoundEvolvesUnresolved
<1> QED
  BY <1>1, <1>2, <1>3 DEF Step, Resolved

\* The fields of a round that a change of status leaves alone.
SameQuestion(id) ==
  /\ rounds'[id].pool = rounds[id].pool
  /\ rounds'[id].lockPrice = rounds[id].lockPrice

LEMMA LockEffect ==
  ASSUME TypeOK, NEW id \in RoundIds, lockRound(id)
  PROVE  /\ SameQuestion(id)
         /\ rounds'[id].status \in {"Locked", "Void"}
         /\ rounds'[id].status = "Locked" => SidesFilled(id)
         /\ stakeOf' = stakeOf
  BY DEF lockRound, TypeOK, Round, SameQuestion, SettlesNothingElse, bookVars, CanLock

LEMMA VoidEffect ==
  ASSUME TypeOK, NEW id \in RoundIds, VoidRound(id)
  PROVE  SameQuestion(id) /\ rounds'[id].status = "Void" /\ stakeOf' = stakeOf
  BY DEF VoidRound, TypeOK, Round, SameQuestion, SettlesNothingElse, bookVars

LEMMA StakeEffect ==
  ASSUME TypeOK, NEW id \in RoundIds, Staked(id)
  PROVE  rounds[id].status = "Open" /\ rounds'[id].status = "Open"
  BY DEF Staked, takePosition, takePositionFor, TakePosition, entryIsOpen, TypeOK, Round

LEMMA ResolveEffect ==
  ASSUME TypeOK, NEW id \in RoundIds, NEW read \in OracleReads, resolveRound(id, read)
  PROVE  /\ rounds[id].status = "Locked"
         /\ SameQuestion(id)
         /\ stakeOf' = stakeOf
         /\ rounds'[id].closePrice = read.price
         /\ \/ /\ read.price = rounds[id].lockPrice
               /\ rounds'[id].status = "Void"
            \/ /\ read.price # rounds[id].lockPrice
               /\ rounds'[id].status = "Resolved"
               /\ rounds'[id].winner = IF read.price > rounds[id].lockPrice THEN "Up" ELSE "Down"
               /\ rounds'[id].rakeTaken = RakeOn(TotalPool(id))
<1>1. rounds \in [RoundIds -> Round] /\ stakeOf' = stakeOf
  BY DEF resolveRound, SettlesNothingElse, bookVars, TypeOK, CanResolve
<1>2. CASE read.price = rounds[id].lockPrice
  BY <1>1, <1>2 DEF resolveRound, Round, SameQuestion, CanResolve
<1>3. CASE read.price # rounds[id].lockPrice
  BY <1>1, <1>3 DEF resolveRound, Round, SameQuestion, CanResolve
<1> QED
  BY <1>1, <1>2, <1>3 DEF resolveRound, CanResolve

LEMMA FilledStep ==
  ASSUME TypeOK, LockedIsFilled, [Step]_vars
  PROVE  LockedIsFilled'
<1> SUFFICES ASSUME NEW id \in RoundIds, rounds'[id].status \in {"Locked", "Resolved"}
             PROVE  SidesFilled(id)'
  BY DEF LockedIsFilled
<1>1. CASE Untouched(id)
  BY <1>1 DEF Untouched, LockedIsFilled, SidesFilled
<1>2. CASE Opened(id) \/ Staked(id) \/ Voided(id)
  BY <1>2, StakeEffect, VoidEffect DEF Opened, Voided
<1>3. CASE lockRound(id)
  BY <1>3, LockEffect DEF SameQuestion, SidesFilled
<1>4. CASE Resolved(id)
  BY <1>4, ResolveEffect DEF Resolved, LockedIsFilled, SameQuestion, SidesFilled
<1> QED
  BY <1>1, <1>2, <1>3, <1>4, RoundEvolves

LEMMA MarketStep ==
  ASSUME TypeOK, LockedIsFilled, ResolvedIsAMarket, [Step]_vars
  PROVE  ResolvedIsAMarket'
<1> SUFFICES ASSUME NEW id \in RoundIds, rounds'[id].status = "Resolved"
             PROVE  /\ SidesFilled(id)'
                    /\ rounds'[id].closePrice # rounds'[id].lockPrice
                    /\ rounds'[id].winner = "Up" <=>
                         rounds'[id].closePrice > rounds'[id].lockPrice
                    /\ rounds'[id].rakeTaken = RakeOn(TotalPool(id)')
  BY DEF ResolvedIsAMarket, RakeOn
<1>1. CASE Untouched(id)
  BY <1>1 DEF Untouched, ResolvedIsAMarket, SidesFilled, TotalPool, RakeOn
<1>2. CASE Opened(id) \/ Staked(id) \/ lockRound(id) \/ Voided(id)
  BY <1>2, StakeEffect, LockEffect, VoidEffect DEF Opened, Voided
<1>3. CASE Resolved(id)
  <2>1. SidesFilled(id)'
    BY FilledStep DEF LockedIsFilled
  <2>2. TotalPool(id)' = TotalPool(id)
    BY <1>3, ResolveEffect DEF Resolved, SameQuestion, TotalPool
  <2> QED
    BY <1>3, <2>1, <2>2, ResolveEffect DEF Resolved, SameQuestion
<1> QED
  BY <1>1, <1>2, <1>3, RoundEvolves

LEMMA OrderStep ==
  ASSUME TypeOK, ScheduledInOrder, [Step]_vars
  PROVE  ScheduledInOrder'
<1> USE DEF TypeOK
<1>1. ASSUME NEW o \in Times, NEW l \in Times, NEW c \in Times, NEW strike \in Strikes,
             openRound(o, l, c, strike)
      PROVE  ScheduledInOrder'
  <2>1. roundCount' = roundCount + 1 /\ roundCount \in Nat
    BY <1>1, InputsAreNaturals DEF openRound, CanOpen
  <2>2. \A id \in RoundIds : id # roundCount + 1 => rounds'[id] = rounds[id]
    BY <1>1 DEF openRound, CanOpen
  <2>3. roundCount + 1 \in RoundIds => rounds'[roundCount + 1].status = "Open"
    BY <1>1 DEF openRound, NoRound, CanOpen
  <2> SUFFICES ASSUME NEW id \in RoundIds
               PROVE  rounds'[id].status = "None" <=> id > roundCount'
    BY DEF ScheduledInOrder
  <2>4. id \in Nat
    BY InputsAreNaturals DEF RoundIds
  <2>5. CASE id = roundCount + 1
    BY <2>1, <2>3, <2>5
  <2>6. CASE id # roundCount + 1
    <3>1. rounds[id].status = "None" <=> id > roundCount
      BY DEF ScheduledInOrder
    <3> QED
      BY <2>1, <2>2, <2>4, <2>6, <3>1
  <2> QED
    BY <2>5, <2>6
<1>2. ASSUME UNCHANGED roundCount,
             \A id \in RoundIds : rounds'[id].status = "None" <=> rounds[id].status = "None"
      PROVE  ScheduledInOrder'
  BY <1>2 DEF ScheduledInOrder
<1>3. ASSUME NEW id \in RoundIds, NEW u \in Users, NEW side \in Sides, NEW amount \in Amounts,
             NEW payer, NEW sink, TakePosition(id, u, side, amount, payer, sink)
      PROVE  ScheduledInOrder'
  <2>1. \A other \in RoundIds : rounds'[other].status = rounds[other].status
    BY <1>3 DEF TakePosition, Round
  <2> QED
    BY <1>2, <1>3, <2>1 DEF TakePosition
<1>4. ASSUME NEW id \in RoundIds, lockRound(id) \/ Voided(id)
      PROVE  ScheduledInOrder'
  <2>1. \A other \in RoundIds : other # id => rounds'[other] = rounds[other]
    BY <1>4 DEF lockRound, Voided, VoidRound, CanLock
  <2>2. rounds[id].status # "None"
    BY <1>4 DEF lockRound, Voided, CanLock
  <2>3. rounds'[id].status # "None"
    BY <1>4, LockEffect, VoidEffect DEF Voided
  <2>4. UNCHANGED roundCount
    BY <1>4 DEF lockRound, Voided, VoidRound, SettlesNothingElse, CanLock
  <2> QED
    BY <1>2, <2>1, <2>2, <2>3, <2>4
<1>5. ASSUME NEW id \in RoundIds, NEW read \in OracleReads, resolveRound(id, read)
      PROVE  ScheduledInOrder'
  <2>1. \A other \in RoundIds : other # id => rounds'[other] = rounds[other]
    BY <1>5 DEF resolveRound, CanResolve
  <2>2. rounds[id].status # "None" /\ rounds'[id].status # "None"
    BY <1>5, ResolveEffect
  <2>3. UNCHANGED roundCount
    BY <1>5 DEF resolveRound, SettlesNothingElse, CanResolve
  <2> QED
    BY <1>2, <2>1, <2>2, <2>3
<1>6. CASE UNCHANGED <<roundCount, rounds>>
  BY <1>2, <1>6
<1>7. CASE Tick /\ UNCHANGED <<pauseVars, treasury, roundVars>>
  BY <1>6, <1>7 DEF roundVars
<1>8. CASE Administration
  BY <1>6, <1>8 DEF Administration, roundVars, setRouter, withdrawFees, CanWithdrawFees
<1>9. CASE Entries
  BY <1>1, <1>3, <1>9 DEF Entries, takePosition, takePositionFor
<1>10. CASE Exits
  BY <1>4, <1>6, <1>10 DEF Exits, Voided, voidUnsettledRound, voidUnlockedRound, claim, CanVoidUnsettled, CanVoidUnlocked
<1>11. CASE UNCHANGED vars
  BY <1>6, <1>11 DEF vars, roundVars
<1> QED
  BY <1>5, <1>7, <1>8, <1>9, <1>10, <1>11 DEF Step, NextButResolve

LEMMA ScheduleStep ==
  ASSUME TypeOK, WellScheduled, [Step]_vars
  PROVE  WellScheduled'
<1> SUFFICES ASSUME NEW id \in RoundIds, rounds'[id].status # "None"
             PROVE  /\ CutoffAt(id)' > rounds'[id].openTime
                    /\ rounds'[id].lockTime < rounds'[id].closeTime
  BY DEF WellScheduled
<1>1. CASE Untouched(id)
  BY <1>1 DEF Untouched, WellScheduled, CutoffAt
<1>2. CASE Opened(id)
  BY <1>2 DEF Opened
<1> DEFINE Kept ==
  /\ rounds[id].status # "None"
  /\ rounds'[id].openTime = rounds[id].openTime
  /\ rounds'[id].lockTime = rounds[id].lockTime
  /\ rounds'[id].closeTime = rounds[id].closeTime
<1>3. CASE Staked(id)
  <2>1. Kept
    BY <1>3 DEF Staked, takePosition, takePositionFor, TakePosition, entryIsOpen, TypeOK, Round
  <2> QED
    BY <2>1 DEF WellScheduled, CutoffAt
<1>4. CASE lockRound(id) \/ Voided(id)
  <2>1. Kept
    BY <1>4 DEF lockRound, Voided, VoidRound, TypeOK, Round, CanLock
  <2> QED
    BY <2>1 DEF WellScheduled, CutoffAt
<1>5. ASSUME NEW read \in OracleReads, resolveRound(id, read)
      PROVE  Kept
  <2>1. CASE read.price = rounds[id].lockPrice
    BY <1>5, <2>1 DEF resolveRound, TypeOK, Round, CanResolve
  <2>2. CASE read.price # rounds[id].lockPrice
    BY <1>5, <2>2 DEF resolveRound, TypeOK, Round, CanResolve
  <2> QED
    BY <2>1, <2>2
<1>6. CASE Resolved(id)
  BY <1>5, <1>6 DEF Resolved, WellScheduled, CutoffAt
<1> QED
  BY <1>1, <1>2, <1>3, <1>4, <1>6, RoundEvolves

\* What TakePosition does to the book of one holder.
LEMMA StakeBooks ==
  ASSUME TypeOK, NoSinkWithoutStake, ProceedsReturnToFunder,
         NEW id \in RoundIds, NEW u \in Users, NEW side \in Sides, NEW amount \in Amounts,
         NEW payer, NEW sink \in Routers \cup {ZeroAddress},
         payer = IF sink = ZeroAddress THEN u ELSE sink,
         TakePosition(id, u, side, amount, payer, sink)
  PROVE  /\ TotalStake(id, u)' = TotalStake(id, u) + amount
         /\ amount \in Nat \ {0}
         /\ settlementSinkOf'[id][u] = sink
         /\ funders'[id][u] = {payer}
         /\ \A other \in Users : other # u =>
              /\ stakeOf'[id][other] = stakeOf[id][other]
              /\ settlementSinkOf'[id][other] = settlementSinkOf[id][other]
              /\ funders'[id][other] = funders[id][other]
<1> USE DEF TypeOK
<1>1. amount \in Nat /\ amount # 0
  BY InputsAreNaturals DEF TakePosition
<1>2. stakeOf[id][u] \in [Sides -> Nat]
  OBVIOUS
<1>3. stakeOf'[id][u] = [stakeOf[id][u] EXCEPT ![side] = stakeOf[id][u][side] + amount]
  <2>1. stakeOf' = [stakeOf EXCEPT ![id] =
                      [stakeOf[id] EXCEPT ![u] =
                         [stakeOf[id][u] EXCEPT ![side] = stakeOf[id][u][side] + amount]]]
    BY Zenon DEF TakePosition
  <2> QED
    BY <2>1
<1>4. TotalStake(id, u)' = TotalStake(id, u) + amount
  BY <1>1, <1>2, <1>3 DEF TotalStake, Sides
<1>5. settlementSinkOf'[id][u] = sink
  <2>1. CASE TotalStake(id, u) = 0
    BY <2>1 DEF TakePosition, NoSinkWithoutStake
  <2>2. CASE TotalStake(id, u) # 0
    BY <2>2 DEF TakePosition, SameFunding
  <2> QED
    BY <2>1, <2>2
<1>6. funders[id][u] \in {{}, {payer}}
  <2>1. CASE TotalStake(id, u) = 0
    BY <2>1 DEF ProceedsReturnToFunder
  <2>2. CASE TotalStake(id, u) # 0
    <3>1. settlementSinkOf[id][u] = sink
      BY <2>2 DEF TakePosition, SameFunding
    <3> QED
      BY <2>2, <3>1 DEF ProceedsReturnToFunder, Recipient
  <2> QED
    BY <2>1, <2>2
<1>7. funders'[id][u] = {payer}
  <2>1. funders'[id][u] = funders[id][u] \cup {payer}
    BY DEF TakePosition
  <2> QED
    BY <1>6, <2>1
<1>8. \A other \in Users : other # u =>
        /\ stakeOf'[id][other] = stakeOf[id][other]
        /\ settlementSinkOf'[id][other] = settlementSinkOf[id][other]
        /\ funders'[id][other] = funders[id][other]
  BY DEF TakePosition
<1> QED
  BY <1>1, <1>4, <1>5, <1>7, <1>8

LEMMA FunderStep ==
  ASSUME TypeOK, NoSinkWithoutStake, ProceedsReturnToFunder, [Step]_vars
  PROVE  NoSinkWithoutStake' /\ ProceedsReturnToFunder'
<1> SUFFICES ASSUME NEW id \in RoundIds, NEW u \in Users
             PROVE  /\ (TotalStake(id, u) = 0 => settlementSinkOf[id][u] = ZeroAddress)'
                    /\ (funders[id][u] =
                          IF TotalStake(id, u) = 0 THEN {} ELSE {Recipient(id, u)})'
  BY DEF NoSinkWithoutStake, ProceedsReturnToFunder
<1> DEFINE Kept ==
  /\ stakeOf'[id][u] = stakeOf[id][u]
  /\ settlementSinkOf'[id][u] = settlementSinkOf[id][u]
  /\ funders'[id][u] = funders[id][u]
<1>1. CASE Kept
  BY <1>1 DEF NoSinkWithoutStake, ProceedsReturnToFunder, TotalStake, Recipient
<1>2. ASSUME NEW holder \in Users, NEW side \in Sides, NEW amount \in Amounts,
             NEW payer, NEW sink \in Routers \cup {ZeroAddress},
             payer = IF sink = ZeroAddress THEN holder ELSE sink,
             TakePosition(id, holder, side, amount, payer, sink), ~Kept
      PROVE  /\ (TotalStake(id, u) = 0 => settlementSinkOf[id][u] = ZeroAddress)'
             /\ (funders[id][u] =
                   IF TotalStake(id, u) = 0 THEN {} ELSE {Recipient(id, u)})'
  <2>1. holder = u
    BY <1>2, StakeBooks
  <2>2. TotalStake(id, u) \in Nat
    BY DEF TotalStake, TypeOK, Sides
  <2>3. TotalStake(id, u)' # 0
    BY <1>2, <2>1, <2>2, StakeBooks
  <2>4. settlementSinkOf'[id][u] = sink /\ funders'[id][u] = {payer}
    BY <1>2, <2>1, StakeBooks
  <2> QED
    BY <1>2, <2>1, <2>3, <2>4 DEF Recipient
<1>3. CASE Staked(id)
  <2>1. ZeroAddress \notin Routers
    BY AddressesAreDistinct
  <2> QED
    BY <1>1, <1>2, <1>3, <2>1 DEF Staked, takePosition, takePositionFor
<1>4. CASE Untouched(id) \/ Opened(id)
  BY <1>1, <1>4 DEF Untouched, Opened, bookVars
<1>5. CASE lockRound(id) \/ Voided(id) \/ Resolved(id)
  BY <1>1, <1>5 DEF lockRound, Voided, VoidRound, Resolved, resolveRound,
                    SettlesNothingElse, bookVars, CanLock, CanResolve
<1> QED
  BY <1>3, <1>4, <1>5, RoundEvolves

-----------------------------------------------------------------------------
\* The invariant holds at deployment ...
LEMMA InitIInv == Init => IInv
<1> SUFFICES ASSUME Init PROVE IInv
  OBVIOUS
<1>1. \A id \in RoundIds : rounds[id].status = "None"
  BY DEF Init, NoRound
<1>2. ScheduledInOrder
  BY <1>1 DEF Init, ScheduledInOrder, RoundIds
<1>3. WellScheduled /\ LockedIsFilled /\ ResolvedIsAMarket
  BY <1>1 DEF WellScheduled, LockedIsFilled, ResolvedIsAMarket
<1>4. \A id \in RoundIds, u \in Users : TotalStake(id, u) = 0
  BY DEF Init, TotalStake, Sides
<1>5. NoSinkWithoutStake /\ ProceedsReturnToFunder
  BY <1>4 DEF Init, NoSinkWithoutStake, ProceedsReturnToFunder
<1>6. PauseIsLiftable
  BY DEF Init, PauseInit, PauseIsLiftable
<1> QED
  BY <1>2, <1>3, <1>5, <1>6, InitTypeOK DEF IInv

LEMMA PauseStep ==
  ASSUME PauseIsLiftable, [Step]_vars
  PROVE  PauseIsLiftable'
<1>1. CASE PauseNext
  BY <1>1 DEF PauseNext, pauseEntries, unpauseEntries, transferPauseGuardian, MayHandTo,
              onlyPauseGuardian, PauseIsLiftable
<1>2. CASE UNCHANGED pauseVars
  BY <1>2 DEF pauseVars, PauseIsLiftable
<1>3. CASE Administration
  BY <1>1, <1>2, <1>3 DEF Administration, setRouter, withdrawFees, CanWithdrawFees
<1>4. CASE Entries
  <2>1. ASSUME NEW o, NEW l, NEW c, NEW strike, openRound(o, l, c, strike)
        PROVE  UNCHANGED pauseVars
    BY <2>1 DEF openRound, CanOpen
  <2>2. ASSUME NEW id, NEW u, NEW side, NEW amount, NEW payer, NEW sink,
               TakePosition(id, u, side, amount, payer, sink)
        PROVE  UNCHANGED pauseVars
    BY <2>2 DEF TakePosition
  <2> QED
    BY <1>2, <1>4, <2>1, <2>2 DEF Entries, takePosition, takePositionFor
<1>5. CASE Exits
  BY <1>2, <1>5 DEF Exits, lockRound, voidUnsettledRound, voidUnlockedRound, VoidRound,
                    SettlesNothingElse, claim, CanLock, CanVoidUnsettled, CanVoidUnlocked
<1>6. CASE \E id \in RoundIds, read \in OracleReads : resolveRound(id, read)
  BY <1>2, <1>6 DEF resolveRound, SettlesNothingElse, CanResolve
<1>7. CASE UNCHANGED vars
  BY <1>2, <1>7 DEF vars, pauseVars
<1> QED
  BY <1>2, <1>3, <1>4, <1>5, <1>6, <1>7 DEF Step, NextButResolve

\* ... and every step keeps it.
LEMMA StepIInv == IInv /\ [Step]_vars => IInv'
  BY TypeStep, OrderStep, ScheduleStep, FilledStep, MarketStep, FunderStep, PauseStep DEF IInv

\* The clock never goes back.
LEMMA TimeAdvances ==
  ASSUME [Step]_vars
  PROVE  now' \in {now, now + 1}
<1>1. CASE Tick
  BY <1>1 DEF Tick
<1>2. CASE UNCHANGED now
  BY <1>2
<1>3. CASE Administration
  BY <1>2, <1>3 DEF Administration, setRouter, withdrawFees, CanWithdrawFees
<1>4. ASSUME NEW o, NEW l, NEW c, NEW strike, openRound(o, l, c, strike)
      PROVE  UNCHANGED now
  BY <1>4 DEF openRound, CanOpen
<1>5. ASSUME NEW id, NEW u, NEW side, NEW amount, NEW payer, NEW sink,
             TakePosition(id, u, side, amount, payer, sink)
      PROVE  UNCHANGED now
  BY <1>5 DEF TakePosition
<1>6. CASE Entries
  BY <1>2, <1>4, <1>5, <1>6 DEF Entries, takePosition, takePositionFor
<1>7. CASE Exits
  BY <1>2, <1>7 DEF Exits, lockRound, voidUnsettledRound, voidUnlockedRound, VoidRound,
                    SettlesNothingElse, claim, CanLock, CanVoidUnsettled, CanVoidUnlocked
<1>8. CASE \E id \in RoundIds, read \in OracleReads : resolveRound(id, read)
  BY <1>2, <1>8 DEF resolveRound, SettlesNothingElse, CanResolve
<1>9. CASE UNCHANGED vars
  BY <1>2, <1>9 DEF vars
<1> QED
  BY <1>1, <1>3, <1>6, <1>7, <1>8, <1>9 DEF Step, NextButResolve

LEMMA NextIsStep == [Next]_vars => [Step]_vars
  BY InputsAreNaturals DEF Next, Step, Reads, OracleReads

THEOREM Invariance == Spec => []IInv
  BY InitIInv, NextIsStep, StepIInv, PTL DEF Spec

(***************************************************************************)
(* Every reachable state is well typed; in particular fees, balances and   *)
(* entitlements are never negative, so no checked subtraction reverts.     *)
(***************************************************************************)
THEOREM TypeCorrect == Spec => []TypeOK
<1>1. IInv => TypeOK
  BY DEF IInv
<1> QED
  BY <1>1, Invariance, PTL

(***************************************************************************)
(* Whatever the floor, the rake and the prices, a round that resolved was  *)
(* a market (lockRound, resolveRound).                                     *)
(***************************************************************************)
THEOREM MarketsOnly == Spec => []ResolvedIsAMarket
<1>1. IInv => ResolvedIsAMarket
  BY DEF IInv
<1> QED
  BY <1>1, Invariance, PTL

(***************************************************************************)
(* However many routers and users interleave, and however often the owner  *)
(* revokes a router, proceeds go to whoever funded the stake (claim).      *)
(***************************************************************************)
THEOREM ProceedsFollowFunding == Spec => []ProceedsReturnToFunder
<1>1. IInv => ProceedsReturnToFunder
  BY DEF IInv
<1> QED
  BY <1>1, Invariance, PTL

(***************************************************************************)
(* A pause can always be lifted (transferPauseGuardian).                   *)
(***************************************************************************)
THEOREM PauseLiftable == Spec => []PauseIsLiftable
<1>1. IInv => PauseIsLiftable
  BY DEF IInv
<1> QED
  BY <1>1, Invariance, PTL

\* What a settled round is worth to a holder is a function of its frozen record.
LEMMA FrozenStep ==
  ASSUME IInv, [Step]_vars, NEW id \in RoundIds, rounds[id].status \in Terminal
  PROVE  /\ rounds'[id] = rounds[id]
         /\ \A u \in Users : Entitlement(id, u)' = Entitlement(id, u)
<1>1. Untouched(id)
  <2>1. ~Opened(id)
    <3>1. ASSUME id = roundCount + 1 PROVE FALSE
      <4>1. id > roundCount
        BY <3>1, InputsAreNaturals DEF IInv, TypeOK
      <4> QED
        BY <4>1 DEF IInv, ScheduledInOrder, Terminal
    <3> QED
      BY <3>1 DEF Opened
  <2>2. ~Staked(id)
    BY StakeEffect DEF IInv, Terminal
  <2>3. ~lockRound(id) /\ ~Voided(id) /\ ~Resolved(id)
    BY ResolveEffect DEF IInv, lockRound, Voided, Resolved, Terminal, CanLock
  <2> QED
    BY <2>1, <2>2, <2>3, RoundEvolves DEF IInv
<1>2. stakeOf'[id] = stakeOf[id] /\ rounds'[id] = rounds[id]
  BY <1>1 DEF Untouched
<1> QED
  BY <1>2 DEF Entitlement, TotalStake, TotalPool, Share

(***************************************************************************)
(* Nothing that happens after a round settled changes its record or what   *)
(* anybody is entitled to from it, so claims commute (claim).              *)
(***************************************************************************)
THEOREM SettledStaysFrozen == Spec => SettledIsFrozen
<1>1. IInv /\ [Step]_vars =>
        [\A id \in RoundIds : rounds[id].status \in Terminal =>
           /\ rounds'[id] = rounds[id]
           /\ \A u \in Users : Entitlement(id, u)' = Entitlement(id, u)]_vars
  BY FrozenStep
<1> QED
  BY <1>1, NextIsStep, Invariance, PTL DEF Spec, SettledIsFrozen

-----------------------------------------------------------------------------
(***************************************************************************)
(* ParimutuelRound implements PullEscrow, for every value of the constants.*)
(* Every action touches one round of the mapped state, or none.            *)
(***************************************************************************)

LEMMA InitEscrow == Init => Escrow!EscrowInit
<1> SUFFICES ASSUME Init PROVE Escrow!EscrowInit
  OBVIOUS
<1>1. \A id \in RoundIds : rounds[id].status = "None"
  BY DEF Init, NoRound
<1>2. \A id \in RoundIds, u \in Users : TotalStake(id, u) = 0 /\ Entitlement(id, u) = 0
  BY <1>1 DEF Init, TotalStake, Sides, Entitlement
<1>3. claimed = [id \in RoundIds |-> [u \in Users |-> FALSE]]
  BY DEF Init
<1>4. protocolFees = 0 /\ balance[Market] = 0
  BY AddressesAreDistinct DEF Init
<1>5. EscrowPhase = [id \in RoundIds |-> "idle"]
  BY <1>1 DEF EscrowPhase
<1>6. /\ EscrowStake = [id \in RoundIds |-> [u \in Users |-> 0]]
      /\ EscrowDue = [id \in RoundIds |-> [u \in Users |-> 0]]
  BY <1>2 DEF EscrowStake, EscrowDue
<1> QED
  BY <1>3, <1>4, <1>5, <1>6 DEF Escrow!EscrowInit

\* What leaves the record and the stakes alone leaves the mapped state alone.
LEMMA SameView ==
  ASSUME UNCHANGED <<rounds, stakeOf>>
  PROVE  UNCHANGED <<EscrowPhase, EscrowStake, EscrowDue>>
  BY DEF EscrowPhase, EscrowStake, EscrowDue, TotalStake, TotalPool, Entitlement, Share

SameElsewhere(id) ==
  \A other \in RoundIds : other # id =>
    rounds'[other] = rounds[other] /\ stakeOf'[other] = stakeOf[other]

\* What touches one round changes the mapped state at that round.
LEMMA ViewChangesAt ==
  ASSUME NEW id \in RoundIds, SameElsewhere(id)
  PROVE  /\ EscrowPhase' = [EscrowPhase EXCEPT ![id] = EscrowPhase'[id]]
         /\ EscrowStake' = [EscrowStake EXCEPT ![id] = EscrowStake'[id]]
         /\ EscrowDue' = [EscrowDue EXCEPT ![id] = EscrowDue'[id]]
<1>1. \A other \in RoundIds : other # id =>
        /\ EscrowPhase'[other] = EscrowPhase[other]
        /\ EscrowStake'[other] = EscrowStake[other]
        /\ EscrowDue'[other] = EscrowDue[other]
  <2> TAKE other \in RoundIds
  <2> HAVE other # id
  <2>1. rounds'[other] = rounds[other] /\ stakeOf'[other] = stakeOf[other]
    BY DEF SameElsewhere
  <2>2. EscrowPhase'[other] = EscrowPhase[other]
    BY <2>1 DEF EscrowPhase
  <2>3. EscrowStake'[other] = EscrowStake[other]
    BY <2>1 DEF EscrowStake, TotalStake
  <2>4. EscrowDue'[other] = EscrowDue[other]
    BY <2>1 DEF EscrowDue, TotalStake, TotalPool, Entitlement, Share
  <2> QED
    BY <2>2, <2>3, <2>4
<1>2. /\ EscrowPhase = [r \in RoundIds |-> EscrowPhase[r]]
      /\ EscrowPhase' = [r \in RoundIds |-> EscrowPhase'[r]]
  BY DEF EscrowPhase
<1>3. /\ EscrowStake = [r \in RoundIds |-> EscrowStake[r]]
      /\ EscrowStake' = [r \in RoundIds |-> EscrowStake'[r]]
  BY DEF EscrowStake
<1>4. /\ EscrowDue = [r \in RoundIds |-> EscrowDue[r]]
      /\ EscrowDue' = [r \in RoundIds |-> EscrowDue'[r]]
  BY DEF EscrowDue
<1> QED
  BY <1>1, <1>2, <1>3, <1>4

\* A change that leaves the stakes of a round alone.
LEMMA StakesKept ==
  ASSUME UNCHANGED stakeOf
  PROVE  UNCHANGED EscrowStake
  BY DEF EscrowStake, TotalStake

\* A round that is not settled has nothing due, one that is void its stakes.
LEMMA DueOf ==
  ASSUME NEW id \in RoundIds
  PROVE  /\ rounds[id].status \notin Terminal => EscrowDue[id] = [u \in Users |-> 0]
         /\ rounds[id].status = "Void" => EscrowDue[id] = EscrowStake[id]
  BY DEF EscrowDue, EscrowStake, Entitlement, Terminal

LEMMA NothingDueKept ==
  ASSUME NEW id \in RoundIds, SameElsewhere(id),
         rounds[id].status \notin Terminal, rounds'[id].status \notin Terminal
  PROVE  UNCHANGED EscrowDue
<1>1. EscrowDue'[id] = EscrowDue[id]
  BY DEF EscrowDue, Entitlement, Terminal
<1>2. EscrowDue' = [EscrowDue EXCEPT ![id] = EscrowDue[id]]
  BY <1>1, ViewChangesAt
<1> QED
  BY <1>2 DEF EscrowDue

\* A payment moves the market's balance by the amount.
LEMMA MarketTransfer ==
  ASSUME TypeOK, NEW other \in Accounts, other # Market, NEW amount \in Nat
  PROVE  /\ Transfer(other, Market, amount) => balance'[Market] = balance[Market] + amount
         /\ Transfer(Market, other, amount) => balance'[Market] = balance[Market] - amount
<1>1. balance \in [Accounts -> Nat] /\ Market \in Accounts
  BY AddressesAreDistinct DEF TypeOK
<1> QED
  BY <1>1 DEF Transfer, CanTransfer

-----------------------------------------------------------------------------
LEMMA OpenSchedules ==
  ASSUME IInv, NEW o \in Times, NEW l \in Times, NEW c \in Times, NEW strike \in Strikes,
         openRound(o, l, c, strike)
  PROVE  \E id \in RoundIds : Escrow!Schedule(id)
<1> DEFINE id == roundCount + 1
<1>1. id \in RoundIds /\ id > roundCount
  BY InputsAreNaturals DEF openRound, RoundIds, IInv, TypeOK, CanOpen
<1>2. rounds[id].status = "None"
  BY <1>1 DEF IInv, ScheduledInOrder
<1>3. rounds'[id].status = "Open"
  BY <1>1 DEF openRound, NoRound, IInv, TypeOK, CanOpen
<1>4. SameElsewhere(id)
  BY DEF openRound, bookVars, SameElsewhere, IInv, TypeOK, CanOpen
<1>5. EscrowPhase[id] = "idle" /\ EscrowPhase'[id] = "taking"
  BY <1>1, <1>2, <1>3 DEF EscrowPhase
<1>6. EscrowPhase' = [EscrowPhase EXCEPT ![id] = "taking"]
  BY <1>1, <1>4, <1>5, ViewChangesAt
<1>7. UNCHANGED <<EscrowStake, EscrowDue>>
  <2>1. UNCHANGED EscrowStake
    BY StakesKept DEF openRound, bookVars, CanOpen
  <2>2. UNCHANGED EscrowDue
    BY <1>1, <1>2, <1>3, <1>4, NothingDueKept DEF Terminal
  <2> QED
    BY <2>1, <2>2
<1>8. UNCHANGED <<claimed, protocolFees, balance>>
  BY DEF openRound, bookVars, CanOpen
<1> QED
  BY <1>1, <1>5, <1>6, <1>7, <1>8 DEF Escrow!Schedule

LEMMA StakeDeposits ==
  ASSUME IInv, NEW id \in RoundIds, NEW u \in Users, NEW side \in Sides,
         NEW amount \in Amounts, NEW sink \in Routers \cup {ZeroAddress},
         NEW payer \in Accounts, payer # Market,
         payer = IF sink = ZeroAddress THEN u ELSE sink,
         TakePosition(id, u, side, amount, payer, sink)
  PROVE  Escrow!Deposit(id, u)
<1> USE DEF IInv
<1>1. amount \in Nat /\ amount # 0
  BY StakeBooks
<1>2. balance'[Market] = balance[Market] + amount /\ balance[Market] \in Nat
  BY <1>1, MarketTransfer, AddressesAreDistinct DEF TakePosition, TypeOK
<1>3. rounds[id].status = "Open"
  BY DEF TakePosition, entryIsOpen
<1>4. rounds'[id].status = "Open"
  BY <1>3 DEF TakePosition, TypeOK, Round
<1>5. SameElsewhere(id)
  BY DEF TakePosition, SameElsewhere, TypeOK
<1>6. EscrowPhase[id] = "taking" /\ UNCHANGED EscrowPhase
  <2>1. EscrowPhase[id] = "taking" /\ EscrowPhase'[id] = "taking"
    BY <1>3, <1>4 DEF EscrowPhase
  <2>2. EscrowPhase' = [EscrowPhase EXCEPT ![id] = "taking"]
    BY <1>5, <2>1, ViewChangesAt
  <2> QED
    BY <2>1, <2>2 DEF EscrowPhase
<1>7. UNCHANGED EscrowDue
  BY <1>3, <1>4, <1>5, NothingDueKept DEF Terminal
<1>8. EscrowStake' = [EscrowStake EXCEPT ![id][u] = @ + amount]
  <2>1. EscrowStake'[id] = [EscrowStake[id] EXCEPT ![u] = EscrowStake[id][u] + amount]
    <3>1. EscrowStake[id] = [h \in Users |-> TotalStake(id, h)]
      BY DEF EscrowStake
    <3>2. EscrowStake'[id] = [h \in Users |-> TotalStake(id, h)']
      BY DEF EscrowStake
    <3>3. TotalStake(id, u)' = TotalStake(id, u) + amount
      BY StakeBooks
    <3>4. \A h \in Users : h # u => TotalStake(id, h)' = TotalStake(id, h)
      BY StakeBooks DEF TotalStake
    <3> QED
      BY <3>1, <3>2, <3>3, <3>4
  <2> QED
    BY <1>5, <2>1, ViewChangesAt
<1>9. balance'[Market] - balance[Market] = amount /\ balance'[Market] > balance[Market]
  BY <1>1, <1>2
<1>10. UNCHANGED <<claimed, protocolFees>>
  BY DEF TakePosition
<1> QED
  BY <1>6, <1>7, <1>8, <1>9, <1>10 DEF Escrow!Deposit

\* The status change of lockRound, _void and resolveRound, seen from the escrow.
LEMMA SettleView ==
  ASSUME IInv, NEW id \in RoundIds, SameElsewhere(id), UNCHANGED <<stakeOf, claimed, balance>>,
         rounds[id].status \in {"Open", "Locked"}, rounds'[id].status \in Terminal,
         rounds'[id].winner \in Sides,
         \/ rounds'[id].status = "Void" /\ UNCHANGED protocolFees
         \/ /\ rounds[id].status = "Locked"
            /\ rounds'[id].status = "Resolved"
            /\ protocolFees' >= protocolFees
  PROVE  Escrow!Settle(id)
<1>1. EscrowPhase[id] \in {"taking", "sealed"} /\ EscrowPhase'[id] = "settled"
  BY DEF EscrowPhase, Terminal
<1>2. EscrowPhase' = [EscrowPhase EXCEPT ![id] = "settled"]
  BY <1>1, ViewChangesAt
<1>3. EscrowDue' = [EscrowDue EXCEPT ![id] = EscrowDue'[id]]
  BY ViewChangesAt
<1>4. UNCHANGED EscrowStake
  BY StakesKept
<1>5. CASE rounds'[id].status = "Void" /\ UNCHANGED protocolFees
  <2>1. EscrowDue'[id] = EscrowStake[id]
    <3>1. EscrowDue'[id] = EscrowStake'[id]
      BY <1>5 DEF EscrowDue, EscrowStake, Entitlement
    <3> QED
      BY <1>4, <3>1
  <2> QED
    BY <1>1, <1>2, <1>3, <1>4, <1>5, <2>1 DEF Escrow!Settle
<1>6. CASE /\ rounds[id].status = "Locked"
           /\ rounds'[id].status = "Resolved"
           /\ protocolFees' >= protocolFees
  <2>1. EscrowPhase[id] = "sealed"
    BY <1>6 DEF EscrowPhase
  <2>2. ASSUME NEW u \in Users, EscrowDue'[id][u] > 0
        PROVE  EscrowStake[id][u] > 0
    <3>1. EscrowDue'[id][u] = Entitlement(id, u)'
      BY DEF EscrowDue
    <3>2. stakeOf[id][u] \in [Sides -> Nat]
      BY DEF IInv, TypeOK
    <3>3. stakeOf[id][u][rounds'[id].winner] > 0
      BY <1>6, <2>2, <3>1 DEF Entitlement
    <3>4. EscrowStake[id][u] = stakeOf[id][u]["Up"] + stakeOf[id][u]["Down"]
      BY DEF EscrowStake, TotalStake
    <3> QED
      BY <3>2, <3>3, <3>4 DEF Sides
  <2> QED
    BY <1>1, <1>2, <1>3, <1>4, <1>6, <2>1, <2>2 DEF Escrow!Settle
<1> QED
  BY <1>5, <1>6

LEMMA LockSealsOrRefunds ==
  ASSUME IInv, NEW id \in RoundIds, lockRound(id)
  PROVE  Escrow!Seal(id) \/ Escrow!Settle(id)
<1>1. SameElsewhere(id)
  BY DEF lockRound, SettlesNothingElse, bookVars, SameElsewhere, IInv, TypeOK, CanLock
<1>2. UNCHANGED <<stakeOf, claimed, balance, protocolFees>>
  BY DEF lockRound, SettlesNothingElse, bookVars, CanLock
<1>3. rounds[id].status = "Open" /\ rounds'[id].winner \in Sides
  BY DEF lockRound, IInv, TypeOK, Round, CanLock
<1>4. CASE rounds'[id].status = "Void"
  BY <1>1, <1>2, <1>3, <1>4, SettleView DEF Terminal
<1>5. CASE rounds'[id].status = "Locked"
  <2>1. EscrowPhase[id] = "taking" /\ EscrowPhase'[id] = "sealed"
    BY <1>3, <1>5 DEF EscrowPhase
  <2>2. EscrowPhase' = [EscrowPhase EXCEPT ![id] = "sealed"]
    BY <1>1, <2>1, ViewChangesAt
  <2>3. UNCHANGED <<EscrowStake, EscrowDue>>
    BY <1>1, <1>2, <1>3, <1>5, StakesKept, NothingDueKept DEF Terminal
  <2> QED
    BY <1>2, <2>1, <2>2, <2>3 DEF Escrow!Seal
<1> QED
  BY <1>4, <1>5, LockEffect DEF IInv

LEMMA VoidRefunds ==
  ASSUME IInv, NEW id \in RoundIds, Voided(id)
  PROVE  Escrow!Settle(id)
<1>1. SameElsewhere(id)
  BY DEF Voided, VoidRound, SettlesNothingElse, bookVars, SameElsewhere, IInv, TypeOK
<1>2. UNCHANGED <<stakeOf, claimed, balance, protocolFees>>
  BY DEF Voided, VoidRound, SettlesNothingElse, bookVars
<1>3. rounds[id].status \in {"Open", "Locked"} /\ rounds'[id].winner \in Sides
  BY DEF Voided, VoidRound, IInv, TypeOK, Round
<1>4. rounds'[id].status = "Void"
  BY VoidEffect DEF Voided, IInv
<1> QED
  BY <1>1, <1>2, <1>3, <1>4, SettleView DEF Terminal

LEMMA ResolveSettles ==
  ASSUME IInv, NEW id \in RoundIds, NEW read \in OracleReads, resolveRound(id, read)
  PROVE  Escrow!Settle(id)
<1> USE DEF IInv
<1>1. SameElsewhere(id)
  BY DEF resolveRound, SettlesNothingElse, bookVars, SameElsewhere, TypeOK, CanResolve
<1>2. UNCHANGED <<stakeOf, claimed, balance>>
  BY DEF resolveRound, SettlesNothingElse, bookVars, CanResolve
<1>3. rounds[id].status = "Locked"
  BY DEF resolveRound, CanResolve
<1>4. CASE read.price = rounds[id].lockPrice
  <2>1. rounds'[id].status = "Void"
    BY <1>4, ResolveEffect
  <2>2. UNCHANGED protocolFees
    BY <1>4 DEF resolveRound, CanResolve
  <2>3. rounds'[id].winner \in Sides
    <3>1. rounds \in [RoundIds -> Round] /\ rounds[id].winner \in Sides
      BY DEF TypeOK, Round
    <3>2. rounds' = [rounds EXCEPT ![id].closePrice = read.price, ![id].status = "Void"]
      BY <1>4 DEF resolveRound, CanResolve
    <3>3. rounds'[id].winner = rounds[id].winner
      BY <3>1, <3>2 DEF Round
    <3> QED
      BY <3>1, <3>3
  <2> QED
    BY <1>1, <1>2, <1>3, <2>1, <2>2, <2>3, SettleView DEF Terminal
<1>5. CASE read.price # rounds[id].lockPrice
  <2>1. rounds'[id].status = "Resolved" /\ rounds'[id].winner \in Sides
    BY <1>5, ResolveEffect DEF Sides
  <2>2. protocolFees' >= protocolFees
    <3>1. TotalPool(id) \in Nat
      BY DEF TotalPool, TypeOK, Round, Sides
    <3>2. RakeOn(TotalPool(id)) \in Nat /\ protocolFees \in Nat
      BY <3>1, RakeIsNat DEF TypeOK
    <3>3. protocolFees' = protocolFees + RakeOn(TotalPool(id))
      BY <1>5 DEF resolveRound, CanResolve
    <3> QED
      BY <3>2, <3>3
  <2> QED
    BY <1>1, <1>2, <1>3, <2>1, <2>2, SettleView DEF Terminal
<1> QED
  BY <1>4, <1>5

LEMMA ClaimPays ==
  ASSUME IInv, NEW id \in RoundIds, NEW u \in Users, claim(id, u)
  PROVE  Escrow!Pay(id, u)
<1> USE DEF IInv
<1>1. ~claimed[id][u] /\ Entitlement(id, u) # 0 /\ claimableOf(id, u) = Entitlement(id, u)
  BY DEF claim, claimableOf
<1>2. Entitlement(id, u) \in Nat
  BY EntitlementIsNat
<1>3. EscrowDue[id][u] = Entitlement(id, u)
  BY DEF EscrowDue
<1>4. Recipient(id, u) \in Accounts /\ Recipient(id, u) # Market
  BY AddressesAreDistinct DEF Recipient, TypeOK
<1>5. balance'[Market] = balance[Market] - Entitlement(id, u)
  BY <1>1, <1>2, <1>4, MarketTransfer DEF claim
<1>6. EscrowPhase[id] = "settled"
  <2>1. rounds[id].status \in Terminal
    BY <1>1 DEF Entitlement, Terminal
  <2> QED
    BY <2>1 DEF EscrowPhase, Terminal
<1>7. UNCHANGED <<EscrowPhase, EscrowStake, EscrowDue>>
  BY SameView DEF claim
<1>8. claimed' = [claimed EXCEPT ![id][u] = TRUE] /\ UNCHANGED protocolFees
  BY DEF claim
<1> QED
  BY <1>1, <1>2, <1>3, <1>5, <1>6, <1>7, <1>8 DEF Escrow!Pay

LEMMA WithdrawTakesFees ==
  ASSUME IInv, NEW amount \in 0..balance[Market], withdrawFees(amount)
  PROVE  Escrow!TakeFees
<1> USE DEF IInv
<1>1. amount \in Nat /\ amount > 0 /\ protocolFees \in Nat /\ balance[Market] \in Nat
  BY AddressesAreDistinct DEF withdrawFees, TypeOK, CanWithdrawFees
<1>2. protocolFees' = protocolFees - amount
  BY DEF withdrawFees, CanWithdrawFees
<1>3. treasury \in Accounts /\ treasury # Market
  BY AddressesAreDistinct DEF TypeOK
<1>4. balance'[Market] = balance[Market] - amount
  BY <1>1, <1>3, MarketTransfer DEF withdrawFees, CanWithdrawFees
<1>5. UNCHANGED <<EscrowPhase, EscrowStake, EscrowDue>>
  BY SameView DEF withdrawFees, bookVars, CanWithdrawFees
<1>6. UNCHANGED claimed
  BY DEF withdrawFees, bookVars, CanWithdrawFees
<1> QED
  BY <1>1, <1>2, <1>4, <1>5, <1>6 DEF Escrow!TakeFees

LEMMA StepImplements == IInv /\ [Step]_vars => [Escrow!EscrowNext]_(Escrow!escrowVars)
<1> SUFFICES ASSUME IInv, [Step]_vars
             PROVE  Escrow!EscrowNext \/ UNCHANGED Escrow!escrowVars
  OBVIOUS
<1>1. CASE UNCHANGED <<rounds, stakeOf, claimed, protocolFees, balance>>
  BY <1>1, SameView DEF Escrow!escrowVars
<1>2. ASSUME NEW o \in Times, NEW l \in Times, NEW c \in Times, NEW strike \in Strikes,
             openRound(o, l, c, strike)
      PROVE  Escrow!EscrowNext
  BY <1>2, OpenSchedules DEF Escrow!EscrowNext
<1>3. ASSUME NEW u \in Users, NEW id \in RoundIds, NEW side \in Sides, NEW amount \in Amounts,
             takePosition(u, id, side, amount)
      PROVE  Escrow!EscrowNext
  <2>1. u \in Accounts /\ u # Market
    BY AddressesAreDistinct
  <2>2. Escrow!Deposit(id, u)
    BY <1>3, <2>1, StakeDeposits DEF takePosition
  <2> QED
    BY <2>2 DEF Escrow!EscrowNext
<1>4. ASSUME NEW u \in Users, NEW id \in RoundIds, NEW side \in Sides, NEW amount \in Amounts,
             NEW router \in Routers, takePositionFor(router, id, u, side, amount)
      PROVE  Escrow!EscrowNext
  <2>1. router \in Accounts /\ router # Market /\ router # ZeroAddress
    BY AddressesAreDistinct
  <2>2. Escrow!Deposit(id, u)
    BY <1>4, <2>1, StakeDeposits DEF takePositionFor
  <2> QED
    BY <2>2 DEF Escrow!EscrowNext
<1>5. ASSUME NEW id \in RoundIds, lockRound(id) PROVE Escrow!EscrowNext
  BY <1>5, LockSealsOrRefunds DEF Escrow!EscrowNext
<1>6. ASSUME NEW id \in RoundIds, Voided(id) PROVE Escrow!EscrowNext
  BY <1>6, VoidRefunds DEF Escrow!EscrowNext
<1>7. ASSUME NEW id \in RoundIds, NEW u \in Users, claim(id, u) PROVE Escrow!EscrowNext
  BY <1>7, ClaimPays DEF Escrow!EscrowNext
<1>8. ASSUME NEW id \in RoundIds, NEW read \in OracleReads, resolveRound(id, read)
      PROVE  Escrow!EscrowNext
  BY <1>8, ResolveSettles DEF Escrow!EscrowNext
<1>9. ASSUME NEW amount \in 0..balance[Market], withdrawFees(amount) PROVE Escrow!EscrowNext
  BY <1>9, WithdrawTakesFees DEF Escrow!EscrowNext
<1>10. CASE Administration
  BY <1>1, <1>9, <1>10 DEF Administration, roundVars, bookVars, setRouter
<1>11. CASE Tick /\ UNCHANGED <<pauseVars, treasury, roundVars>>
  BY <1>1, <1>11 DEF roundVars, bookVars
<1>12. CASE Entries
  BY <1>2, <1>3, <1>4, <1>12 DEF Entries
<1>13. CASE Exits
  BY <1>5, <1>6, <1>7, <1>13 DEF Exits, Voided, voidUnsettledRound, voidUnlockedRound, CanVoidUnsettled, CanVoidUnlocked
<1>14. CASE UNCHANGED vars
  BY <1>1, <1>14 DEF vars, roundVars, bookVars
<1> QED
  BY <1>8, <1>10, <1>11, <1>12, <1>13, <1>14 DEF Step, NextButResolve

(***************************************************************************)
(* Every behaviour of the contract is a behaviour of the escrow: from the  *)
(* moment a round settles, the only thing that can happen to a holder is   *)
(* to be paid the amount it was decided then, once (claim, resolveRound,   *)
(* _void, withdrawFees).                                                   *)
(***************************************************************************)
THEOREM ImplementsEscrow == Spec => RefinesPullEscrow
  BY InitEscrow, NextIsStep, StepImplements, Invariance, PTL
     DEF Spec, RefinesPullEscrow, Escrow!EscrowSpec

-----------------------------------------------------------------------------
(***************************************************************************)
(* The market can always pay what it owes, and keeps only rounding dust.   *)
(* What a round owes is a sum over its holders.  While the round runs, the *)
(* sum is its two pools; settling turns it into the shares, which come to  *)
(* at most the pools less the rake and fall short by less than a unit for  *)
(* each winner (SumTheorems); a claim takes one share out of it.           *)
(***************************************************************************)
StakesOn(id, side) == [u \in Users |-> stakeOf[id][u][side]]

\* The two counters the contract keeps agree with the book they count.
PoolsAreStakes ==
  \A id \in RoundIds, side \in Sides :
    rounds[id].pool[side] = SumFunction(StakesOn(id, side))

ClaimedIsSettled ==
  \A id \in RoundIds, u \in Users : claimed[id][u] => rounds[id].status \in Terminal

UnopenedIsEmpty ==
  \A id \in RoundIds : rounds[id].status = "None" => \A side \in Sides : rounds[id].pool[side] = 0

Books ==
  /\ IInv
  /\ PoolsAreStakes
  /\ ClaimedIsSettled
  /\ UnopenedIsEmpty

\* The inductive invariant.
MoneyInv == Books /\ Solvent /\ NothingStranded

LEMMA RoundIdsAreFinite == IsFiniteSet(RoundIds)
  BY InputsAreNaturals, FS_Interval DEF RoundIds

-----------------------------------------------------------------------------
(***************************************************************************)
(* The books.                                                              *)
(***************************************************************************)
LEMMA InitBooks == Init => Books
<1> SUFFICES ASSUME Init PROVE Books
  OBVIOUS
<1>1. \A id \in RoundIds : /\ rounds[id].status = "None"
                           /\ \A side \in Sides : rounds[id].pool[side] = 0
  BY DEF Init, NoRound
<1>2. ASSUME NEW id \in RoundIds, NEW side \in Sides
      PROVE  SumFunction(StakesOn(id, side)) = 0
  <2> DEFINE f == StakesOn(id, side)
  <2>1. DOMAIN f = Users /\ \A u \in Users : f[u] = 0
    BY DEF StakesOn, Init
  <2> HIDE DEF f
  <2>2. SumFunction(f) = 0
    BY <2>1, UsersAreFinite, SumOfZeros DEF SumFunction
  <2> QED
    BY <2>2 DEF f
<1>3. ClaimedIsSettled
  BY DEF Init, ClaimedIsSettled
<1> QED
  BY <1>1, <1>2, <1>3, InitIInv DEF Books, PoolsAreStakes, UnopenedIsEmpty

\* A round whose stakes and pools stay keeps them in agreement.
LEMMA PoolsKept ==
  ASSUME NEW id \in RoundIds, NEW side \in Sides, stakeOf'[id] = stakeOf[id],
         rounds'[id].pool[side] = rounds[id].pool[side],
         rounds[id].pool[side] = SumFunction(StakesOn(id, side))
  PROVE  rounds'[id].pool[side] = SumFunction(StakesOn(id, side)')
  BY DEF StakesOn

LEMMA PoolTakesStake ==
  ASSUME IInv, NEW id \in RoundIds, NEW u \in Users, NEW side \in Sides, NEW amount \in Amounts,
         NEW payer, NEW sink, TakePosition(id, u, side, amount, payer, sink),
         NEW s \in Sides, rounds[id].pool[s] = SumFunction(StakesOn(id, s))
  PROVE  rounds'[id].pool[s] = SumFunction(StakesOn(id, s)')
<1> DEFINE f == StakesOn(id, s)
           g == StakesOn(id, s)'
<1>1. amount \in Nat
  BY InputsAreNaturals
<1>2. stakeOf \in [RoundIds -> [Users -> [Sides -> Nat]]] /\ rounds \in [RoundIds -> Round]
  BY DEF IInv, TypeOK
<1>3. rounds[id].pool \in [Sides -> Nat] /\ stakeOf[id] \in [Users -> [Sides -> Nat]]
  BY <1>2 DEF Round
<1>4. rounds'[id].pool[s] = rounds[id].pool[s] + IF s = side THEN amount ELSE 0
  BY <1>1, <1>2, <1>3 DEF TakePosition, Round
<1>5. stakeOf'[id] = [stakeOf[id] EXCEPT ![u] =
                        [stakeOf[id][u] EXCEPT ![side] = stakeOf[id][u][side] + amount]]
  BY <1>2 DEF TakePosition
<1>6. /\ DOMAIN f = Users /\ DOMAIN g = Users
      /\ IntOn(f, Users) /\ IntOn(g, Users)
      /\ \A x \in Users : x # u => g[x] = f[x]
      /\ g[u] - f[u] = IF s = side THEN amount ELSE 0
  BY <1>1, <1>3, <1>5 DEF StakesOn, IntOn
<1>7. SumFunction(f) = SumFunctionOnSet(f, Users) /\ SumFunction(g) = SumFunctionOnSet(g, Users)
  BY <1>6 DEF SumFunction
<1> HIDE DEF f, g
<1>8. SumFunctionOnSet(g, Users) = SumFunctionOnSet(f, Users) + (g[u] - f[u])
  BY <1>6, UsersAreFinite, SumChanges
<1>9. SumFunction(f) = rounds[id].pool[s]
  BY DEF f
<1>10. SumFunction(g) = rounds'[id].pool[s]
  BY <1>4, <1>6, <1>7, <1>8, <1>9
<1> QED
  BY <1>10 DEF g

\* The books stay right when one round moves and, with it, its own.
LEMMA BooksMove ==
  ASSUME Books, IInv', NEW id \in RoundIds, SameElsewhere(id), rounds'[id].status # "None",
         claimed' = claimed,
         \/ rounds[id].status \notin Terminal
         \/ rounds'[id].status = rounds[id].status,
         \A side \in Sides : rounds'[id].pool[side] = SumFunction(StakesOn(id, side)')
  PROVE  Books'
<1>1. PoolsAreStakes'
  <2> SUFFICES ASSUME NEW other \in RoundIds, NEW side \in Sides
               PROVE  rounds'[other].pool[side] = SumFunction(StakesOn(other, side)')
    BY DEF PoolsAreStakes
  <2>1. CASE other # id
    BY <2>1, PoolsKept DEF Books, PoolsAreStakes, SameElsewhere
  <2> QED
    BY <2>1
<1>2. ClaimedIsSettled'
  BY DEF Books, ClaimedIsSettled, SameElsewhere
<1>3. UnopenedIsEmpty'
  BY DEF Books, UnopenedIsEmpty, SameElsewhere
<1> QED
  BY <1>1, <1>2, <1>3 DEF Books

LEMMA BooksKept ==
  ASSUME Books, IInv', UNCHANGED <<rounds, stakeOf, claimed>>
  PROVE  Books'
  BY DEF Books, PoolsAreStakes, ClaimedIsSettled, UnopenedIsEmpty, StakesOn

\* Settling and locking leave pools and stakes alone.
LEMMA StatusBooks ==
  ASSUME Books, IInv', NEW id \in RoundIds,
         \/ lockRound(id)
         \/ Voided(id)
         \/ \E read \in OracleReads : resolveRound(id, read)
  PROVE  /\ Books'
         /\ SameElsewhere(id)
         /\ rounds[id].status \in {"Open", "Locked"}
         /\ SameQuestion(id)
         /\ UNCHANGED <<stakeOf, claimed, balance>>
<1>1. SameElsewhere(id) /\ UNCHANGED <<stakeOf, claimed, balance>>
  BY DEF Books, lockRound, Voided, VoidRound, resolveRound, SettlesNothingElse, bookVars,
         SameElsewhere, IInv, TypeOK, CanLock, CanResolve
<1>2. /\ rounds[id].status \in {"Open", "Locked"}
      /\ rounds'[id].status # "None"
      /\ SameQuestion(id)
  BY LockEffect, VoidEffect, ResolveEffect DEF Books, IInv, lockRound, Voided, CanLock
<1>3. ASSUME NEW side \in Sides
      PROVE  rounds'[id].pool[side] = SumFunction(StakesOn(id, side)')
  <2>1. rounds'[id].pool[side] = rounds[id].pool[side] /\ stakeOf'[id] = stakeOf[id]
    BY <1>1, <1>2 DEF SameQuestion
  <2> QED
    BY <2>1, PoolsKept DEF Books, PoolsAreStakes
<1>4. rounds[id].status \notin Terminal
  BY <1>2 DEF Terminal
<1>5. Books'
  BY <1>1, <1>2, <1>3, <1>4, BooksMove
<1> QED
  BY <1>1, <1>2, <1>5

LEMMA OpenBooks ==
  ASSUME Books, IInv', NEW o \in Times, NEW l \in Times, NEW c \in Times, NEW strike \in Strikes,
         openRound(o, l, c, strike)
  PROVE  \E id \in RoundIds :
           /\ Books'
           /\ SameElsewhere(id)
           /\ rounds[id].status = "None"
           /\ rounds'[id].status = "Open"
           /\ rounds'[id].pool = rounds[id].pool
           /\ UNCHANGED <<stakeOf, claimed, balance, protocolFees>>
<1>1. PICK id \in RoundIds : id = roundCount + 1 /\ id > roundCount
  BY InputsAreNaturals DEF openRound, RoundIds, Books, IInv, TypeOK, CanOpen
<1>2. rounds[id].status = "None"
  BY <1>1 DEF Books, IInv, ScheduledInOrder
<1>3. rounds'[id].status = "Open" /\ rounds'[id].pool = [side \in Sides |-> 0]
  BY <1>1 DEF openRound, NoRound, Books, IInv, TypeOK, CanOpen
<1>4. rounds[id].pool = [side \in Sides |-> 0]
  BY <1>1, <1>2 DEF Books, UnopenedIsEmpty, IInv, TypeOK, Round
<1>5. SameElsewhere(id) /\ UNCHANGED <<stakeOf, claimed, balance, protocolFees>>
  BY <1>1 DEF openRound, bookVars, SameElsewhere, Books, IInv, TypeOK, CanOpen
<1>6. ASSUME NEW side \in Sides
      PROVE  rounds'[id].pool[side] = SumFunction(StakesOn(id, side)')
  BY <1>3, <1>4, <1>5, PoolsKept DEF Books, PoolsAreStakes
<1>7. Books'
  BY <1>2, <1>3, <1>5, <1>6, BooksMove DEF Terminal
<1> QED
  BY <1>1, <1>2, <1>3, <1>4, <1>5, <1>7

LEMMA StakeBooksKept ==
  ASSUME Books, IInv', NEW id \in RoundIds, NEW u \in Users, NEW side \in Sides,
         NEW amount \in Amounts, NEW payer, NEW sink,
         TakePosition(id, u, side, amount, payer, sink)
  PROVE  /\ Books'
         /\ SameElsewhere(id)
         /\ rounds[id].status = "Open" /\ rounds'[id].status = "Open"
         /\ TotalPool(id)' = TotalPool(id) + amount
         /\ UNCHANGED <<claimed, protocolFees>>
<1>1. SameElsewhere(id) /\ UNCHANGED <<claimed, protocolFees>>
  BY DEF TakePosition, SameElsewhere, Books, IInv, TypeOK
<1>2. rounds[id].status = "Open" /\ rounds'[id].status = "Open"
  BY DEF TakePosition, entryIsOpen, Books, IInv, TypeOK, Round
<1>3. \A s \in Sides : rounds'[id].pool[s] = SumFunction(StakesOn(id, s)')
  BY PoolTakesStake DEF Books, PoolsAreStakes
<1>4. Books'
  BY <1>1, <1>2, <1>3, BooksMove DEF Terminal
<1>5. TotalPool(id)' = TotalPool(id) + amount
  <2>1. amount \in Nat /\ rounds \in [RoundIds -> Round] /\ rounds[id].pool \in [Sides -> Nat]
    BY InputsAreNaturals DEF Books, IInv, TypeOK, Round
  <2>2. \A s \in Sides : rounds'[id].pool[s] =
                           rounds[id].pool[s] + IF s = side THEN amount ELSE 0
    BY <2>1 DEF TakePosition, Round
  <2> QED
    BY <2>1, <2>2 DEF TotalPool, Sides
<1> QED
  BY <1>1, <1>2, <1>4, <1>5

LEMMA ClaimBooks ==
  ASSUME Books, IInv', NEW id \in RoundIds, NEW u \in Users, claim(id, u)
  PROVE  Books' /\ rounds[id].status \in Terminal /\ UNCHANGED <<rounds, stakeOf, protocolFees>>
<1>1. rounds[id].status \in Terminal
  BY DEF claim, claimableOf, Entitlement, Terminal
<1>2. UNCHANGED <<rounds, stakeOf, protocolFees>> /\ claimed' = [claimed EXCEPT ![id][u] = TRUE]
  BY DEF claim
<1>3. ClaimedIsSettled'
  <2> SUFFICES ASSUME NEW other \in RoundIds, NEW h \in Users, claimed'[other][h]
               PROVE  rounds'[other].status \in Terminal
    BY DEF ClaimedIsSettled
  <2>1. CASE other = id
    BY <1>1, <1>2, <2>1
  <2>2. CASE other # id
    BY <1>2, <2>2 DEF Books, ClaimedIsSettled, IInv, TypeOK
  <2> QED
    BY <2>1, <2>2
<1>4. PoolsAreStakes' /\ UnopenedIsEmpty'
  BY <1>2 DEF Books, PoolsAreStakes, UnopenedIsEmpty, StakesOn
<1> QED
  BY <1>1, <1>2, <1>3, <1>4 DEF Books

-----------------------------------------------------------------------------
(***************************************************************************)
(* What one round owes.                                                    *)
(***************************************************************************)
LEMMA OwedToIsNat ==
  ASSUME IInv, NEW id \in RoundIds, NEW u \in Users
  PROVE  OwedTo(id, u) \in Nat
  BY EntitlementIsNat DEF OwedTo, claimableOf, TotalStake, IInv, TypeOK, Sides

LEMMA OwedOnIsNat ==
  ASSUME IInv, NEW id \in RoundIds
  PROVE  OwedOn(id) \in Nat
<1> DEFINE f == [u \in Users |-> OwedTo(id, u)]
<1>1. DOMAIN f = Users /\ \A u \in Users : f[u] \in Nat
  BY OwedToIsNat
<1> HIDE DEF f
<1>2. SumFunction(f) \in Nat
  BY <1>1, UsersAreFinite, SumIsNat DEF SumFunction
<1> QED
  BY <1>2 DEF f, OwedOn

RoundsOweNat == \A id \in RoundIds : OwedOn(id) \in Nat

LEMMA OwedIsTyped == IInv => RoundsOweNat
  BY OwedOnIsNat DEF RoundsOweNat

LEMMA OwedStaysTyped == IInv' => RoundsOweNat'
  BY OwedIsTyped, PTL

LEMMA WinnersAreFinite == \A id : IsFiniteSet(Winners(id)) /\ Cardinality(Winners(id)) \in Nat
  BY UsersAreFinite, FS_Subset, FS_CardinalityType DEF Winners

RoundsDustInt == \A id \in RoundIds : DustOn(id) \in Int

LEMMA DustIsTyped == RoundsDustInt
  BY WinnersAreFinite DEF DustOn, RoundsDustInt

LEMMA DustStaysTyped == RoundsDustInt'
  BY DustIsTyped, PTL

\* A round nobody has collected from owes its pools, settled void or running.
LEMMA OwesThePools ==
  ASSUME Books, NEW id \in RoundIds, rounds[id].status # "Resolved",
         \A u \in Users : ~claimed[id][u]
  PROVE  OwedOn(id) = TotalPool(id)
<1> DEFINE owed == [u \in Users |-> OwedTo(id, u)]
           up == StakesOn(id, "Up")
           down == StakesOn(id, "Down")
<1>1. /\ DOMAIN owed = Users /\ DOMAIN up = Users /\ DOMAIN down = Users
      /\ IntOn(up, Users) /\ IntOn(down, Users)
  BY DEF StakesOn, IntOn, Books, IInv, TypeOK, Sides
<1>2. \A u \in Users : owed[u] = up[u] + down[u]
  BY DEF OwedTo, claimableOf, Entitlement, TotalStake, Terminal, StakesOn
<1>3. rounds[id].pool["Up"] = SumFunction(up) /\ rounds[id].pool["Down"] = SumFunction(down)
  BY DEF Books, PoolsAreStakes, Sides
<1>4. OwedOn(id) = SumFunction(owed)
  BY DEF OwedOn
<1> HIDE DEF owed, up, down
<1>5. SumFunction(owed) = SumFunction(up) + SumFunction(down)
  BY <1>1, <1>2, UsersAreFinite, SumPlus DEF SumFunction
<1> QED
  BY <1>3, <1>4, <1>5 DEF TotalPool

RoundsOwePools ==
  \A id \in RoundIds :
    rounds[id].status # "Resolved" /\ (\A u \in Users : ~claimed[id][u]) =>
      OwedOn(id) = TotalPool(id)

LEMMA OwedIsPools == Books => RoundsOwePools
  BY OwesThePools DEF RoundsOwePools

LEMMA OwedStaysPools == Books' => RoundsOwePools'
  BY OwedIsPools, PTL

-----------------------------------------------------------------------------
(***************************************************************************)
(* What all rounds owe together moves with the one round that moves.       *)
(***************************************************************************)
OthersKept(id) ==
  \A other \in RoundIds : other # id =>
    OwedOn(other)' = OwedOn(other) /\ DustOn(other)' = DustOn(other)

LEMMA ElsewhereKept ==
  ASSUME NEW id \in RoundIds, SameElsewhere(id),
         \A other \in RoundIds : other # id => claimed'[other] = claimed[other]
  PROVE  OthersKept(id)
<1> SUFFICES ASSUME NEW other \in RoundIds, other # id
             PROVE  OwedOn(other)' = OwedOn(other) /\ DustOn(other)' = DustOn(other)
  BY DEF OthersKept
<1>1. /\ rounds'[other] = rounds[other]
      /\ stakeOf'[other] = stakeOf[other]
      /\ claimed'[other] = claimed[other]
  BY DEF SameElsewhere
<1>2. \A u \in Users : OwedTo(other, u)' = OwedTo(other, u)
  BY <1>1 DEF OwedTo, claimableOf, Entitlement, TotalStake, TotalPool, Share
<1>3. [u \in Users |-> OwedTo(other, u)'] = [u \in Users |-> OwedTo(other, u)]
  BY <1>2
<1>4. OwedOn(other)' = OwedOn(other)
  BY <1>3 DEF OwedOn
<1>5. DustOn(other)' = DustOn(other)
  BY <1>1 DEF DustOn, Winners
<1> QED
  BY <1>4, <1>5

LEMMA OwedMoves ==
  ASSUME IInv, IInv', NEW id \in RoundIds, OthersKept(id)
  PROVE  /\ Owed \in Int /\ OwedOn(id) \in Int /\ OwedOn(id)' \in Int
         /\ Owed' = Owed + (OwedOn(id)' - OwedOn(id))
<1> DEFINE f == [r \in RoundIds |-> OwedOn(r)]
           g == [r \in RoundIds |-> OwedOn(r)']
<1>1. /\ \A r \in RoundIds : OwedOn(r) \in Nat
      /\ \A r \in RoundIds : OwedOn(r)' \in Nat
  BY OwedIsTyped, OwedStaysTyped DEF RoundsOweNat
<1>2. /\ DOMAIN f = RoundIds /\ DOMAIN g = RoundIds
      /\ IntOn(f, RoundIds) /\ IntOn(g, RoundIds)
      /\ \A r \in RoundIds : r # id => g[r] = f[r]
      /\ f[id] = OwedOn(id) /\ g[id] = OwedOn(id)'
  BY <1>1 DEF IntOn, OthersKept
<1>3. Owed = SumFunction(f) /\ Owed' = SumFunction(g)
  BY DEF Owed
<1> HIDE DEF f, g
<1>4. /\ SumFunctionOnSet(f, RoundIds) \in Int
      /\ SumFunctionOnSet(g, RoundIds) = SumFunctionOnSet(f, RoundIds) + (g[id] - f[id])
  BY <1>2, RoundIdsAreFinite, SumIsInt, SumChanges
<1> QED
  BY <1>1, <1>2, <1>3, <1>4 DEF SumFunction

LEMMA DebtsAreInt ==
  ASSUME IInv
  PROVE  Owed \in Int /\ DustBound \in Int
<1> DEFINE f == [r \in RoundIds |-> OwedOn(r)]
           g == [r \in RoundIds |-> DustOn(r)]
<1>1. /\ DOMAIN f = RoundIds /\ IntOn(f, RoundIds)
      /\ DOMAIN g = RoundIds /\ IntOn(g, RoundIds)
  BY OwedIsTyped, DustIsTyped DEF RoundsOweNat, RoundsDustInt, IntOn
<1>2. Owed = SumFunction(f) /\ DustBound = SumFunction(g)
  BY DEF Owed, DustBound
<1> HIDE DEF f, g
<1> QED
  BY <1>1, <1>2, RoundIdsAreFinite, SumIsInt DEF SumFunction

LEMMA DustMoves ==
  ASSUME NEW id \in RoundIds, OthersKept(id)
  PROVE  /\ DustBound \in Int /\ DustOn(id) \in Int /\ DustOn(id)' \in Int
         /\ DustBound' = DustBound + (DustOn(id)' - DustOn(id))
<1> DEFINE f == [r \in RoundIds |-> DustOn(r)]
           g == [r \in RoundIds |-> DustOn(r)']
<1>1. /\ \A r \in RoundIds : DustOn(r) \in Int
      /\ \A r \in RoundIds : DustOn(r)' \in Int
  BY DustIsTyped, DustStaysTyped DEF RoundsDustInt
<1>2. /\ DOMAIN f = RoundIds /\ DOMAIN g = RoundIds
      /\ IntOn(f, RoundIds) /\ IntOn(g, RoundIds)
      /\ \A r \in RoundIds : r # id => g[r] = f[r]
      /\ f[id] = DustOn(id) /\ g[id] = DustOn(id)'
  BY <1>1 DEF IntOn, OthersKept
<1>3. DustBound = SumFunction(f) /\ DustBound' = SumFunction(g)
  BY DEF DustBound
<1> HIDE DEF f, g
<1>4. /\ SumFunctionOnSet(f, RoundIds) \in Int
      /\ SumFunctionOnSet(g, RoundIds) = SumFunctionOnSet(f, RoundIds) + (g[id] - f[id])
  BY <1>2, RoundIdsAreFinite, SumIsInt, SumChanges
<1> QED
  BY <1>1, <1>2, <1>3, <1>4 DEF SumFunction

\* What a step leaves in the contract beyond fees and debts is dust of the round it settles.
LEMMA MoneyMoves ==
  ASSUME MoneyInv, Books', NEW id \in RoundIds, OthersKept(id), NEW kept \in Nat,
         kept <= DustOn(id)' - DustOn(id),
         balance'[Market] - protocolFees' - OwedOn(id)'
           = balance[Market] - protocolFees - OwedOn(id) + kept
  PROVE  MoneyInv'
<1>1. /\ balance[Market] \in Nat /\ protocolFees \in Nat
      /\ balance'[Market] \in Nat /\ protocolFees' \in Nat
  BY AddressesAreDistinct DEF MoneyInv, Books, IInv, TypeOK
<1>2. /\ Owed \in Int /\ OwedOn(id) \in Int /\ OwedOn(id)' \in Int
      /\ Owed' = Owed + (OwedOn(id)' - OwedOn(id))
  BY OwedMoves DEF MoneyInv, Books
<1>3. /\ DustBound \in Int /\ DustOn(id) \in Int /\ DustOn(id)' \in Int
      /\ DustBound' = DustBound + (DustOn(id)' - DustOn(id))
  BY DustMoves
<1>4. /\ balance[Market] >= protocolFees + Owed
      /\ balance[Market] <= protocolFees + Owed + DustBound
  BY DEF MoneyInv, Solvent, NothingStranded
<1>5. balance'[Market] >= protocolFees' + Owed'
  BY <1>1, <1>2, <1>4
<1>6. balance'[Market] <= protocolFees' + Owed' + DustBound'
  BY <1>1, <1>2, <1>3, <1>4
<1> QED
  BY <1>5, <1>6 DEF MoneyInv, Solvent, NothingStranded

-----------------------------------------------------------------------------
(***************************************************************************)
(* One lemma per action that moves a round or money.                       *)
(***************************************************************************)

\* A round that owes its pools before and after: opening, staking, locking, refunding.
LEMMA PoolsMove ==
  ASSUME MoneyInv, Books', NEW id \in RoundIds, SameElsewhere(id), UNCHANGED claimed,
         rounds[id].status \notin Terminal, rounds'[id].status # "Resolved",
         NEW amount \in Nat, TotalPool(id)' = TotalPool(id) + amount,
         balance'[Market] = balance[Market] + amount, UNCHANGED protocolFees
  PROVE  MoneyInv'
<1>1. \A u \in Users : ~claimed[id][u] /\ ~claimed'[id][u]
  BY DEF MoneyInv, Books, ClaimedIsSettled
<1>2. OwedOn(id) = TotalPool(id)
  BY <1>1, OwedIsPools DEF RoundsOwePools, Terminal, MoneyInv
<1>3. OwedOn(id)' = TotalPool(id)'
  BY <1>1, OwedStaysPools DEF RoundsOwePools
<1>4. DustOn(id) = 0 /\ DustOn(id)' = 0
  BY DEF DustOn, Terminal
<1>5. OthersKept(id)
  BY ElsewhereKept
<1>6. OwedOn(id) \in Nat /\ balance[Market] \in Nat /\ protocolFees \in Nat
  BY OwedIsTyped, AddressesAreDistinct DEF RoundsOweNat, MoneyInv, Books, IInv, TypeOK
<1>7. balance'[Market] - protocolFees' - OwedOn(id)'
        = balance[Market] - protocolFees - OwedOn(id) + 0
  BY <1>2, <1>3, <1>6
<1>8. 0 \in Nat /\ 0 <= DustOn(id)' - DustOn(id)
  BY <1>4
<1> QED
  BY <1>5, <1>7, <1>8, MoneyMoves

LEMMA OpenMoney ==
  ASSUME MoneyInv, IInv', NEW o \in Times, NEW l \in Times, NEW c \in Times,
         NEW strike \in Strikes, openRound(o, l, c, strike)
  PROVE  MoneyInv'
<1>1. PICK id \in RoundIds :
        /\ Books'
        /\ SameElsewhere(id)
        /\ rounds[id].status = "None"
        /\ rounds'[id].status = "Open"
        /\ rounds'[id].pool = rounds[id].pool
        /\ UNCHANGED <<stakeOf, claimed, balance, protocolFees>>
  BY OpenBooks DEF MoneyInv
<1>2. TotalPool(id) \in Nat /\ balance[Market] \in Nat
  BY AddressesAreDistinct DEF TotalPool, MoneyInv, Books, IInv, TypeOK, Round, Sides
<1>3. 0 \in Nat /\ TotalPool(id)' = TotalPool(id) + 0 /\ balance'[Market] = balance[Market] + 0
  BY <1>1, <1>2 DEF TotalPool
<1> QED
  BY <1>1, <1>3, PoolsMove DEF Terminal

LEMMA StakeMoney ==
  ASSUME MoneyInv, IInv', NEW id \in RoundIds, NEW u \in Users, NEW side \in Sides,
         NEW amount \in Amounts, NEW payer \in Users \cup Routers, NEW sink,
         TakePosition(id, u, side, amount, payer, sink)
  PROVE  MoneyInv'
<1>1. /\ Books'
      /\ SameElsewhere(id)
      /\ rounds[id].status = "Open" /\ rounds'[id].status = "Open"
      /\ TotalPool(id)' = TotalPool(id) + amount
      /\ UNCHANGED <<claimed, protocolFees>>
  BY StakeBooksKept DEF MoneyInv
<1>2. amount \in Nat /\ payer \in Accounts /\ payer # Market /\ TypeOK
  BY InputsAreNaturals, AddressesAreDistinct DEF MoneyInv, Books, IInv
<1>3. balance'[Market] = balance[Market] + amount
  BY <1>2, MarketTransfer DEF TakePosition
<1> QED
  BY <1>1, <1>2, <1>3, PoolsMove DEF Terminal

LEMMA RefundMoney ==
  ASSUME MoneyInv, IInv', NEW id \in RoundIds,
         \/ lockRound(id)
         \/ Voided(id)
         \/ \E read \in OracleReads : resolveRound(id, read),
         rounds'[id].status # "Resolved", UNCHANGED protocolFees
  PROVE  MoneyInv'
<1>1. /\ Books'
      /\ SameElsewhere(id)
      /\ rounds[id].status \in {"Open", "Locked"}
      /\ SameQuestion(id)
      /\ UNCHANGED <<stakeOf, claimed, balance>>
  BY StatusBooks DEF MoneyInv
<1>2. TotalPool(id) \in Nat /\ balance[Market] \in Nat
  BY AddressesAreDistinct DEF TotalPool, MoneyInv, Books, IInv, TypeOK, Round, Sides
<1>3. 0 \in Nat /\ TotalPool(id)' = TotalPool(id) + 0 /\ balance'[Market] = balance[Market] + 0
  BY <1>1, <1>2 DEF TotalPool, SameQuestion
<1> QED
  BY <1>1, <1>3, PoolsMove DEF Terminal

\* The shares of a resolved round use up what the rake left, but for the dust.
LEMMA SharesUseUpThePot ==
  ASSUME Books, IInv', NEW id \in RoundIds, NEW read \in OracleReads, resolveRound(id, read),
         rounds'[id].status = "Resolved"
  PROVE  /\ OwedOn(id)' <= TotalPool(id) - RakeOn(TotalPool(id))
         /\ TotalPool(id) - RakeOn(TotalPool(id)) <= OwedOn(id)' + DustOn(id)'
<1> DEFINE w == rounds'[id].winner
           whole == rounds[id].pool[w]
           pot == TotalPool(id) - RakeOn(TotalPool(id))
           weight == [u \in Users |-> stakeOf[id][u][w]]
           share == [u \in Users |-> OwedTo(id, u)']
<1>1. /\ rounds[id].status = "Locked"
      /\ SameQuestion(id)
      /\ stakeOf' = stakeOf
      /\ rounds'[id].rakeTaken = RakeOn(TotalPool(id))
  BY ResolveEffect DEF Books, IInv
<1>2. UNCHANGED claimed /\ \A u \in Users : ~claimed[id][u]
  BY <1>1 DEF resolveRound, SettlesNothingElse, bookVars, Books, ClaimedIsSettled, Terminal, CanResolve
<1>3. w \in Sides /\ rounds[id].pool \in [Sides -> Nat] /\ stakeOf[id] \in [Users -> [Sides -> Nat]]
  BY DEF Books, IInv, TypeOK, Round
<1>4. TotalPool(id) \in Nat /\ RakeOn(TotalPool(id)) \in Nat /\ pot \in Nat
  <2>1. TotalPool(id) \in Nat
    BY <1>3 DEF TotalPool, Sides
  <2> QED
    BY <2>1, RakeIsNat, RakeWithinPool
<1>5. whole \in Nat /\ whole > 0
  <2>1. whole >= MinSidePool
    BY <1>1, <1>3 DEF Books, IInv, LockedIsFilled, SidesFilled
  <2> QED
    BY <1>3, <2>1, ConstructorAccepts
<1>6. whole = SumFunctionOnSet(weight, Users)
  BY <1>3 DEF Books, PoolsAreStakes, StakesOn, SumFunction
<1>7. TotalPool(id)' = TotalPool(id) /\ rounds'[id].pool[w] = whole
  BY <1>1 DEF SameQuestion, TotalPool
<1>8. ASSUME NEW u \in Users
      PROVE  weight[u] \in Nat /\ share[u] = (pot * weight[u]) \div whole
  <2>1. weight[u] = stakeOf[id][u][w] /\ weight[u] \in Nat
    BY <1>3
  <2>2. share[u] = Entitlement(id, u)'
    BY <1>2 DEF OwedTo, claimableOf, Terminal
  <2>3. CASE weight[u] > 0
    BY <1>1, <1>7, <2>1, <2>2, <2>3 DEF Entitlement, Share
  <2>4. CASE weight[u] = 0
    <3>1. Entitlement(id, u)' = 0
      BY <1>1, <2>1, <2>4 DEF Entitlement
    <3>2. (pot * 0) \div whole = 0
      BY <1>4, <1>5
    <3> QED
      BY <2>2, <2>4, <3>1, <3>2
  <2> QED
    BY <2>1, <2>3, <2>4
<1>9. OwedOn(id)' = SumFunctionOnSet(share, Users)
  BY DEF OwedOn, SumFunction
<1>10. DustOn(id)' = Cardinality({u \in Users : weight[u] > 0}) - 1
  BY <1>1 DEF DustOn, Winners
<1> HIDE DEF whole, pot, weight, share
<1>11. /\ SumFunctionOnSet(share, Users) <= pot
       /\ pot <= SumFunctionOnSet(share, Users) + Cardinality({u \in Users : weight[u] > 0}) - 1
  BY <1>4, <1>5, <1>6, <1>8, UsersAreFinite, SharesOfWhole
<1>12. OwedOn(id)' \in Int /\ DustOn(id)' \in Int
  BY OwedStaysTyped, DustStaysTyped DEF RoundsOweNat, RoundsDustInt
<1>13. OwedOn(id)' <= pot /\ pot <= OwedOn(id)' + DustOn(id)'
  <2>1. Cardinality({u \in Users : weight[u] > 0}) \in Int
    BY UsersAreFinite, FS_Subset, FS_CardinalityType
  <2> QED
    BY <1>4, <1>9, <1>10, <1>11, <1>12, <2>1
<1> QED
  BY <1>13 DEF pot

LEMMA ResolveMoney ==
  ASSUME MoneyInv, IInv', NEW id \in RoundIds, NEW read \in OracleReads, resolveRound(id, read)
  PROVE  MoneyInv'
<1> DEFINE pot == TotalPool(id) - RakeOn(TotalPool(id))
           kept == pot - OwedOn(id)'
<1>1. /\ Books /\ Books'
      /\ SameElsewhere(id)
      /\ rounds[id].status = "Locked"
      /\ UNCHANGED <<claimed, balance>>
  BY StatusBooks DEF MoneyInv, resolveRound, CanResolve
<1>2. CASE read.price = rounds[id].lockPrice
  <2>1. rounds'[id].status = "Void" /\ UNCHANGED protocolFees
    BY <1>1, <1>2, ResolveEffect DEF Books, IInv, resolveRound, CanResolve
  <2> QED
    BY <2>1, RefundMoney
<1>3. CASE read.price # rounds[id].lockPrice
  <2>1. rounds'[id].status = "Resolved"
    BY <1>1, <1>3, ResolveEffect DEF Books, IInv
  <2>2. protocolFees' = protocolFees + RakeOn(TotalPool(id))
    BY <1>3 DEF resolveRound, CanResolve
  <2>3. OwedOn(id)' <= pot /\ pot <= OwedOn(id)' + DustOn(id)'
    BY <1>1, <2>1, SharesUseUpThePot
  <2>4. OwedOn(id)' \in Nat /\ DustOn(id)' \in Int
    BY OwedStaysTyped, DustStaysTyped DEF RoundsOweNat, RoundsDustInt
  <2>5. TotalPool(id) \in Nat /\ RakeOn(TotalPool(id)) \in Nat
    <3>1. TotalPool(id) \in Nat
      BY <1>1 DEF TotalPool, Books, IInv, TypeOK, Round, Sides
    <3> QED
      BY <3>1, RakeIsNat
  <2>6. balance[Market] \in Nat /\ protocolFees \in Nat
    BY <1>1, AddressesAreDistinct DEF Books, IInv, TypeOK
  <2>7. OwedOn(id) = TotalPool(id)
    <3>1. \A u \in Users : ~claimed[id][u]
      BY <1>1 DEF Books, ClaimedIsSettled, Terminal
    <3> QED
      BY <1>1, <3>1, OwedIsPools DEF RoundsOwePools
  <2>8. DustOn(id) = 0
    BY <1>1 DEF DustOn
  <2>9. kept \in Nat /\ kept <= DustOn(id)' - DustOn(id)
    BY <2>3, <2>4, <2>5, <2>8
  <2>10. balance'[Market] - protocolFees' - OwedOn(id)'
           = balance[Market] - protocolFees - OwedOn(id) + kept
    BY <1>1, <2>2, <2>4, <2>5, <2>6, <2>7
  <2>11. OthersKept(id)
    BY <1>1, ElsewhereKept
  <2> HIDE DEF kept
  <2> QED
    BY <1>1, <2>9, <2>10, <2>11, MoneyMoves
<1> QED
  BY <1>2, <1>3

\* A claim takes exactly one share out of what its round owes.
LEMMA ClaimTakesShare ==
  ASSUME Books, NEW id \in RoundIds, NEW u \in Users, claim(id, u)
  PROVE  /\ OwedOn(id)' = OwedOn(id) - Entitlement(id, u)
         /\ balance'[Market] = balance[Market] - Entitlement(id, u)
<1> DEFINE f == [h \in Users |-> OwedTo(id, h)]
           g == [h \in Users |-> OwedTo(id, h)']
<1>1. /\ ~claimed[id][u]
      /\ claimableOf(id, u) = Entitlement(id, u)
      /\ rounds[id].status \in Terminal
      /\ rounds[id].status # "None"
  BY DEF claim, claimableOf, Entitlement, Terminal
<1>2. /\ UNCHANGED <<rounds, stakeOf>>
      /\ claimed'[id] = [claimed[id] EXCEPT ![u] = TRUE]
      /\ u \in DOMAIN claimed[id]
  BY DEF claim, Books, IInv, TypeOK
<1>3. \A h \in Users : Entitlement(id, h)' = Entitlement(id, h)
  BY <1>2 DEF Entitlement, TotalStake, TotalPool, Share
<1>4. OwedTo(id, u) = Entitlement(id, u) /\ OwedTo(id, u)' = 0
  BY <1>1, <1>2 DEF OwedTo, claimableOf
<1>5. \A h \in Users : h # u => OwedTo(id, h)' = OwedTo(id, h)
  BY <1>1, <1>2, <1>3 DEF OwedTo, claimableOf
<1>6. \A h \in Users : OwedTo(id, h) \in Nat
  BY OwedToIsNat DEF Books
<1>7. /\ DOMAIN f = Users /\ DOMAIN g = Users
      /\ IntOn(f, Users) /\ IntOn(g, Users)
      /\ \A h \in Users : h # u => g[h] = f[h]
      /\ f[u] = Entitlement(id, u) /\ g[u] = 0
  BY <1>4, <1>5, <1>6 DEF IntOn
<1>8. OwedOn(id) = SumFunction(f) /\ OwedOn(id)' = SumFunction(g)
  BY DEF OwedOn
<1> HIDE DEF f, g
<1>9. /\ SumFunctionOnSet(f, Users) \in Int
      /\ SumFunctionOnSet(g, Users) = SumFunctionOnSet(f, Users) + (g[u] - f[u])
  BY <1>7, UsersAreFinite, SumIsInt, SumChanges
<1>10. Entitlement(id, u) \in Nat
  BY <1>4, <1>6
<1>11. OwedOn(id)' = OwedOn(id) - Entitlement(id, u)
  BY <1>7, <1>8, <1>9, <1>10 DEF SumFunction
<1>12. Recipient(id, u) \in Accounts /\ Recipient(id, u) # Market
  BY AddressesAreDistinct DEF Recipient, Books, IInv, TypeOK
<1>13. balance'[Market] = balance[Market] - Entitlement(id, u)
  BY <1>1, <1>10, <1>12, MarketTransfer DEF claim, Books, IInv
<1> QED
  BY <1>11, <1>13

LEMMA ClaimMoney ==
  ASSUME MoneyInv, IInv', NEW id \in RoundIds, NEW u \in Users, claim(id, u)
  PROVE  MoneyInv'
<1>1. Books' /\ UNCHANGED <<rounds, stakeOf, protocolFees>>
  BY ClaimBooks DEF MoneyInv
<1>2. /\ OwedOn(id)' = OwedOn(id) - Entitlement(id, u)
      /\ balance'[Market] = balance[Market] - Entitlement(id, u)
  BY ClaimTakesShare DEF MoneyInv
<1>3. OthersKept(id)
  <2>1. SameElsewhere(id)
    BY <1>1 DEF SameElsewhere
  <2>2. \A other \in RoundIds : other # id => claimed'[other] = claimed[other]
    BY DEF claim, MoneyInv, Books, IInv, TypeOK
  <2> QED
    BY <2>1, <2>2, ElsewhereKept
<1>4. /\ OwedOn(id) \in Nat /\ Entitlement(id, u) \in Nat
      /\ balance[Market] \in Nat /\ protocolFees \in Nat /\ DustOn(id) \in Int
  BY OwedIsTyped, DustIsTyped, EntitlementIsNat, AddressesAreDistinct
     DEF RoundsOweNat, RoundsDustInt, MoneyInv, Books, IInv, TypeOK
<1>5. DustOn(id)' = DustOn(id)
  BY <1>1 DEF DustOn, Winners
<1>6. 0 \in Nat /\ 0 <= DustOn(id)' - DustOn(id)
  BY <1>4, <1>5
<1>7. balance'[Market] - protocolFees' - OwedOn(id)'
        = balance[Market] - protocolFees - OwedOn(id) + 0
  BY <1>1, <1>2, <1>4
<1> QED
  BY <1>1, <1>3, <1>6, <1>7, MoneyMoves

\* Nothing the debts are made of moves.
LEMMA DebtsKept ==
  ASSUME UNCHANGED <<rounds, stakeOf, claimed>>
  PROVE  UNCHANGED <<Owed, DustBound>>
<1>1. \A id \in RoundIds, u \in Users : OwedTo(id, u)' = OwedTo(id, u)
  BY DEF OwedTo, claimableOf, Entitlement, TotalStake, TotalPool, Share
<1>2. ASSUME NEW id \in RoundIds PROVE OwedOn(id)' = OwedOn(id)
  <2>1. [u \in Users |-> OwedTo(id, u)'] = [u \in Users |-> OwedTo(id, u)]
    BY <1>1
  <2> QED
    BY <2>1 DEF OwedOn
<1>3. [id \in RoundIds |-> OwedOn(id)'] = [id \in RoundIds |-> OwedOn(id)]
  BY <1>2
<1>4. Owed' = Owed
  BY <1>3 DEF Owed
<1>5. DustBound' = DustBound
  BY DEF DustBound, DustOn, Winners
<1> QED
  BY <1>4, <1>5

LEMMA QuietMoney ==
  ASSUME MoneyInv, IInv', UNCHANGED <<rounds, stakeOf, claimed, protocolFees>>,
         balance'[Market] = balance[Market]
  PROVE  MoneyInv'
  BY BooksKept, DebtsKept DEF MoneyInv, Solvent, NothingStranded

LEMMA WithdrawMoney ==
  ASSUME MoneyInv, IInv', NEW amount \in 0..balance[Market], withdrawFees(amount)
  PROVE  MoneyInv'
<1>1. UNCHANGED <<rounds, stakeOf, claimed>>
  BY DEF withdrawFees, bookVars, CanWithdrawFees
<1>2. Books' /\ UNCHANGED <<Owed, DustBound>>
  BY <1>1, BooksKept, DebtsKept DEF MoneyInv
<1>3. /\ amount \in Nat /\ treasury \in Accounts /\ treasury # Market /\ TypeOK
      /\ balance[Market] \in Nat /\ protocolFees \in Nat
  BY AddressesAreDistinct DEF MoneyInv, Books, IInv, TypeOK
<1>4. balance'[Market] = balance[Market] - amount /\ protocolFees' = protocolFees - amount
  BY <1>3, MarketTransfer DEF withdrawFees, CanWithdrawFees
<1>5. Owed \in Int /\ DustBound \in Int
  BY DebtsAreInt DEF MoneyInv, Books
<1>6. balance[Market] >= protocolFees + Owed /\ balance[Market] <= protocolFees + Owed + DustBound
  BY DEF MoneyInv, Solvent, NothingStranded
<1>7. Solvent'
  BY <1>2, <1>3, <1>4, <1>5, <1>6 DEF Solvent
<1>8. NothingStranded'
  BY <1>2, <1>3, <1>4, <1>5, <1>6 DEF NothingStranded
<1> QED
  BY <1>2, <1>7, <1>8 DEF MoneyInv

-----------------------------------------------------------------------------
LEMMA InitMoney == Init => MoneyInv
<1> SUFFICES ASSUME Init PROVE MoneyInv
  OBVIOUS
<1>1. Books
  BY InitBooks
<1>2. \A id \in RoundIds : rounds[id].status = "None"
  BY DEF Init, NoRound
<1>3. ASSUME NEW id \in RoundIds PROVE OwedOn(id) = 0
  <2>1. \A u \in Users : ~claimed[id][u]
    BY DEF Init
  <2>2. OwedOn(id) = TotalPool(id)
    BY <1>1, <1>2, <2>1, OwedIsPools DEF RoundsOwePools
  <2> QED
    BY <1>1, <1>2, <2>2 DEF Books, UnopenedIsEmpty, TotalPool, Sides
<1> DEFINE f == [id \in RoundIds |-> OwedOn(id)]
           g == [id \in RoundIds |-> DustOn(id)]
<1>4. /\ DOMAIN f = RoundIds /\ \A id \in RoundIds : f[id] = 0
      /\ DOMAIN g = RoundIds /\ \A id \in RoundIds : g[id] = 0
  BY <1>2, <1>3 DEF DustOn
<1>5. Owed = SumFunction(f) /\ DustBound = SumFunction(g)
  BY DEF Owed, DustBound
<1> HIDE DEF f, g
<1>6. Owed = 0 /\ DustBound = 0
  BY <1>4, <1>5, RoundIdsAreFinite, SumOfZeros DEF SumFunction
<1>7. balance[Market] = 0 /\ protocolFees = 0
  BY AddressesAreDistinct DEF Init
<1> QED
  BY <1>1, <1>6, <1>7 DEF MoneyInv, Solvent, NothingStranded

LEMMA StepMoney == MoneyInv /\ [Step]_vars => MoneyInv'
<1> SUFFICES ASSUME MoneyInv, [Step]_vars PROVE MoneyInv'
  OBVIOUS
<1>1. IInv'
  BY StepIInv DEF MoneyInv, Books
<1>2. CASE UNCHANGED <<rounds, stakeOf, claimed, protocolFees, balance>>
  BY <1>1, <1>2, QuietMoney
<1>3. ASSUME NEW u \in Users, NEW id \in RoundIds, NEW side \in Sides, NEW amount \in Amounts,
             \/ takePosition(u, id, side, amount)
             \/ \E router \in Routers : takePositionFor(router, id, u, side, amount)
      PROVE  MoneyInv'
  BY <1>1, <1>3, StakeMoney DEF takePosition, takePositionFor
<1>4. ASSUME NEW id \in RoundIds, lockRound(id) \/ Voided(id) PROVE MoneyInv'
  <2>1. rounds'[id].status # "Resolved"
    BY <1>4, LockEffect, VoidEffect DEF Voided, MoneyInv, Books, IInv
  <2>2. UNCHANGED protocolFees
    BY <1>4 DEF lockRound, Voided, VoidRound, CanLock
  <2> QED
    BY <1>1, <1>4, <2>1, <2>2, RefundMoney
<1>5. CASE Tick /\ UNCHANGED <<pauseVars, treasury, roundVars>>
  BY <1>2, <1>5 DEF roundVars, bookVars
<1>6. CASE Administration
  BY <1>1, <1>2, <1>6, WithdrawMoney DEF Administration, roundVars, bookVars, setRouter
<1>7. CASE Entries
  BY <1>1, <1>3, <1>7, OpenMoney DEF Entries
<1>8. CASE Exits
  BY <1>1, <1>4, <1>8, ClaimMoney DEF Exits, Voided, voidUnsettledRound, voidUnlockedRound, CanVoidUnsettled, CanVoidUnlocked
<1>9. CASE \E id \in RoundIds, read \in OracleReads : resolveRound(id, read)
  BY <1>1, <1>9, ResolveMoney
<1>10. CASE UNCHANGED vars
  BY <1>2, <1>10 DEF vars, roundVars, bookVars
<1> QED
  BY <1>5, <1>6, <1>7, <1>8, <1>9, <1>10 DEF Step, NextButResolve

THEOREM MoneyInvariance == Spec => []MoneyInv
  BY InitMoney, NextIsStep, StepMoney, PTL DEF Spec

(***************************************************************************)
(* Whatever the number of holders and rounds, whichever claim or fee       *)
(* withdrawal comes first, the token balance covers the uncollected rake   *)
(* and every stake and share still to be paid (claimableOf, claim,         *)
(* withdrawFees).                                                          *)
(***************************************************************************)
THEOREM AlwaysSolvent == Spec => []Solvent
<1>1. MoneyInv => Solvent
  BY DEF MoneyInv
<1> QED
  BY <1>1, MoneyInvariance, PTL

(***************************************************************************)
(* ... and beyond fees and debts it holds less than one unit per winner of *)
(* a resolved round: flooring the shares is the only thing that keeps      *)
(* money back, and a void keeps none (claimableOf, _void).                 *)
(***************************************************************************)
THEOREM OnlyDustStays == Spec => []NothingStranded
<1>1. MoneyInv => NothingStranded
  BY DEF MoneyInv
<1> QED
  BY <1>1, MoneyInvariance, PTL

(***************************************************************************)
(* The pool counter of a side, which prices the shares, is the sum of the  *)
(* stakes it stands for (_takePosition, poolOf, stakeOf).                  *)
(***************************************************************************)
THEOREM PoolsCountStakes == Spec => []PoolsAreStakes
<1>1. MoneyInv => PoolsAreStakes
  BY DEF MoneyInv, Books
<1> QED
  BY <1>1, MoneyInvariance, PTL

ClaimsAreCovered ==
  \A id \in RoundIds, u \in Users :
    rounds[id].status \in Terminal => claimableOf(id, u) + protocolFees <= balance[Market]

(***************************************************************************)
(* No claim reverts for want of money, and none has to wait for another:   *)
(* each is within the balance on its own, the fees set aside (claim).      *)
(***************************************************************************)
THEOREM EveryClaimIsCovered == Spec => []ClaimsAreCovered
<1>1. MoneyInv => ClaimsAreCovered
  <2> SUFFICES ASSUME MoneyInv, NEW id \in RoundIds, NEW u \in Users,
                      rounds[id].status \in Terminal
               PROVE  claimableOf(id, u) + protocolFees <= balance[Market]
    BY DEF ClaimsAreCovered
  <2> DEFINE f == [h \in Users |-> OwedTo(id, h)]
             g == [r \in RoundIds |-> OwedOn(r)]
  <2>1. /\ DOMAIN f = Users /\ \A h \in Users : f[h] \in Nat
        /\ DOMAIN g = RoundIds /\ \A r \in RoundIds : g[r] \in Nat
    BY OwedToIsNat, OwedOnIsNat DEF MoneyInv, Books
  <2>2. f[u] = claimableOf(id, u) /\ g[id] = SumFunction(f) /\ Owed = SumFunction(g)
    BY DEF OwedTo, OwedOn, Owed
  <2> HIDE DEF f, g
  <2>3. f[u] <= SumFunction(f)
    BY <2>1, UsersAreFinite, PartWithinSum DEF SumFunction
  <2>4. g[id] <= SumFunction(g) /\ SumFunction(g) \in Nat
    BY <2>1, RoundIdsAreFinite, PartWithinSum, SumIsNat DEF SumFunction
  <2>5. /\ balance[Market] >= protocolFees + Owed
        /\ balance[Market] \in Nat /\ protocolFees \in Nat
    BY AddressesAreDistinct DEF MoneyInv, Books, IInv, TypeOK, Solvent
  <2> QED
    BY <2>1, <2>2, <2>3, <2>4, <2>5
<1> QED
  BY <1>1, MoneyInvariance, PTL
=============================================================================
