---------------------------- MODULE LendingProofs ----------------------------
(* The lenders' books, for any rates, ratios, tokens, prices and amounts, and
   whatever the pages and the other accounts send in whatever order: no balance
   goes below zero, the pool's totals are the sums of its accounts' parts, a
   vault position is worth something exactly as long as it has shares, and a
   round's proceeds clear the lien they can pay. The pool's functions come first,
   each on a pool whose books are in order, then the vaults', then the steps;
   then, that a figure read fresh from the chain is what the contracts do; last,
   that a call a form let through is accepted while nothing else is mined. *)
EXTENDS LendingDesk, SumTheorems

-----------------------------------------------------------------------------
(* Arithmetic. *)

LEMMA MulDivIsNat ==
  ASSUME NEW a \in Nat, NEW b \in Nat, NEW c \in Nat, c > 0
  PROVE  /\ MulDiv(a, b, c) \in Nat
         /\ c * MulDiv(a, b, c) <= a * b
<1>1. a * b \in Nat
  OBVIOUS
<1> QED BY <1>1, FloorIsNat DEF MulDiv

LEMMA MulDivUpIsNat ==
  ASSUME NEW a \in Nat, NEW b \in Nat, NEW c \in Nat, c > 0
  PROVE  MulDivUp(a, b, c) \in Nat
<1>1. a * b + c - 1 \in Nat
  <2>1. a * b \in Nat
    OBVIOUS
  <2> QED BY <2>1
<1> QED BY <1>1, FloorIsNat DEF MulDivUp

\* A part of a whole is no more than the whole, and less when something is left out.
LEMMA MulDivOfPart ==
  ASSUME NEW a \in Nat, NEW b \in Nat, NEW c \in Nat, c > 0
  PROVE  /\ b <= c => MulDiv(a, b, c) <= a
         /\ b < c /\ a > 0 => MulDiv(a, b, c) < a
<1>1. PICK q \in Nat : q = MulDiv(a, b, c)
  BY MulDivIsNat
<1>2. c * q <= a * b
  BY <1>1, MulDivIsNat
<1>3. ASSUME b <= c, q > a PROVE FALSE
  <2>1. c * q >= c * (a + 1) /\ c * (a + 1) = c * a + c
    BY <1>3
  <2>2. a * b <= a * c
    BY <1>3
  <2> QED BY <1>2, <2>1, <2>2
<1>4. ASSUME b < c, a > 0, q >= a PROVE FALSE
  <2>1. c * q >= c * a
    BY <1>4
  <2>2. a * b <= a * (c - 1) /\ a * (c - 1) = a * c - a
    BY <1>4
  <2> QED BY <1>2, <1>4, <2>1, <2>2
<1> QED BY <1>1, <1>3, <1>4

\* Less than the whole taken in proportion leaves at least the rest of the whole.
LEMMA PartLeavesRest ==
  ASSUME NEW a \in Nat, NEW b \in Nat, NEW c \in Nat, b < c, c <= a
  PROVE  a - MulDiv(a, b, c) >= c - b
<1>1. PICK q \in Nat : q = MulDiv(a, b, c) /\ c * q <= a * b
  <2>1. c > 0
    OBVIOUS
  <2> QED BY <2>1, MulDivIsNat
<1>2. PICK x \in Nat, y \in Nat : a = c + x /\ c = b + y
  <2>1. a - c \in Nat /\ c - b \in Nat /\ a = c + (a - c) /\ c = b + (c - b)
    OBVIOUS
  <2> QED BY <2>1
<1>3. c * (b + x) = a * b + y * x
  <2>1. (b + y) * (b + x) = ((b + y) + x) * b + y * x
    OBVIOUS
  <2> QED BY <1>2, <2>1
<1>4. /\ y * x \in Nat /\ b + x \in Nat /\ c * q = q * c /\ c * (b + x) = (b + x) * c
      /\ q * c \in Nat /\ (b + x + 1) * c = (b + x) * c + c /\ (b + x) * c \in Nat /\ a * b \in Nat
  BY <1>1, <1>2, MulIsNat
<1>5. q * c < (b + x + 1) * c
  BY <1>1, <1>3, <1>4
<1>6. q < b + x + 1
  BY <1>1, <1>4, <1>5, LessCancels
<1> QED BY <1>1, <1>2, <1>6

LEMMA LowerIsEither ==
  ASSUME NEW a \in Int, NEW b \in Int
  PROVE  /\ Lower(a, b) \in {a, b}
         /\ Lower(a, b) <= a /\ Lower(a, b) <= b
BY DEF Lower

\* A tiny positive product still rounds to zero: zero of nothing is nothing.
LEMMA MulDivOfNothing ==
  ASSUME NEW b \in Nat, NEW c \in Nat, c > 0
  PROVE  MulDiv(0, b, c) = 0
BY DEF MulDiv

-----------------------------------------------------------------------------
(* The pool. *)

PoolType ==
  [entries : {"open", "paused"}, cash : Nat, supplyIndex : Nat \ {0}, borrowIndex : {x \in Nat : x >= RAY}, accruedAt : Nat,
   supply : [Users -> Nat], totalSupplyScaled : Nat, debt : [Users -> Nat], totalBorrowScaled : Nat,
   reserves : Nat, unsocialised : Nat]

TotalsAreSums(p) ==
  /\ p.totalSupplyScaled = SumFunction(p.supply)
  /\ p.totalBorrowScaled = SumFunction(p.debt)

PoolOK(p) == p \in PoolType /\ TotalsAreSums(p)

LEMMA UsersAreTwo == IsFiniteSet(Users) /\ "bo" \in Users /\ "lee" \in Users
<1>1. IsFiniteSet({"bo"}) /\ Users = {"bo"} \cup {"lee"}
  BY FS_Singleton DEF Users
<1> QED BY <1>1, FS_AddElement DEF Users

\* A total follows one account's part.
LEMMA TotalFollows ==
  ASSUME NEW f \in [Users -> Nat], NEW u \in Users, NEW v \in Nat
  PROVE  /\ [f EXCEPT ![u] = v] \in [Users -> Nat]
         /\ SumFunction([f EXCEPT ![u] = v]) = SumFunction(f) + (v - f[u])
         /\ SumFunction(f) \in Nat /\ f[u] <= SumFunction(f)
         /\ SumFunction([f EXCEPT ![u] = v]) \in Nat
<1> DEFINE g == [f EXCEPT ![u] = v]
<1>1. g \in [Users -> Nat] /\ g[u] = v /\ \A x \in Users : x # u => g[x] = f[x]
  OBVIOUS
<1> HIDE DEF g
<1>2. IntOn(f, Users) /\ IntOn(g, Users) /\ IsFiniteSet(Users)
  BY <1>1, UsersAreTwo DEF IntOn
<1>3. SumFunctionOnSet(g, Users) = SumFunctionOnSet(f, Users) + (g[u] - f[u])
  BY <1>1, <1>2, SumChanges
<1>4. SumFunctionOnSet(f, Users) \in Nat /\ SumFunctionOnSet(g, Users) \in Nat
  BY <1>1, UsersAreTwo, SumIsNat
<1>5. f[u] <= SumFunctionOnSet(f, Users)
  BY UsersAreTwo, PartWithinSum
<1>6. SumFunction(f) = SumFunctionOnSet(f, Users) /\ SumFunction(g) = SumFunctionOnSet(g, Users)
  BY <1>1 DEF SumFunction
<1> QED BY <1>1, <1>3, <1>4, <1>5, <1>6 DEF g

LEMMA RatesAreNat ==
  ASSUME NEW u \in Nat
  PROVE  BorrowRateAt(u) \in Nat /\ SupplyRateAt(u) \in Nat
<1>1. /\ BaseRate \in Nat /\ Slope1 \in Nat /\ Slope2 \in Nat /\ WAD \in Nat /\ WAD > 0
      /\ Kink \in Nat /\ Kink > 0 /\ WAD - Kink \in Nat /\ WAD - Kink > 0
      /\ WAD - ReserveFactor \in Nat
  BY ScalesAreUnits, CurveIsValid
<1>2. BorrowRateAt(u) \in Nat
  <2>1. CASE u <= Kink
    <3>1. MulDiv(Slope1, u, Kink) \in Nat
      BY <1>1, MulDivIsNat
    <3> QED BY <1>1, <2>1, <3>1 DEF BorrowRateAt
  <2>2. CASE u > Kink
    <3>1. u - Kink \in Nat
      BY <1>1, <2>2
    <3>2. MulDiv(Slope2, u - Kink, WAD - Kink) \in Nat
      BY <1>1, <3>1, MulDivIsNat
    <3> QED BY <1>1, <2>2, <3>2 DEF BorrowRateAt
  <2> QED BY <1>1, <2>1, <2>2
<1>3. MulDiv(BorrowRateAt(u), u, WAD) \in Nat
  BY <1>1, <1>2, MulDivIsNat
<1>4. SupplyRateAt(u) \in Nat
  BY <1>1, <1>3, MulDivIsNat DEF SupplyRateAt
<1> QED BY <1>2, <1>4

LEMMA PoolReads ==
  ASSUME NEW p, PoolOK(p), NEW u \in Users
  PROVE  /\ TotalSupplied(p) \in Nat /\ TotalBorrowed(p) \in Nat
         /\ BalanceOfSupply(p, u) \in Nat /\ BalanceOfDebt(p, u) \in Nat
         /\ Utilization(p) \in Nat
<1>1. /\ p.totalSupplyScaled \in Nat /\ p.totalBorrowScaled \in Nat /\ p.supplyIndex \in Nat /\ p.borrowIndex \in Nat
      /\ p.supply[u] \in Nat /\ p.debt[u] \in Nat /\ p.cash \in Nat
  BY DEF PoolOK, PoolType
<1>2. RAY \in Nat /\ RAY > 0 /\ WAD \in Nat
  BY ScalesAreUnits
<1>3. /\ TotalSupplied(p) \in Nat /\ TotalBorrowed(p) \in Nat
      /\ BalanceOfSupply(p, u) \in Nat /\ BalanceOfDebt(p, u) \in Nat
  BY <1>1, <1>2, MulDivIsNat DEF TotalSupplied, TotalBorrowed, BalanceOfSupply, BalanceOfDebt
<1>4. Utilization(p) \in Nat
  <2>1. CASE TotalBorrowed(p) = 0
    BY <2>1 DEF Utilization
  <2>2. CASE TotalBorrowed(p) # 0
    <3>1. p.cash + TotalBorrowed(p) \in Nat /\ p.cash + TotalBorrowed(p) > 0
      BY <1>1, <1>3, <2>2
    <3>2. MulDiv(TotalBorrowed(p), WAD, p.cash + TotalBorrowed(p)) \in Nat
      BY <1>2, <1>3, <3>1, MulDivIsNat
    <3> QED BY <2>2, <3>2 DEF Utilization
  <2> QED BY <2>1, <2>2
<1> QED BY <1>3, <1>4

LEMMA AccrueKeepsBooks ==
  ASSUME NEW p, PoolOK(p), NEW now \in Nat, p.accruedAt <= now
  PROVE  /\ PoolOK(Accrue(p, now))
         /\ Accrue(p, now).accruedAt = now
         /\ Accrue(p, now).debt = p.debt /\ Accrue(p, now).supply = p.supply
         /\ Accrue(p, now).cash = p.cash /\ Accrue(p, now).entries = p.entries
<1> DEFINE borrowGrowth == BorrowRateAt(Utilization(p)) * (now - p.accruedAt)
           supplyGrowth == SupplyRateAt(Utilization(p)) * (now - p.accruedAt)
           earned == MulDiv(MulDiv(TotalBorrowed(p), borrowGrowth, WAD), ReserveFactor, WAD)
           owed == MulDiv(p.borrowIndex, borrowGrowth, WAD)
           credited == MulDiv(p.supplyIndex, supplyGrowth, WAD)
<1>1. borrowGrowth \in Nat /\ supplyGrowth \in Nat
  <2>1. now - p.accruedAt \in Nat
    BY DEF PoolOK, PoolType
  <2>2. BorrowRateAt(Utilization(p)) \in Nat /\ SupplyRateAt(Utilization(p)) \in Nat
    BY PoolReads, UsersAreTwo, RatesAreNat
  <2> QED BY <2>1, <2>2
<1>2. p.borrowIndex \in Nat /\ p.supplyIndex \in Nat /\ WAD \in Nat /\ WAD > 0 /\ ReserveFactor \in Nat
  BY ScalesAreUnits, CurveIsValid DEF PoolOK, PoolType
<1> HIDE DEF borrowGrowth, supplyGrowth
<1>3. owed \in Nat /\ credited \in Nat
  BY <1>1, <1>2, MulDivIsNat
<1>4. earned \in Nat
  <2>1. MulDiv(TotalBorrowed(p), borrowGrowth, WAD) \in Nat
    BY <1>1, <1>2, MulDivIsNat, PoolReads, UsersAreTwo
  <2> QED BY <1>2, <2>1, MulDivIsNat
<1>5. Accrue(p, now) = [p EXCEPT !.accruedAt = now, !.reserves = p.reserves + earned,
                                 !.borrowIndex = p.borrowIndex + owed, !.supplyIndex = p.supplyIndex + credited]
  BY DEF Accrue, borrowGrowth, supplyGrowth
<1> HIDE DEF owed, credited, earned
<1>6. /\ p.reserves + earned \in Nat
      /\ p.borrowIndex + owed \in {x \in Nat : x >= RAY}
      /\ p.supplyIndex + credited \in Nat \ {0}
  BY <1>3, <1>4, ScalesAreUnits DEF PoolOK, PoolType
<1>7. Accrue(p, now) \in PoolType
  BY <1>5, <1>6 DEF PoolOK, PoolType
<1>8. /\ Accrue(p, now).debt = p.debt /\ Accrue(p, now).supply = p.supply /\ Accrue(p, now).cash = p.cash
      /\ Accrue(p, now).totalSupplyScaled = p.totalSupplyScaled
      /\ Accrue(p, now).totalBorrowScaled = p.totalBorrowScaled
      /\ Accrue(p, now).accruedAt = now /\ Accrue(p, now).entries = p.entries
  BY <1>5 DEF PoolOK, PoolType
<1> QED BY <1>7, <1>8 DEF PoolOK, TotalsAreSums

\* The part of an account and the total it belongs to move together.
LEMMA SupplyKeepsBooks ==
  ASSUME NEW p, PoolOK(p), NEW u \in Users, NEW a \in Nat
  PROVE  /\ PoolOK(Supply(p, u, a))
         /\ Supply(p, u, a).accruedAt = p.accruedAt
         /\ Supply(p, u, a).cash = p.cash + a /\ Supply(p, u, a).entries = p.entries
<1> DEFINE scaled == MulDiv(a, RAY, p.supplyIndex)
           part == [p.supply EXCEPT ![u] = p.supply[u] + scaled]
<1>1. scaled \in Nat
  <2>1. p.supplyIndex \in Nat /\ p.supplyIndex > 0 /\ RAY \in Nat
    BY ScalesAreUnits DEF PoolOK, PoolType
  <2> QED BY <2>1, MulDivIsNat
<1>2. /\ p.supply \in [Users -> Nat] /\ p.supply[u] \in Nat /\ p.totalSupplyScaled \in Nat /\ p.cash \in Nat
      /\ p.totalSupplyScaled = SumFunction(p.supply)
  BY DEF PoolOK, PoolType, TotalsAreSums
<1>3. Supply(p, u, a) = [p EXCEPT !.supply = part, !.totalSupplyScaled = p.totalSupplyScaled + scaled, !.cash = p.cash + a]
  BY DEF Supply
<1> HIDE DEF scaled
<1>4. part \in [Users -> Nat] /\ SumFunction(part) = SumFunction(p.supply) + scaled
  <2>1. p.supply[u] + scaled \in Nat
    BY <1>1, <1>2
  <2>2. SumFunction(part) = SumFunction(p.supply) + ((p.supply[u] + scaled) - p.supply[u])
    BY <1>2, <2>1, TotalFollows
  <2>3. part \in [Users -> Nat] /\ SumFunction(p.supply) \in Nat
    BY <1>2, <2>1, TotalFollows
  <2> HIDE DEF part
  <2> QED BY <1>1, <1>2, <2>2, <2>3
<1> HIDE DEF part
<1>5. Supply(p, u, a) \in PoolType
  <2>1. p.totalSupplyScaled + scaled \in Nat /\ p.cash + a \in Nat
    BY <1>1, <1>2
  <2> QED BY <1>3, <1>4, <2>1 DEF PoolOK, PoolType
<1>6. /\ Supply(p, u, a).supply = part /\ Supply(p, u, a).totalSupplyScaled = p.totalSupplyScaled + scaled
      /\ Supply(p, u, a).debt = p.debt /\ Supply(p, u, a).totalBorrowScaled = p.totalBorrowScaled
      /\ Supply(p, u, a).accruedAt = p.accruedAt /\ Supply(p, u, a).cash = p.cash + a
      /\ Supply(p, u, a).entries = p.entries
  BY <1>3 DEF PoolOK, PoolType
<1> QED BY <1>2, <1>4, <1>5, <1>6 DEF PoolOK, TotalsAreSums

LEMMA WithdrawKeepsBooks ==
  ASSUME NEW p, PoolOK(p), NEW u \in Users, NEW a \in Nat, CanWithdraw(p, u, a)
  PROVE  /\ PoolOK(Withdraw(p, u, a))
         /\ Withdraw(p, u, a).accruedAt = p.accruedAt
<1> DEFINE scaled == Lower(MulDivUp(a, RAY, p.supplyIndex), p.supply[u])
           part == [p.supply EXCEPT ![u] = p.supply[u] - scaled]
<1>1. /\ p.supply \in [Users -> Nat] /\ p.supply[u] \in Nat /\ p.totalSupplyScaled \in Nat /\ p.cash \in Nat
      /\ p.totalSupplyScaled = SumFunction(p.supply)
      /\ p.supplyIndex \in Nat /\ p.supplyIndex > 0
  BY DEF PoolOK, PoolType, TotalsAreSums
<1>2. scaled \in Nat /\ scaled <= p.supply[u]
  <2>1. MulDivUp(a, RAY, p.supplyIndex) \in Nat
    BY <1>1, MulDivUpIsNat, ScalesAreUnits
  <2> QED BY <1>1, <2>1, LowerIsEither
<1>3. Withdraw(p, u, a) = [p EXCEPT !.supply = part, !.totalSupplyScaled = p.totalSupplyScaled - scaled, !.cash = p.cash - a]
  BY DEF Withdraw
<1>4. p.cash - a \in Nat
  BY <1>1 DEF CanWithdraw
<1> HIDE DEF scaled
<1>5. part \in [Users -> Nat] /\ SumFunction(part) = p.totalSupplyScaled - scaled /\ p.totalSupplyScaled - scaled \in Nat
  <2>1. p.supply[u] - scaled \in Nat
    BY <1>1, <1>2
  <2>2. SumFunction(part) = SumFunction(p.supply) + ((p.supply[u] - scaled) - p.supply[u])
    BY <1>1, <2>1, TotalFollows
  <2>3. part \in [Users -> Nat] /\ SumFunction(p.supply) \in Nat /\ SumFunction(part) \in Nat
    BY <1>1, <2>1, TotalFollows
  <2> HIDE DEF part
  <2> QED BY <1>1, <1>2, <2>2, <2>3
<1> HIDE DEF part
<1>6. Withdraw(p, u, a) \in PoolType
  BY <1>3, <1>4, <1>5 DEF PoolOK, PoolType
<1>7. /\ Withdraw(p, u, a).supply = part /\ Withdraw(p, u, a).totalSupplyScaled = p.totalSupplyScaled - scaled
      /\ Withdraw(p, u, a).debt = p.debt /\ Withdraw(p, u, a).totalBorrowScaled = p.totalBorrowScaled
      /\ Withdraw(p, u, a).accruedAt = p.accruedAt
  BY <1>3 DEF PoolOK, PoolType
<1> QED BY <1>5, <1>6, <1>7 DEF PoolOK, TotalsAreSums

LEMMA BorrowKeepsBooks ==
  ASSUME NEW p, PoolOK(p), NEW u \in Users, NEW a \in Nat, CanBorrow(p, a)
  PROVE  /\ PoolOK(Borrow(p, u, a))
         /\ Borrow(p, u, a).accruedAt = p.accruedAt
<1> DEFINE scaled == MulDivUp(a, RAY, p.borrowIndex)
           part == [p.debt EXCEPT ![u] = p.debt[u] + scaled]
<1>1. /\ p.debt \in [Users -> Nat] /\ p.debt[u] \in Nat /\ p.totalBorrowScaled \in Nat /\ p.cash \in Nat
      /\ p.totalBorrowScaled = SumFunction(p.debt)
      /\ p.borrowIndex \in Nat /\ p.borrowIndex > 0
  BY ScalesAreUnits DEF PoolOK, PoolType, TotalsAreSums
<1>2. scaled \in Nat
  BY <1>1, MulDivUpIsNat, ScalesAreUnits
<1>3. Borrow(p, u, a) = [p EXCEPT !.debt = part, !.totalBorrowScaled = p.totalBorrowScaled + scaled, !.cash = p.cash - a]
  BY DEF Borrow
<1>4. p.cash - a \in Nat
  BY <1>1 DEF CanBorrow
<1> HIDE DEF scaled
<1>5. part \in [Users -> Nat] /\ SumFunction(part) = p.totalBorrowScaled + scaled
  <2>1. p.debt[u] + scaled \in Nat
    BY <1>1, <1>2
  <2>2. SumFunction(part) = SumFunction(p.debt) + ((p.debt[u] + scaled) - p.debt[u])
    BY <1>1, <2>1, TotalFollows
  <2>3. part \in [Users -> Nat] /\ SumFunction(p.debt) \in Nat
    BY <1>1, <2>1, TotalFollows
  <2> HIDE DEF part
  <2> QED BY <1>1, <1>2, <2>2, <2>3
<1> HIDE DEF part
<1>6. Borrow(p, u, a) \in PoolType
  <2>1. p.totalBorrowScaled + scaled \in Nat
    BY <1>1, <1>2
  <2> QED BY <1>3, <1>4, <1>5, <2>1 DEF PoolOK, PoolType
<1>7. /\ Borrow(p, u, a).debt = part /\ Borrow(p, u, a).totalBorrowScaled = p.totalBorrowScaled + scaled
      /\ Borrow(p, u, a).supply = p.supply /\ Borrow(p, u, a).totalSupplyScaled = p.totalSupplyScaled
      /\ Borrow(p, u, a).accruedAt = p.accruedAt
  BY <1>3 DEF PoolOK, PoolType
<1> QED BY <1>5, <1>6, <1>7 DEF PoolOK, TotalsAreSums

\* A debt falls by a part of itself: what repayments and losses have in common.
LEMMA DebtFalls ==
  ASSUME NEW p, PoolOK(p), NEW u \in Users, NEW scaled \in Nat, scaled <= p.debt[u]
  PROVE  /\ [p.debt EXCEPT ![u] = p.debt[u] - scaled] \in [Users -> Nat]
         /\ p.totalBorrowScaled - scaled \in Nat
         /\ SumFunction([p.debt EXCEPT ![u] = p.debt[u] - scaled]) = p.totalBorrowScaled - scaled
<1> DEFINE part == [p.debt EXCEPT ![u] = p.debt[u] - scaled]
<1>1. /\ p.debt \in [Users -> Nat] /\ p.debt[u] \in Nat /\ p.totalBorrowScaled \in Nat
      /\ p.totalBorrowScaled = SumFunction(p.debt)
  BY DEF PoolOK, PoolType, TotalsAreSums
<1>2. p.debt[u] - scaled \in Nat
  BY <1>1
<1>3. SumFunction(part) = SumFunction(p.debt) + ((p.debt[u] - scaled) - p.debt[u])
  BY <1>1, <1>2, TotalFollows
<1>4. part \in [Users -> Nat] /\ SumFunction(p.debt) \in Nat /\ SumFunction(part) \in Nat
  BY <1>1, <1>2, TotalFollows
<1> HIDE DEF part
<1>5. SumFunction(part) = p.totalBorrowScaled - scaled
  BY <1>1, <1>2, <1>3, <1>4
<1> QED BY <1>4, <1>5 DEF part

LEMMA RepayKeepsBooks ==
  ASSUME NEW p, PoolOK(p), NEW u \in Users, NEW a \in Nat
  PROVE  /\ PoolOK(Repay(p, u, a))
         /\ Repay(p, u, a).accruedAt = p.accruedAt
         /\ Repay(p, u, a).borrowIndex = p.borrowIndex
         /\ a = BalanceOfDebt(p, u) => Repay(p, u, a).debt[u] = 0
<1> DEFINE scaled == Repaid(p, u, a)
           part == [p.debt EXCEPT ![u] = p.debt[u] - scaled]
<1>1. /\ p.debt \in [Users -> Nat] /\ p.debt[u] \in Nat /\ p.totalBorrowScaled \in Nat /\ p.cash \in Nat
      /\ p.borrowIndex \in Nat /\ p.borrowIndex > 0
  BY ScalesAreUnits DEF PoolOK, PoolType
<1>2. scaled \in Nat /\ scaled <= p.debt[u] /\ (a = BalanceOfDebt(p, u) => scaled = p.debt[u])
  <2>1. MulDiv(a, RAY, p.borrowIndex) \in Nat
    BY <1>1, MulDivIsNat, ScalesAreUnits
  <2> QED BY <1>1, <2>1 DEF Repaid
<1>3. Repay(p, u, a) = [p EXCEPT !.debt = part, !.totalBorrowScaled = p.totalBorrowScaled - scaled, !.cash = p.cash + a]
  BY DEF Repay
<1> HIDE DEF scaled
<1>4. part \in [Users -> Nat] /\ p.totalBorrowScaled - scaled \in Nat /\ SumFunction(part) = p.totalBorrowScaled - scaled
  BY <1>2, DebtFalls
<1>5. part[u] = p.debt[u] - scaled
  BY <1>1
<1> HIDE DEF part
<1>6. Repay(p, u, a) \in PoolType
  <2>1. p.cash + a \in Nat
    BY <1>1
  <2> QED BY <1>3, <1>4, <2>1 DEF PoolOK, PoolType
<1>7. /\ Repay(p, u, a).debt = part /\ Repay(p, u, a).totalBorrowScaled = p.totalBorrowScaled - scaled
      /\ Repay(p, u, a).supply = p.supply /\ Repay(p, u, a).totalSupplyScaled = p.totalSupplyScaled
      /\ Repay(p, u, a).accruedAt = p.accruedAt /\ Repay(p, u, a).borrowIndex = p.borrowIndex
  BY <1>3 DEF PoolOK, PoolType
<1>8. a = BalanceOfDebt(p, u) => Repay(p, u, a).debt[u] = 0
  BY <1>1, <1>2, <1>5, <1>7
<1> QED BY <1>4, <1>6, <1>7, <1>8 DEF PoolOK, TotalsAreSums

LEMMA AbsorbKeepsBooks ==
  ASSUME NEW p, PoolOK(p), NEW u \in Users
  PROVE  /\ PoolOK(Absorb(p, u))
         /\ Absorb(p, u).accruedAt = p.accruedAt
<1> DEFINE loss == BalanceOfDebt(p, u)
           fromReserves == Lower(loss, p.reserves)
           supplied == TotalSupplied(p)
           socialised == Lower(loss - fromReserves, supplied)
           next == IF socialised = 0 THEN p.supplyIndex ELSE MulDiv(p.supplyIndex, supplied - socialised, supplied)
           index == IF next = 0 THEN 1 ELSE next
           part == [p.debt EXCEPT ![u] = p.debt[u] - p.debt[u]]
<1>1. /\ p.debt \in [Users -> Nat] /\ p.debt[u] \in Nat /\ p.reserves \in Nat /\ p.unsocialised \in Nat
      /\ p.supplyIndex \in Nat /\ p.supplyIndex > 0
  BY DEF PoolOK, PoolType
<1>2. loss \in Nat /\ supplied \in Nat
  BY PoolReads
<1> HIDE DEF loss, supplied
<1>3. fromReserves \in Nat /\ fromReserves <= loss /\ fromReserves <= p.reserves
  BY <1>1, <1>2, LowerIsEither
<1> HIDE DEF fromReserves
<1>4. loss - fromReserves \in Nat
  BY <1>2, <1>3
<1>5. socialised \in Nat /\ socialised <= supplied /\ socialised <= loss - fromReserves
  BY <1>2, <1>4, LowerIsEither
<1> HIDE DEF socialised
<1>6. next \in Nat
  <2>1. CASE socialised = 0
    BY <1>1, <2>1
  <2>2. CASE socialised # 0
    <3>1. supplied - socialised \in Nat /\ supplied > 0
      BY <1>2, <1>5, <2>2
    <3>2. MulDiv(p.supplyIndex, supplied - socialised, supplied) \in Nat
      BY <1>1, <1>2, <3>1, MulDivIsNat
    <3> QED BY <2>2, <3>2
  <2> QED BY <2>1, <2>2
<1>7. Absorb(p, u) = [p EXCEPT !.totalBorrowScaled = p.totalBorrowScaled - p.debt[u], !.debt = part,
                               !.reserves = p.reserves - fromReserves, !.supplyIndex = index,
                               !.unsocialised = p.unsocialised + (loss - fromReserves - socialised)]
  <2>1. part = [p.debt EXCEPT ![u] = 0]
    BY <1>1
  <2> HIDE DEF part
  <2>2. Absorb(p, u) = [p EXCEPT !.totalBorrowScaled = p.totalBorrowScaled - p.debt[u], !.debt = [p.debt EXCEPT ![u] = 0],
                                 !.reserves = p.reserves - fromReserves, !.supplyIndex = index,
                                 !.unsocialised = p.unsocialised + (loss - fromReserves - socialised)]
    BY DEF Absorb, loss, supplied, fromReserves, socialised
  <2> QED BY <2>1, <2>2
<1> HIDE DEF next
<1>8. index \in Nat \ {0} /\ p.reserves - fromReserves \in Nat /\ p.unsocialised + (loss - fromReserves - socialised) \in Nat
  <2>1. index \in Nat \ {0}
    BY <1>6
  <2>2. p.reserves - fromReserves \in Nat /\ p.unsocialised + (loss - fromReserves - socialised) \in Nat
    BY <1>1, <1>2, <1>3, <1>4, <1>5
  <2> QED BY <2>1, <2>2
<1> HIDE DEF index
<1>9. part \in [Users -> Nat] /\ p.totalBorrowScaled - p.debt[u] \in Nat /\ SumFunction(part) = p.totalBorrowScaled - p.debt[u]
  BY <1>1, DebtFalls
<1> HIDE DEF part
<1>10. Absorb(p, u) \in PoolType
  BY <1>7, <1>8, <1>9 DEF PoolOK, PoolType
<1>11. /\ Absorb(p, u).debt = part /\ Absorb(p, u).totalBorrowScaled = p.totalBorrowScaled - p.debt[u]
       /\ Absorb(p, u).supply = p.supply /\ Absorb(p, u).totalSupplyScaled = p.totalSupplyScaled
       /\ Absorb(p, u).accruedAt = p.accruedAt
  BY <1>7 DEF PoolOK, PoolType
<1> QED BY <1>9, <1>10, <1>11 DEF PoolOK, TotalsAreSums

LEMMA ReservesKeepBooks ==
  ASSUME NEW p, PoolOK(p), NEW a \in Nat, CanWithdrawReserves(p, a)
  PROVE  /\ PoolOK(WithdrawReserves(p, a))
         /\ WithdrawReserves(p, a).accruedAt = p.accruedAt
<1>1. p.reserves \in Nat /\ p.cash \in Nat /\ TotalSupplied(p) \in Nat
  BY PoolReads, UsersAreTwo DEF PoolOK, PoolType
<1>2. p.reserves - a \in Nat /\ p.cash - a \in Nat
  BY <1>1 DEF CanWithdrawReserves
<1>3. WithdrawReserves(p, a) = [p EXCEPT !.reserves = p.reserves - a, !.cash = p.cash - a]
  BY DEF WithdrawReserves
<1>4. WithdrawReserves(p, a) \in PoolType
  BY <1>2, <1>3 DEF PoolOK, PoolType
<1>5. /\ WithdrawReserves(p, a).debt = p.debt /\ WithdrawReserves(p, a).totalBorrowScaled = p.totalBorrowScaled
      /\ WithdrawReserves(p, a).supply = p.supply /\ WithdrawReserves(p, a).totalSupplyScaled = p.totalSupplyScaled
      /\ WithdrawReserves(p, a).accruedAt = p.accruedAt
  BY <1>3 DEF PoolOK, PoolType
<1> QED BY <1>4, <1>5 DEF PoolOK, TotalsAreSums

-----------------------------------------------------------------------------
(* The chain: the books in order, nothing accrued or settled ahead of the clock,
   and a position that lasts as long as its shares. *)

Spenders == {"vault", "pool"} \cup Tokens
StockType == [Users -> [Tokens -> Nat]]
ChainType ==
  [pool : PoolType, position : [Users -> [principal : Nat, settled : Nat, since : Nat]],
   shares : [Users -> Nat], wallet : [Users -> Nat], allowed : [Users -> [Spenders -> Nat]],
   stock : StockType, stockWallet : StockType, feed : [Tokens -> [price : Nat, at : Nat]],
   now : Nat, paused : BOOLEAN, height : Nat]

NeverAhead(c) ==
  /\ c.pool.accruedAt <= c.now
  /\ \A u \in Users : c.position[u].since <= c.now

LedgerLasts(c) ==
  \A u \in Users :
    IF c.shares[u] = 0 THEN c.position[u].principal = 0 /\ c.position[u].settled = 0
                       ELSE c.position[u].principal >= c.shares[u]

ChainOK(c) == c \in ChainType /\ TotalsAreSums(c.pool) /\ NeverAhead(c) /\ LedgerLasts(c)

LEMMA ChainReads ==
  ASSUME NEW c, ChainOK(c), NEW u \in Users
  PROVE  /\ PoolOK(c.pool) /\ c.pool.accruedAt <= c.now /\ c.now \in Nat
         /\ c.shares \in [Users -> Nat] /\ c.wallet \in [Users -> Nat]
         /\ c.shares[u] \in Nat /\ c.wallet[u] \in Nat /\ c.pool.cash \in Nat
         /\ LienOf(c, u) \in Nat
         /\ c.position[u].principal \in Nat /\ c.position[u].settled \in Nat /\ c.position[u].since \in Nat
         /\ AccruedYield(c, u) \in Nat /\ TotalLedgerValue(c, u) \in Nat /\ CollateralValue(c, u) \in Nat
<1>1. PoolOK(c.pool) /\ c.pool.accruedAt <= c.now /\ c.now \in Nat /\ c.pool.cash \in Nat
  BY DEF ChainOK, ChainType, PoolOK, PoolType, NeverAhead
<1>2. c.shares \in [Users -> Nat] /\ c.wallet \in [Users -> Nat] /\ c.shares[u] \in Nat /\ c.wallet[u] \in Nat
  BY DEF ChainOK, ChainType
<1>3. LienOf(c, u) \in Nat
  BY <1>1, PoolReads DEF LienOf
<1>4. /\ c.position[u].principal \in Nat /\ c.position[u].settled \in Nat /\ c.position[u].since \in Nat
      /\ c.position[u].since <= c.now
  BY DEF ChainOK, ChainType, NeverAhead
<1>5. AccruedYield(c, u) \in Nat
  <2>1. c.now - c.position[u].since \in Nat /\ YieldRate \in Nat /\ WAD \in Nat /\ WAD > 0
    BY <1>1, <1>4, RatesAreShares, ScalesAreUnits
  <2>2. YieldRate * (c.now - c.position[u].since) \in Nat
    BY <2>1
  <2> QED BY <1>4, <2>1, <2>2, MulDivIsNat DEF AccruedYield
<1>6. TotalLedgerValue(c, u) \in Nat
  BY <1>4, <1>5 DEF TotalLedgerValue
<1>7. CollateralValue(c, u) \in Nat
  BY <1>2, <1>6, LowerIsEither DEF CollateralValue
<1> QED BY <1>1, <1>2, <1>3, <1>4, <1>5, <1>6, <1>7

\* Money moves between the pool and wallets; nothing else does.
MoneyMoves(c, pool, wallet) == [c EXCEPT !.pool = pool, !.wallet = wallet]
LEMMA MoneyKeepsChain ==
  ASSUME NEW c, ChainOK(c), NEW pool, PoolOK(pool), pool.accruedAt <= c.now, NEW wallet \in [Users -> Nat]
  PROVE  /\ ChainOK(MoneyMoves(c, pool, wallet))
         /\ MoneyMoves(c, pool, wallet).pool = pool
         /\ MoneyMoves(c, pool, wallet).wallet = wallet
         /\ MoneyMoves(c, pool, wallet).now = c.now
         /\ MoneyMoves(c, pool, wallet).stock = c.stock
         /\ MoneyMoves(c, pool, wallet).stockWallet = c.stockWallet
<1> DEFINE d == MoneyMoves(c, pool, wallet)
<1>1. d \in ChainType
  BY DEF MoneyMoves, ChainOK, ChainType, PoolOK
<1>2. /\ d.pool = pool /\ d.wallet = wallet /\ d.position = c.position /\ d.shares = c.shares /\ d.now = c.now
      /\ d.stock = c.stock /\ d.stockWallet = c.stockWallet
  BY DEF MoneyMoves, ChainOK, ChainType
<1> HIDE DEF d
<1>3. TotalsAreSums(d.pool) /\ NeverAhead(d) /\ LedgerLasts(d)
  BY <1>2 DEF ChainOK, NeverAhead, LedgerLasts, PoolOK
<1> QED BY <1>1, <1>2, <1>3 DEF ChainOK, d

\* Allowances, collateral, prices and the pause are the vaults' alone: no books depend on them.
LEMMA OthersKeepChain ==
  ASSUME NEW c, ChainOK(c), NEW d \in ChainType,
         d.pool = c.pool, d.position = c.position, d.shares = c.shares, d.now = c.now
  PROVE  ChainOK(d)
BY DEF ChainOK, NeverAhead, LedgerLasts

LEMMA AccruedKeepsChain ==
  ASSUME NEW c, ChainOK(c)
  PROVE  /\ ChainOK(Accrued(c))
         /\ Accrued(c).pool = Accrue(c.pool, c.now)
         /\ Accrued(c).wallet = c.wallet /\ Accrued(c).shares = c.shares /\ Accrued(c).position = c.position
         /\ Accrued(c).now = c.now /\ Accrued(c).pool.accruedAt = c.now
         /\ Accrued(c).stock = c.stock /\ Accrued(c).stockWallet = c.stockWallet
         /\ Accrued(c).feed = c.feed /\ Accrued(c).allowed = c.allowed
<1> DEFINE d == Accrued(c)
           pool == Accrue(c.pool, c.now)
<1>1. PoolOK(pool) /\ pool.accruedAt = c.now /\ c.now \in Nat
  BY ChainReads, UsersAreTwo, AccrueKeepsBooks
<1> HIDE DEF pool
<1>2. d = [c EXCEPT !.pool = pool]
  BY DEF Accrued, pool
<1> HIDE DEF d
<1>3. d \in ChainType
  BY <1>1, <1>2 DEF ChainOK, ChainType, PoolOK
<1>4. /\ d.pool = pool /\ d.position = c.position /\ d.shares = c.shares /\ d.now = c.now /\ d.wallet = c.wallet
      /\ d.stock = c.stock /\ d.stockWallet = c.stockWallet /\ d.feed = c.feed /\ d.allowed = c.allowed
  BY <1>2 DEF ChainOK, ChainType
<1>5. TotalsAreSums(d.pool) /\ NeverAhead(d) /\ LedgerLasts(d)
  BY <1>1, <1>4 DEF ChainOK, NeverAhead, LedgerLasts, PoolOK
<1> QED BY <1>1, <1>3, <1>4, <1>5 DEF ChainOK, d, pool

\* Banking the yield neither creates nor ends a position.
LEMMA SettleKeepsChain ==
  ASSUME NEW c, ChainOK(c), NEW u \in Users
  PROVE  /\ ChainOK(Settle(c, u))
         /\ Settle(c, u).pool = c.pool /\ Settle(c, u).wallet = c.wallet /\ Settle(c, u).shares = c.shares
         /\ Settle(c, u).now = c.now /\ Settle(c, u).allowed = c.allowed
<1> DEFINE d == Settle(c, u)
           old == c.position[u]
           new == [old EXCEPT !.settled = old.settled + AccruedYield(c, u), !.since = c.now]
           position == [c.position EXCEPT ![u] = new]
<1>1. old \in [principal : Nat, settled : Nat, since : Nat] /\ c.now \in Nat /\ AccruedYield(c, u) \in Nat
  BY ChainReads DEF ChainOK, ChainType
<1>2. new \in [principal : Nat, settled : Nat, since : Nat] /\ new.principal = old.principal /\ new.since = c.now
      /\ new.settled = old.settled + AccruedYield(c, u)
  <2>1. old.settled + AccruedYield(c, u) \in Nat
    BY <1>1
  <2> QED BY <1>1, <2>1
<1>3. d = [c EXCEPT !.position = position]
  BY DEF Settle
<1>4. old.principal = 0 => AccruedYield(c, u) = 0
  <2>1. c.now - old.since \in Nat /\ YieldRate \in Nat /\ WAD \in Nat /\ WAD > 0
    BY <1>1, RatesAreShares, ScalesAreUnits DEF ChainOK, NeverAhead
  <2>2. YieldRate * (c.now - old.since) \in Nat
    BY <2>1
  <2> QED BY <2>1, <2>2, MulDivOfNothing DEF AccruedYield
<1> HIDE DEF d, new
<1>5. /\ position \in [Users -> [principal : Nat, settled : Nat, since : Nat]]
      /\ position[u] = new /\ \A x \in Users : x # u => position[x] = c.position[x]
  BY <1>2 DEF ChainOK, ChainType
<1> HIDE DEF position
<1>6. d \in ChainType
  BY <1>3, <1>5 DEF ChainOK, ChainType
<1>7. /\ d.pool = c.pool /\ d.position = position /\ d.shares = c.shares /\ d.now = c.now
      /\ d.wallet = c.wallet /\ d.allowed = c.allowed
  BY <1>3 DEF ChainOK, ChainType
<1>8. NeverAhead(d)
  BY <1>1, <1>2, <1>5, <1>7 DEF ChainOK, NeverAhead
<1>9. LedgerLasts(d)
  <2> SUFFICES ASSUME NEW x \in Users
               PROVE  IF d.shares[x] = 0 THEN d.position[x].principal = 0 /\ d.position[x].settled = 0
                                         ELSE d.position[x].principal >= d.shares[x]
    BY DEF LedgerLasts
  <2>1. CASE x # u
    BY <1>5, <1>7, <2>1 DEF ChainOK, LedgerLasts
  <2>2. CASE x = u
    <3>1. IF c.shares[u] = 0 THEN old.principal = 0 /\ old.settled = 0 ELSE old.principal >= c.shares[u]
      BY DEF ChainOK, LedgerLasts
    <3> QED BY <1>2, <1>4, <1>5, <1>7, <2>2, <3>1
  <2> QED BY <2>1, <2>2
<1> QED BY <1>6, <1>7, <1>8, <1>9 DEF ChainOK, d

\* The ledger shrinks with the shares, and is empty with the last of them only.
LEMMA BurnKeepsChain ==
  ASSUME NEW c, ChainOK(c), NEW u \in Users, NEW n \in Nat, n <= c.shares[u]
  PROVE  /\ ChainOK(Burn(c, u, n))
         /\ Burn(c, u, n).pool = c.pool /\ Burn(c, u, n).wallet = c.wallet
         /\ Burn(c, u, n).now = c.now
<1> DEFINE d == Burn(c, u, n)
           held == c.shares[u]
           old == c.position[u]
           new == IF n >= held THEN [old EXCEPT !.principal = 0, !.settled = 0]
                  ELSE [old EXCEPT !.principal = old.principal - MulDiv(old.principal, n, held),
                                   !.settled = old.settled - MulDiv(old.settled, n, held)]
           shares == [c.shares EXCEPT ![u] = held - n]
           position == [c.position EXCEPT ![u] = new]
<1>1. /\ old \in [principal : Nat, settled : Nat, since : Nat]
      /\ held \in Nat /\ held - n \in Nat /\ old.since <= c.now
  BY ChainReads DEF ChainOK, ChainType, NeverAhead
<1>2. IF held = 0 THEN old.principal = 0 /\ old.settled = 0 ELSE old.principal >= held
  BY DEF ChainOK, LedgerLasts
<1>3. d = [c EXCEPT !.shares = shares, !.position = position]
  BY DEF Burn
<1>4. /\ new \in [principal : Nat, settled : Nat, since : Nat] /\ new.since = old.since
      /\ IF held - n = 0 THEN new.principal = 0 /\ new.settled = 0 ELSE new.principal >= held - n
  <2>1. CASE n >= held
    <3>1. held - n = 0
      BY <1>1, <2>1
    <3>2. new = [old EXCEPT !.principal = 0, !.settled = 0]
      BY <2>1
    <3> HIDE DEF new
    <3> QED BY <1>1, <3>1, <3>2
  <2>2. CASE n < held
    <3>1. /\ MulDiv(old.principal, n, held) \in Nat /\ MulDiv(old.settled, n, held) \in Nat
          /\ old.principal - MulDiv(old.principal, n, held) >= held - n /\ MulDiv(old.settled, n, held) <= old.settled
      <4>1. /\ old.principal \in Nat /\ old.settled \in Nat /\ held > 0 /\ old.principal >= held /\ n <= held
        BY <1>1, <1>2, <2>2
      <4> HIDE DEF old, held
      <4> QED BY <2>2, <1>1, <4>1, MulDivIsNat, MulDivOfPart, PartLeavesRest
    <3> DEFINE principal == old.principal - MulDiv(old.principal, n, held)
               settled == old.settled - MulDiv(old.settled, n, held)
    <3>2. principal \in Nat /\ principal >= held - n /\ settled \in Nat
      BY <1>1, <3>1
    <3>3. new = [old EXCEPT !.principal = principal, !.settled = settled] /\ held - n # 0
      BY <1>1, <2>2
    <3> HIDE DEF principal, settled, new
    <3> QED BY <1>1, <3>2, <3>3
  <2> QED BY <1>1, <2>1, <2>2
<1> HIDE DEF d, new
<1>5. /\ position \in [Users -> [principal : Nat, settled : Nat, since : Nat]]
      /\ position[u] = new /\ \A x \in Users : x # u => position[x] = c.position[x]
  BY <1>4 DEF ChainOK, ChainType
<1>6. shares \in [Users -> Nat] /\ shares[u] = held - n /\ \A x \in Users : x # u => shares[x] = c.shares[x]
  BY <1>1 DEF ChainOK, ChainType
<1> HIDE DEF position, shares
<1>7. d \in ChainType
  BY <1>3, <1>5, <1>6 DEF ChainOK, ChainType
<1>8. /\ d.pool = c.pool /\ d.position = position /\ d.shares = shares /\ d.now = c.now /\ d.wallet = c.wallet
  BY <1>3 DEF ChainOK, ChainType
<1>9. NeverAhead(d)
  BY <1>1, <1>4, <1>5, <1>8 DEF ChainOK, NeverAhead
<1>10. LedgerLasts(d)
  <2> SUFFICES ASSUME NEW x \in Users
               PROVE  IF d.shares[x] = 0 THEN d.position[x].principal = 0 /\ d.position[x].settled = 0
                                         ELSE d.position[x].principal >= d.shares[x]
    BY DEF LedgerLasts
  <2>1. CASE x # u
    BY <1>5, <1>6, <1>8, <2>1 DEF ChainOK, LedgerLasts
  <2>2. CASE x = u
    BY <1>4, <1>5, <1>6, <1>8, <2>2
  <2> QED BY <2>1, <2>2
<1> QED BY <1>7, <1>8, <1>9, <1>10 DEF ChainOK, d

-----------------------------------------------------------------------------
(* What the vaults do, each call on a chain in order. *)

LEMMA PullKeepsChain ==
  ASSUME NEW c, ChainOK(c), NEW u \in Users, NEW s \in Spenders, NEW a \in Nat, CanPull(c, u, s, a)
  PROVE  /\ ChainOK(Pull(c, u, s, a))
         /\ Pull(c, u, s, a).pool = c.pool /\ Pull(c, u, s, a).now = c.now
         /\ Pull(c, u, s, a).wallet = [c.wallet EXCEPT ![u] = c.wallet[u] - a]
<1> DEFINE d == Pull(c, u, s, a)
           wallet == [c.wallet EXCEPT ![u] = c.wallet[u] - a]
           allowed == [c.allowed EXCEPT ![u][s] = c.allowed[u][s] - a]
<1>1. c.wallet \in [Users -> Nat] /\ c.allowed \in [Users -> [Spenders -> Nat]]
  BY DEF ChainOK, ChainType
<1>2. c.wallet[u] - a \in Nat /\ c.allowed[u][s] - a \in Nat
  BY <1>1 DEF CanPull
<1>3. wallet \in [Users -> Nat] /\ allowed \in [Users -> [Spenders -> Nat]]
  BY <1>1, <1>2
<1>4. d = [c EXCEPT !.wallet = wallet, !.allowed = allowed]
  BY DEF Pull
<1> HIDE DEF d, wallet, allowed
<1>5. d \in ChainType
  BY <1>3, <1>4 DEF ChainOK, ChainType
<1>6. d.pool = c.pool /\ d.position = c.position /\ d.shares = c.shares /\ d.now = c.now /\ d.wallet = wallet
  BY <1>4 DEF ChainOK, ChainType
<1> QED BY <1>5, <1>6, OthersKeepChain DEF d, wallet

LEMMA DepositKeepsChain ==
  ASSUME NEW c, ChainOK(c), NEW u \in Users, NEW a \in Nat, a > 0, CanPull(c, u, "vault", a)
  PROVE  /\ ChainOK(Deposit(c, u, a))
         /\ Deposit(c, u, a).pool = c.pool /\ Deposit(c, u, a).now = c.now
<1>1. PICK b : b = Settle(c, u)
  OBVIOUS
<1>2. PICK e : e = Pull(b, u, "vault", a)
  OBVIOUS
<1>3. ChainOK(e) /\ e.pool = c.pool /\ e.now = c.now
  <2>1. ChainOK(b) /\ b.pool = c.pool /\ b.now = c.now /\ b.wallet = c.wallet /\ b.allowed = c.allowed
    BY <1>1, SettleKeepsChain
  <2>2. ChainOK(b) /\ CanPull(b, u, "vault", a) /\ "vault" \in Spenders
    BY <2>1 DEF CanPull, Spenders
  <2>3. /\ ChainOK(e) /\ e.pool = b.pool /\ e.now = b.now
        /\ e.wallet = [b.wallet EXCEPT ![u] = b.wallet[u] - a]
    BY <1>2, <2>2, PullKeepsChain
  <2> QED BY <2>1, <2>3
<1> DEFINE d == Deposit(c, u, a)
           old == e.position[u]
           new == [old EXCEPT !.principal = old.principal + a]
           shares == [e.shares EXCEPT ![u] = e.shares[u] + a]
           position == [e.position EXCEPT ![u] = new]
<1>4. /\ old \in [principal : Nat, settled : Nat, since : Nat] /\ old.since <= e.now
      /\ e.shares \in [Users -> Nat] /\ e.shares[u] \in Nat
      /\ e.position \in [Users -> [principal : Nat, settled : Nat, since : Nat]]
  BY <1>3 DEF ChainOK, ChainType, NeverAhead
<1>5. old.principal + a \in Nat /\ old.principal + a > 0 /\ e.shares[u] + a \in Nat /\ e.shares[u] + a # 0
  BY <1>4
<1>6. d = [e EXCEPT !.shares = shares, !.position = position]
  BY <1>1, <1>2 DEF Deposit
<1>7. new \in [principal : Nat, settled : Nat, since : Nat] /\ new.since = old.since
      /\ new.principal >= e.shares[u] + a
  <2>1. old.principal >= e.shares[u]
    BY <1>3, <1>4 DEF ChainOK, LedgerLasts
  <2> QED BY <1>4, <1>5, <2>1
<1> HIDE DEF d, new
<1>8. /\ position \in [Users -> [principal : Nat, settled : Nat, since : Nat]]
      /\ position[u] = new /\ \A x \in Users : x # u => position[x] = e.position[x]
  BY <1>4, <1>7
<1>9. shares \in [Users -> Nat] /\ shares[u] # 0 /\ shares[u] = e.shares[u] + a /\ \A x \in Users : x # u => shares[x] = e.shares[x]
  BY <1>4, <1>5
<1> HIDE DEF position, shares
<1>10. d \in ChainType
  BY <1>3, <1>6, <1>8, <1>9 DEF ChainOK, ChainType
<1>11. d.pool = e.pool /\ d.position = position /\ d.shares = shares /\ d.now = e.now
  BY <1>3, <1>6 DEF ChainOK, ChainType
<1>12. NeverAhead(d)
  BY <1>3, <1>4, <1>7, <1>8, <1>11 DEF ChainOK, NeverAhead
<1>13. LedgerLasts(d)
  <2> SUFFICES ASSUME NEW x \in Users
               PROVE  IF d.shares[x] = 0 THEN d.position[x].principal = 0 /\ d.position[x].settled = 0
                                         ELSE d.position[x].principal >= d.shares[x]
    BY DEF LedgerLasts
  <2>1. CASE x # u
    BY <1>3, <1>8, <1>9, <1>11, <2>1 DEF ChainOK, LedgerLasts
  <2>2. CASE x = u
    BY <1>7, <1>8, <1>9, <1>11, <2>2
  <2> QED BY <2>1, <2>2
<1> QED BY <1>3, <1>10, <1>11, <1>12, <1>13 DEF ChainOK, d

LEMMA VaultWithdrawKeepsChain ==
  ASSUME NEW c, ChainOK(c), NEW u \in Users, NEW a \in Nat, CanVaultWithdraw(c, u, a)
  PROVE  ChainOK(VaultWithdraw(c, u, a))
<1>1. PICK b : b = IF LienOf(c, u) > 0 THEN Accrued(c) ELSE c
  OBVIOUS
<1>2. PICK d : d = Burn(Settle(b, u), u, a)
  OBVIOUS
<1>3. ChainOK(b) /\ b.shares = c.shares
  BY <1>1, AccruedKeepsChain
<1>4. ChainOK(d) /\ d.pool = b.pool
  <2>1. ChainOK(Settle(b, u)) /\ Settle(b, u).shares = b.shares /\ Settle(b, u).pool = b.pool
    BY <1>3, SettleKeepsChain
  <2>2. a <= Settle(b, u).shares[u]
    BY <1>3, <2>1 DEF CanVaultWithdraw
  <2> QED BY <1>2, <2>1, <2>2, BurnKeepsChain
<1> DEFINE lien == LienOf(d, u)
           pool == IF lien > 0 THEN Repay(d.pool, u, lien) ELSE d.pool
           wallet == [d.wallet EXCEPT ![u] = d.wallet[u] + (a - lien)]
\* The lien repaid is the one the guard compared the exit with.
<1>5. lien \in Nat /\ lien <= a
  <2>1. lien = LienOf(b, u) /\ lien \in Nat
    BY <1>4, ChainReads DEF LienOf
  <2>2. CASE LienOf(c, u) > 0
    <3>1. lien = LienOf(Accrued(c), u)
      BY <1>1, <2>1, <2>2
    <3> QED BY <2>1, <3>1 DEF CanVaultWithdraw
  <2>3. CASE ~(LienOf(c, u) > 0)
    <3>1. LienOf(c, u) \in Nat /\ lien = LienOf(c, u)
      BY <1>1, <2>1, <2>3, ChainReads
    <3> QED BY <2>1, <2>3, <3>1
  <2> QED BY <2>2, <2>3
<1>6. VaultWithdraw(c, u, a) = MoneyMoves(d, pool, wallet)
  BY <1>1, <1>2, <1>4 DEF VaultWithdraw, MoneyMoves, ChainOK, ChainType
<1> HIDE DEF lien
<1>7. PoolOK(pool) /\ pool.accruedAt <= d.now
  BY <1>4, <1>5, ChainReads, RepayKeepsBooks
<1>8. wallet \in [Users -> Nat]
  <2>1. d.wallet \in [Users -> Nat] /\ d.wallet[u] + (a - lien) \in Nat
    <3>1. d.wallet \in [Users -> Nat] /\ d.wallet[u] \in Nat
      BY <1>4, ChainReads
    <3> QED BY <1>5, <3>1
  <2> QED BY <2>1
<1> HIDE DEF pool, wallet
<1> QED BY <1>4, <1>6, <1>7, <1>8, MoneyKeepsChain

LEMMA VaultBorrowKeepsChain ==
  ASSUME NEW c, ChainOK(c), NEW u \in Users, NEW a \in Nat, CanBorrow(Accrued(Settle(c, u)).pool, a)
  PROVE  ChainOK(VaultBorrow(c, u, a)) /\ VaultBorrow(c, u, a).now = c.now
<1>1. PICK d : d = Accrued(Settle(c, u))
  OBVIOUS
<1>2. ChainOK(d) /\ d.now = c.now
  BY <1>1, SettleKeepsChain, AccruedKeepsChain
<1> DEFINE pool == Borrow(d.pool, u, a)
           wallet == [d.wallet EXCEPT ![u] = d.wallet[u] + a]
<1>3. VaultBorrow(c, u, a) = MoneyMoves(d, pool, wallet)
  BY <1>1 DEF VaultBorrow, MoneyMoves
<1>4. PoolOK(pool) /\ pool.accruedAt <= d.now
  <2>1. CanBorrow(d.pool, a)
    BY <1>1
  <2> QED BY <1>2, <2>1, ChainReads, BorrowKeepsBooks
<1>5. wallet \in [Users -> Nat]
  <2>1. d.wallet \in [Users -> Nat] /\ d.wallet[u] \in Nat
    BY <1>2, ChainReads
  <2>2. d.wallet[u] + a \in Nat
    BY <2>1
  <2> QED BY <2>1, <2>2
<1> HIDE DEF pool, wallet
<1> QED BY <1>2, <1>3, <1>4, <1>5, MoneyKeepsChain

LEMMA LoanRepayKeepsChain ==
  ASSUME NEW c, ChainOK(c), NEW u \in Users, NEW a \in Nat, CanLoanRepay(c, u, a)
  PROVE  ChainOK(LoanRepay(c, u, a))
<1>1. PICK b : b = Accrued(c)
  OBVIOUS
<1>2. PICK due : due = Due(c, u, a)
  OBVIOUS
<1>3. ChainOK(b) /\ b.wallet = c.wallet /\ b.allowed = c.allowed
  BY <1>1, AccruedKeepsChain
<1>4. due \in Nat
  <2>1. LienOf(b, u) \in Nat
    BY <1>3, ChainReads
  <2> QED BY <1>1, <1>2, <2>1, LowerIsEither DEF Due
<1>5. PICK d : d = Pull(b, u, "vault", due)
  OBVIOUS
<1>6. ChainOK(d)
  <2>1. CanPull(b, u, "vault", due) /\ "vault" \in Spenders
    BY <1>2, <1>3 DEF CanLoanRepay, CanPull, Spenders
  <2> QED BY <1>3, <1>4, <1>5, <2>1, PullKeepsChain
<1> DEFINE pool == Repay(d.pool, u, due)
<1>7. LoanRepay(c, u, a) = MoneyMoves(d, pool, d.wallet)
  <2>1. LoanRepay(c, u, a) = [d EXCEPT !.pool = pool]
    BY <1>1, <1>2, <1>5 DEF LoanRepay
  <2> HIDE DEF pool
  <2> QED BY <1>6, <2>1 DEF MoneyMoves, ChainOK, ChainType
<1>8. PoolOK(pool) /\ pool.accruedAt <= d.now
  BY <1>4, <1>6, ChainReads, RepayKeepsBooks
<1>9. d.wallet \in [Users -> Nat]
  BY <1>6, ChainReads
<1> HIDE DEF pool
<1> QED BY <1>6, <1>7, <1>8, <1>9, MoneyKeepsChain

LEMMA MaxRepayIsNat ==
  ASSUME NEW c, ChainOK(c), NEW u \in Users
  PROVE  /\ MaxRepay(c, u) \in Nat /\ Seized(c, u) \in Nat /\ Seized(c, u) <= c.shares[u]
         /\ StockMaxRepay(c, u) \in Nat /\ StockFee(c, u) \in Nat
<1>1. ChainOK(Accrued(c)) /\ ChainOK(Accrued(Settle(c, u)))
  BY SettleKeepsChain, AccruedKeepsChain
<1>2. LienOf(Accrued(c), u) \in Nat /\ LienOf(Accrued(Settle(c, u)), u) \in Nat /\ c.shares[u] \in Nat
  BY <1>1, ChainReads
<1>3. WAD \in Nat /\ WAD > 0 /\ CloseFactor \in Nat /\ LiquidationBonus \in Nat /\ ProtocolShare \in Nat
  BY ScalesAreUnits, RatesAreShares
<1>4. \A hf : EffectiveCloseFactor(hf) \in Nat
  BY <1>3 DEF EffectiveCloseFactor
<1>5. MaxRepay(c, u) \in Nat
  BY <1>2, <1>3, <1>4, MulDivIsNat DEF MaxRepay
<1>6. StockMaxRepay(c, u) \in Nat
  BY <1>2, <1>3, <1>4, MulDivIsNat DEF StockMaxRepay
<1>7. Seized(c, u) \in Nat /\ Seized(c, u) <= c.shares[u]
  <2>1. MulDiv(MaxRepay(c, u), LiquidationBonus, WAD) \in Nat
    BY <1>3, <1>5, MulDivIsNat
  <2>2. MaxRepay(c, u) + MulDiv(MaxRepay(c, u), LiquidationBonus, WAD) \in Nat
    BY <1>5, <2>1
  <2> QED BY <1>2, <2>2, LowerIsEither DEF Seized
<1>8. StockFee(c, u) \in Nat
  <2>1. LiquidationBonus * ProtocolShare \in Nat /\ WAD * WAD \in Nat /\ WAD * WAD > 0
    BY <1>3
  <2> QED BY <1>6, <2>1, MulDivIsNat DEF StockFee
<1> QED BY <1>5, <1>6, <1>7, <1>8

LEMMA LiquidateKeepsChain ==
  ASSUME NEW c, ChainOK(c), NEW by \in Users, NEW u \in Users, CanLiquidate(c, by, u)
  PROVE  ChainOK(Liquidate(c, by, u))
<1>1. PICK b : b = Accrued(Settle(c, u))
  OBVIOUS
<1>2. PICK repay : repay = MaxRepay(c, u)
  OBVIOUS
<1>3. PICK seized : seized = Seized(c, u)
  OBVIOUS
<1>4. ChainOK(b) /\ b.shares = c.shares /\ b.wallet = c.wallet
  BY <1>1, SettleKeepsChain, AccruedKeepsChain
<1>5. repay \in Nat /\ seized \in Nat /\ seized <= c.shares[u]
  BY <1>2, <1>3, MaxRepayIsNat
<1>6. PICK d : d = Burn(b, u, seized)
  OBVIOUS
<1>7. ChainOK(d) /\ d.wallet = c.wallet
  BY <1>4, <1>5, <1>6, BurnKeepsChain
<1> DEFINE pool == Repay(d.pool, u, repay)
           wallet == [d.wallet EXCEPT ![by] = (d.wallet[by] - repay) + seized]
<1>8. Liquidate(c, by, u) = MoneyMoves(d, pool, wallet)
  BY <1>1, <1>2, <1>3, <1>6 DEF Liquidate, MoneyMoves
<1>9. PoolOK(pool) /\ pool.accruedAt <= d.now
  BY <1>5, <1>7, ChainReads, RepayKeepsBooks
<1>10. wallet \in [Users -> Nat]
  <2>1. d.wallet \in [Users -> Nat] /\ d.wallet[by] \in Nat /\ repay <= d.wallet[by]
    BY <1>2, <1>7, ChainReads DEF CanLiquidate
  <2>2. (d.wallet[by] - repay) + seized \in Nat
    BY <1>5, <2>1
  <2> QED BY <2>1, <2>2
<1> HIDE DEF pool, wallet
<1> QED BY <1>7, <1>8, <1>9, <1>10, MoneyKeepsChain

LEMMA WriteOffKeepsChain ==
  ASSUME NEW c, ChainOK(c), NEW u \in Users
  PROVE  ChainOK(WriteOff(c, u))
<1>1. PICK b : b = Accrued(Settle(c, u))
  OBVIOUS
<1>2. ChainOK(b) /\ b.shares[u] \in Nat
  BY <1>1, SettleKeepsChain, AccruedKeepsChain, ChainReads
<1>3. PICK d : d = Burn(b, u, b.shares[u])
  OBVIOUS
<1>4. ChainOK(d) /\ d.pool = b.pool
  BY <1>2, <1>3, BurnKeepsChain
<1> DEFINE repaid == IF b.shares[u] > 0 THEN Repay(b.pool, u, b.shares[u]) ELSE b.pool
           pool == Absorb(repaid, u)
<1>5. WriteOff(c, u) = MoneyMoves(d, pool, d.wallet)
  <2>1. WriteOff(c, u) = [d EXCEPT !.pool = pool]
    BY <1>1, <1>3 DEF WriteOff
  <2> HIDE DEF pool
  <2> QED BY <1>4, <2>1 DEF MoneyMoves, ChainOK, ChainType
<1>6. PoolOK(repaid) /\ repaid.accruedAt = d.pool.accruedAt
  <2>1. PoolOK(b.pool)
    BY <1>2, ChainReads
  <2>2. CASE b.shares[u] > 0
    <3>1. PoolOK(Repay(b.pool, u, b.shares[u])) /\ Repay(b.pool, u, b.shares[u]).accruedAt = b.pool.accruedAt
      BY <1>2, <2>1, <2>2, RepayKeepsBooks
    <3> QED BY <1>4, <2>2, <3>1
  <2>3. CASE ~(b.shares[u] > 0)
    BY <1>4, <2>1, <2>3
  <2> QED BY <2>2, <2>3
<1> HIDE DEF repaid
<1>7. PoolOK(pool) /\ pool.accruedAt <= d.now
  BY <1>4, <1>6, ChainReads, AbsorbKeepsBooks
<1>8. d.wallet \in [Users -> Nat]
  BY <1>4, ChainReads
<1> HIDE DEF pool
<1> QED BY <1>4, <1>5, <1>7, <1>8, MoneyKeepsChain

\* A round's proceeds repay what they can of the lien as accrued; the rest is the holder's.
LEMMA ProceedsKeepChain ==
  ASSUME NEW c, ChainOK(c), NEW u \in Users, NEW a \in Nat
  PROVE  LET d == Accrued(c)
             e == OnPositionSettled(c, u, a)
             repaid == Lower(a, LienOf(d, u)) IN
         /\ ChainOK(e)
         /\ repaid \in Nat /\ repaid <= LienOf(d, u)
         /\ e.wallet[u] = d.wallet[u] + (a - repaid) /\ d.wallet[u] \in Nat
         /\ a >= LienOf(d, u) => LienOf(e, u) = 0
<1>1. PICK d : d = Accrued(c)
  OBVIOUS
<1>2. PICK lien : lien = LienOf(d, u)
  OBVIOUS
<1>3. PICK repaid : repaid = Lower(a, lien)
  OBVIOUS
<1>4. PICK e : e = OnPositionSettled(c, u, a)
  OBVIOUS
<1>5. ChainOK(d)
  BY <1>1, AccruedKeepsChain
<1>6. lien \in Nat /\ repaid \in Nat /\ repaid <= lien /\ repaid <= a /\ (a >= lien => repaid = lien)
  <2>1. lien \in Nat
    BY <1>2, <1>5, ChainReads
  <2> QED BY <1>3, <2>1 DEF Lower
<1> DEFINE pool == IF repaid > 0 THEN Repay(d.pool, u, repaid) ELSE d.pool
           wallet == [d.wallet EXCEPT ![u] = d.wallet[u] + (a - repaid)]
<1>7. e = MoneyMoves(d, pool, wallet)
  BY <1>1, <1>2, <1>3, <1>4 DEF OnPositionSettled, MoneyMoves
<1>8. PoolOK(pool) /\ pool.accruedAt <= d.now
  BY <1>5, <1>6, ChainReads, RepayKeepsBooks
<1>9. d.wallet[u] \in Nat /\ wallet \in [Users -> Nat] /\ wallet[u] = d.wallet[u] + (a - repaid)
  <2>1. d.wallet \in [Users -> Nat] /\ d.wallet[u] \in Nat
    BY <1>5, ChainReads
  <2>2. d.wallet[u] + (a - repaid) \in Nat
    BY <1>6, <2>1
  <2> QED BY <2>1, <2>2
<1>10. a >= lien => BalanceOfDebt(pool, u) = 0
  <2>1. CASE repaid > 0
    <3>1. pool = Repay(d.pool, u, repaid)
      BY <2>1
    <3>2. ASSUME a >= lien PROVE pool.debt[u] = 0
      <4>1. repaid = BalanceOfDebt(d.pool, u)
        BY <1>2, <1>6, <3>2 DEF LienOf
      <4> HIDE DEF pool
      <4> QED BY <1>5, <1>6, <3>1, <4>1, ChainReads, RepayKeepsBooks
    <3>3. pool.borrowIndex \in Nat /\ RAY \in Nat /\ RAY > 0
      BY <1>8, ScalesAreUnits DEF PoolOK, PoolType
    <3> QED BY <3>2, <3>3, MulDivOfNothing DEF BalanceOfDebt
  <2>2. CASE ~(repaid > 0)
    BY <1>2, <1>6, <2>2 DEF LienOf
  <2> QED BY <2>1, <2>2
<1> HIDE DEF pool, wallet
<1>11. ChainOK(e) /\ e.pool = pool /\ e.wallet = wallet
  BY <1>5, <1>7, <1>8, <1>9, MoneyKeepsChain
<1>12. a >= lien => LienOf(e, u) = 0
  BY <1>10, <1>11 DEF LienOf
<1> QED BY <1>1, <1>2, <1>3, <1>4, <1>6, <1>9, <1>11, <1>12

-----------------------------------------------------------------------------
(* The stock vault. *)

\* Collateral changes hands; the books are not concerned.
StockMoves(c, stock, stockWallet) == [c EXCEPT !.stock = stock, !.stockWallet = stockWallet]
LEMMA StockKeepsChain ==
  ASSUME NEW c, ChainOK(c), NEW stock \in StockType, NEW stockWallet \in StockType
  PROVE  ChainOK(StockMoves(c, stock, stockWallet))
<1> DEFINE d == StockMoves(c, stock, stockWallet)
<1>1. d \in ChainType
  BY DEF StockMoves, ChainOK, ChainType
<1>2. d.pool = c.pool /\ d.position = c.position /\ d.shares = c.shares /\ d.now = c.now
  BY DEF StockMoves, ChainOK, ChainType
<1> HIDE DEF d
<1> QED BY <1>1, <1>2, OthersKeepChain DEF d

LEMMA ValuesAreNat ==
  ASSUME NEW c, ChainOK(c), NEW u \in Users
  PROVE  /\ \A t \in Tokens, a \in Nat : ValueOf(c, t, a) \in Nat
         /\ StockValue(c, u) \in Nat
         /\ SalePrice(c, u) \in Nat
<1>1. /\ TokenUnit * FeedScale \in Nat /\ TokenUnit * FeedScale > 0
      /\ WAD \in Nat /\ WAD + LiquidationBonus \in Nat /\ WAD + LiquidationBonus > 0
  BY TokensAreListed, ScalesAreUnits, RatesAreShares
<1>2. ASSUME NEW t \in Tokens, NEW a \in Nat PROVE ValueOf(c, t, a) \in Nat
  <2>1. c.feed[t].price \in Nat
    BY DEF ChainOK, ChainType
  <2> QED BY <1>1, <2>1, MulDivIsNat DEF ValueOf
<1>3. StockValue(c, u) \in Nat
  <2> DEFINE worth == [t \in Held(c, u) |-> ValueOf(c, t, c.stock[u][t])]
  <2>1. IsFiniteSet(Held(c, u))
    BY TokensAreListed, FS_Subset DEF Held
  <2>2. \A t \in Held(c, u) : worth[t] \in Nat
    <3>1. \A t \in Held(c, u) : t \in Tokens /\ c.stock[u][t] \in Nat
      BY DEF Held, ChainOK, ChainType, StockType
    <3> QED BY <1>2, <3>1
  <2>3. DOMAIN worth = Held(c, u)
    OBVIOUS
  <2>4. StockValue(c, u) = SumFunction(worth)
    BY DEF StockValue
  <2> HIDE DEF worth
  <2> QED BY <2>1, <2>2, <2>3, <2>4, SumIsNat DEF SumFunction
<1>4. SalePrice(c, u) \in Nat
  BY <1>1, <1>3, MulDivIsNat DEF SalePrice
<1> QED BY <1>2, <1>3, <1>4

LEMMA FeeIsNat ==
  ASSUME NEW a \in Nat
  PROVE  FeeOn(a) \in Nat
<1>1. WAD \in Nat /\ WAD > 0 /\ OriginationFee \in Nat
  BY ScalesAreUnits, RatesAreShares
<1> QED BY <1>1, MulDivUpIsNat DEF FeeOn

\* One account's holding of one token set.
LEMMA HoldingSet ==
  ASSUME NEW s \in StockType, NEW u \in Users, NEW t \in Tokens, NEW v \in Nat
  PROVE  [s EXCEPT ![u][t] = v] \in StockType
BY DEF StockType

LEMMA StockDepositKeepsChain ==
  ASSUME NEW c, ChainOK(c), NEW u \in Users, NEW t \in Tokens, NEW a \in Nat, CanStockDeposit(c, u, t, a)
  PROVE  ChainOK(StockDeposit(c, u, t, a))
<1> DEFINE d == StockDeposit(c, u, t, a)
           stockWallet == [c.stockWallet EXCEPT ![u][t] = c.stockWallet[u][t] - a]
           allowed == [c.allowed EXCEPT ![u][t] = c.allowed[u][t] - a]
           stock == [c.stock EXCEPT ![u][t] = c.stock[u][t] + a]
<1>1. /\ c.stockWallet \in StockType /\ c.stock \in StockType /\ c.allowed \in [Users -> [Spenders -> Nat]]
      /\ t \in Spenders
  BY DEF ChainOK, ChainType, Spenders
<1>2. c.stockWallet[u][t] \in Nat /\ c.stock[u][t] \in Nat /\ c.allowed[u][t] \in Nat
  BY <1>1 DEF StockType
<1>3. c.stockWallet[u][t] - a \in Nat /\ c.stock[u][t] + a \in Nat /\ c.allowed[u][t] - a \in Nat
  BY <1>2 DEF CanStockDeposit
<1>4. d = [c EXCEPT !.stockWallet = stockWallet, !.allowed = allowed, !.stock = stock]
  BY DEF StockDeposit
<1>5. stockWallet \in StockType /\ stock \in StockType
  BY <1>1, <1>3, HoldingSet
<1>6. allowed \in [Users -> [Spenders -> Nat]]
  BY <1>1, <1>3
<1> HIDE DEF d, stockWallet, stock, allowed
<1>7. d \in ChainType
  BY <1>4, <1>5, <1>6 DEF ChainOK, ChainType
<1>8. d.pool = c.pool /\ d.position = c.position /\ d.shares = c.shares /\ d.now = c.now
  BY <1>4 DEF ChainOK, ChainType
<1> QED BY <1>7, <1>8, OthersKeepChain DEF d

LEMMA StockWithdrawKeepsChain ==
  ASSUME NEW c, ChainOK(c), NEW u \in Users, NEW t \in Tokens, NEW a \in Nat, CanStockWithdraw(c, u, t, a)
  PROVE  ChainOK(StockWithdraw(c, u, t, a))
<1>1. PICK b : b = Accrued(c)
  OBVIOUS
<1>2. ChainOK(b) /\ b.stock = c.stock
  BY <1>1, AccruedKeepsChain
<1> DEFINE stock == [b.stock EXCEPT ![u][t] = b.stock[u][t] - a]
           stockWallet == [b.stockWallet EXCEPT ![u][t] = b.stockWallet[u][t] + a]
<1>3. b.stock \in StockType /\ b.stockWallet \in StockType
  BY <1>2 DEF ChainOK, ChainType
<1>4. b.stock[u][t] - a \in Nat /\ b.stockWallet[u][t] + a \in Nat
  <2>1. b.stock[u][t] \in Nat /\ b.stockWallet[u][t] \in Nat /\ a <= b.stock[u][t]
    BY <1>2, <1>3 DEF StockType, CanStockWithdraw
  <2> QED BY <2>1
<1>5. StockWithdraw(c, u, t, a) = StockMoves(b, stock, stockWallet)
  BY <1>1 DEF StockWithdraw, StockMoves
<1>6. stock \in StockType /\ stockWallet \in StockType
  BY <1>3, <1>4, HoldingSet
<1> HIDE DEF stock, stockWallet
<1> QED BY <1>2, <1>5, <1>6, StockKeepsChain

LEMMA StockBorrowKeepsChain ==
  ASSUME NEW c, ChainOK(c), NEW u \in Users, NEW a \in Nat, CanBorrow(Accrued(c).pool, a + FeeOn(a))
  PROVE  ChainOK(StockBorrow(c, u, a)) /\ StockBorrow(c, u, a).now = c.now
<1>1. PICK d : d = Accrued(c)
  OBVIOUS
<1>2. PICK owed : owed = a + FeeOn(a)
  OBVIOUS
<1>3. ChainOK(d) /\ d.now = c.now /\ owed \in Nat
  BY <1>1, <1>2, AccruedKeepsChain, FeeIsNat
<1> DEFINE pool == Borrow(d.pool, u, owed)
           wallet == [d.wallet EXCEPT ![u] = d.wallet[u] + a]
<1>4. StockBorrow(c, u, a) = MoneyMoves(d, pool, wallet)
  BY <1>1, <1>2 DEF StockBorrow, MoneyMoves
<1>5. PoolOK(pool) /\ pool.accruedAt <= d.now
  BY <1>1, <1>2, <1>3, ChainReads, BorrowKeepsBooks
<1>6. wallet \in [Users -> Nat]
  <2>1. d.wallet \in [Users -> Nat] /\ d.wallet[u] \in Nat
    BY <1>3, ChainReads
  <2>2. d.wallet[u] + a \in Nat
    BY <2>1
  <2> QED BY <2>1, <2>2
<1> HIDE DEF pool, wallet
<1> QED BY <1>3, <1>4, <1>5, <1>6, MoneyKeepsChain

LEMMA StockLiquidateKeepsChain ==
  ASSUME NEW c, ChainOK(c), NEW by \in Users, NEW u \in Users, NEW t \in Tokens, CanStockLiquidate(c, by, u, t)
  PROVE  ChainOK(StockLiquidate(c, by, u, t))
<1>1. PICK d : d = Accrued(c)
  OBVIOUS
<1>2. PICK repay, fee, seized : repay = StockMaxRepay(c, u) /\ fee = StockFee(c, u) /\ seized = StockSeized(c, u, t)
  OBVIOUS
<1>3. ChainOK(d) /\ d.wallet = c.wallet /\ d.stock = c.stock /\ d.feed = c.feed
  BY <1>1, AccruedKeepsChain
<1>4. repay \in Nat /\ fee \in Nat
  BY <1>2, MaxRepayIsNat
<1>5. d.stock \in StockType /\ d.stockWallet \in StockType /\ d.stock[u][t] \in Nat /\ d.stockWallet[by][t] \in Nat
  BY <1>3 DEF ChainOK, ChainType, StockType
\* The token seized has a price: the account holds some of it.
<1>6. c.feed[t].price \in Nat /\ c.feed[t].price > 0
  <2>1. t \in Held(d, u) /\ AllPriced(d, u, LiquidationMaxAge)
    BY <1>1, <1>3 DEF CanStockLiquidate, Held
  <2>2. d.feed[t].price > 0 /\ d.feed[t].price \in Nat
    BY <1>3, <2>1 DEF AllPriced, Priced, ChainOK, ChainType
  <2> QED BY <1>3, <2>2
<1>7. seized \in Nat /\ seized <= d.stock[u][t]
  <2>1. MulDiv(repay, LiquidationBonus, WAD) \in Nat
    <3>1. WAD \in Nat /\ WAD > 0 /\ LiquidationBonus \in Nat
      BY ScalesAreUnits, RatesAreShares
    <3> QED BY <1>4, <3>1, MulDivIsNat
  <2>2. repay + MulDiv(repay, LiquidationBonus, WAD) \in Nat
    BY <1>4, <2>1
  <2>3. TokenUnit * FeedScale \in Nat
    BY TokensAreListed
  <2>4. TokensFor(c, t, repay + MulDiv(repay, LiquidationBonus, WAD)) \in Nat
    BY <1>6, <2>2, <2>3, MulDivIsNat DEF TokensFor
  <2> QED BY <1>2, <1>3, <1>5, <2>4, LowerIsEither DEF StockSeized
<1> DEFINE pool == Repay(d.pool, u, repay)
           wallet == [d.wallet EXCEPT ![by] = d.wallet[by] - repay - fee]
           stock == [d.stock EXCEPT ![u][t] = d.stock[u][t] - seized]
           stockWallet == [d.stockWallet EXCEPT ![by][t] = d.stockWallet[by][t] + seized]
<1>8. PoolOK(pool) /\ pool.accruedAt <= d.now
  BY <1>3, <1>4, ChainReads, RepayKeepsBooks
<1>9. wallet \in [Users -> Nat]
  <2>1. d.wallet \in [Users -> Nat] /\ d.wallet[by] \in Nat /\ repay + fee <= d.wallet[by]
    BY <1>2, <1>3, ChainReads DEF CanStockLiquidate
  <2>2. d.wallet[by] - repay - fee \in Nat
    BY <1>4, <2>1
  <2> QED BY <2>1, <2>2
<1>10. stock \in StockType /\ stockWallet \in StockType
  <2>1. d.stock[u][t] - seized \in Nat /\ d.stockWallet[by][t] + seized \in Nat
    BY <1>5, <1>7
  <2> QED BY <1>5, <2>1, HoldingSet
<1>11. StockLiquidate(c, by, u, t)
        = [d EXCEPT !.pool = pool, !.wallet = wallet, !.stock = stock, !.stockWallet = stockWallet]
  BY <1>1, <1>2 DEF StockLiquidate
<1> HIDE DEF pool, wallet, stock, stockWallet
<1>12. StockLiquidate(c, by, u, t) = StockMoves(MoneyMoves(d, pool, wallet), stock, stockWallet)
  BY <1>3, <1>11 DEF StockMoves, MoneyMoves, ChainOK, ChainType
<1> QED BY <1>3, <1>8, <1>9, <1>10, <1>12, MoneyKeepsChain, StockKeepsChain

LEMMA StockWriteOffKeepsChain ==
  ASSUME NEW c, ChainOK(c), NEW by \in Users, NEW u \in Users, CanStockWriteOff(c, by, u)
  PROVE  ChainOK(StockWriteOff(c, by, u))
<1>1. PICK d : d = Accrued(c)
  OBVIOUS
<1>2. PICK paid : paid = SalePrice(d, u)
  OBVIOUS
<1>3. ChainOK(d) /\ d.stock = c.stock
  BY <1>1, AccruedKeepsChain
<1>4. paid \in Nat
  BY <1>2, <1>3, ValuesAreNat
<1>5. d.stock \in StockType /\ d.stockWallet \in StockType
  BY <1>3 DEF ChainOK, ChainType
<1> DEFINE repaid == IF paid > 0 THEN Repay(d.pool, u, paid) ELSE d.pool
           pool == Absorb(repaid, u)
           wallet == [d.wallet EXCEPT ![by] = d.wallet[by] - paid]
           stock == [d.stock EXCEPT ![u] = [t \in Tokens |-> 0]]
           stockWallet == [d.stockWallet EXCEPT ![by] = [t \in Tokens |-> d.stockWallet[by][t] + d.stock[u][t]]]
<1>6. PoolOK(repaid) /\ repaid.accruedAt = d.pool.accruedAt
  BY <1>3, <1>4, ChainReads, RepayKeepsBooks
<1>7. StockWriteOff(c, by, u)
        = [d EXCEPT !.pool = pool, !.wallet = wallet, !.stock = stock, !.stockWallet = stockWallet]
  BY <1>1, <1>2, <1>3 DEF StockWriteOff
<1> HIDE DEF repaid
<1>8. PoolOK(pool) /\ pool.accruedAt <= d.now
  BY <1>3, <1>6, ChainReads, AbsorbKeepsBooks
<1>9. wallet \in [Users -> Nat]
  <2>1. d.wallet \in [Users -> Nat] /\ d.wallet[by] \in Nat /\ paid <= d.wallet[by]
    <3>1. d.wallet = c.wallet
      BY <1>1, AccruedKeepsChain
    <3> QED BY <1>1, <1>2, <1>3, <3>1, ChainReads DEF CanStockWriteOff
  <2>2. d.wallet[by] - paid \in Nat
    BY <1>4, <2>1
  <2> QED BY <2>1, <2>2
<1>10. stock \in StockType /\ stockWallet \in StockType
  <2>1. \A t \in Tokens : d.stockWallet[by][t] \in Nat /\ d.stock[u][t] \in Nat
    BY <1>5 DEF StockType
  <2>2. [t \in Tokens |-> d.stockWallet[by][t] + d.stock[u][t]] \in [Tokens -> Nat]
    BY <2>1
  <2>3. [t \in Tokens |-> 0] \in [Tokens -> Nat]
    OBVIOUS
  <2> QED BY <1>5, <2>2, <2>3 DEF StockType
<1> HIDE DEF pool, wallet, stock, stockWallet
<1>11. StockWriteOff(c, by, u) = StockMoves(MoneyMoves(d, pool, wallet), stock, stockWallet)
  BY <1>3, <1>7 DEF StockMoves, MoneyMoves, ChainOK, ChainType
<1> QED BY <1>3, <1>8, <1>9, <1>10, <1>11, MoneyKeepsChain, StockKeepsChain

-----------------------------------------------------------------------------
(* The pool's own users. *)

LEMMA SuppliedKeepsChain ==
  ASSUME NEW c, ChainOK(c), NEW u \in Users, NEW a \in Nat, CanPull(c, u, "pool", a)
  PROVE  /\ ChainOK(Supplied(c, u, a))
         /\ Supplied(c, u, a).pool.cash = c.pool.cash + a /\ Supplied(c, u, a).pool.entries = c.pool.entries
         /\ Supplied(c, u, a).now = c.now
         /\ Supplied(c, u, a).wallet = [c.wallet EXCEPT ![u] = c.wallet[u] - a]
<1>1. PICK b : b = Accrued(c)
  OBVIOUS
<1>2. PICK d : d = Pull(b, u, "pool", a)
  OBVIOUS
<1>3. ChainOK(b) /\ b.wallet = c.wallet /\ b.allowed = c.allowed /\ b.pool.cash = c.pool.cash /\ b.now = c.now
      /\ b.pool.entries = c.pool.entries
  <2>1. /\ ChainOK(b) /\ b.wallet = c.wallet /\ b.allowed = c.allowed /\ b.pool = Accrue(c.pool, c.now)
        /\ b.now = c.now
    BY <1>1, AccruedKeepsChain
  <2>2. Accrue(c.pool, c.now).cash = c.pool.cash /\ Accrue(c.pool, c.now).entries = c.pool.entries
    BY ChainReads, AccrueKeepsBooks
  <2> QED BY <2>1, <2>2
<1>4. ChainOK(d) /\ d.pool = b.pool /\ d.now = b.now /\ d.wallet = [c.wallet EXCEPT ![u] = c.wallet[u] - a]
  <2>1. CanPull(b, u, "pool", a) /\ "pool" \in Spenders
    BY <1>3 DEF CanPull, Spenders
  <2> QED BY <1>2, <1>3, <2>1, PullKeepsChain
<1> DEFINE pool == Supply(d.pool, u, a)
<1>5. Supplied(c, u, a) = MoneyMoves(d, pool, d.wallet)
  <2>1. Supplied(c, u, a) = [d EXCEPT !.pool = pool]
    BY <1>1, <1>2 DEF Supplied
  <2> HIDE DEF pool
  <2> QED BY <1>4, <2>1 DEF MoneyMoves, ChainOK, ChainType
<1>6. PoolOK(pool) /\ pool.accruedAt <= d.now /\ pool.cash = c.pool.cash + a
      /\ pool.entries = c.pool.entries
  <2>1. /\ PoolOK(d.pool) /\ d.pool.accruedAt <= d.now /\ d.pool.cash = c.pool.cash
        /\ d.pool.entries = c.pool.entries
    BY <1>3, <1>4, ChainReads
  <2> QED BY <2>1, SupplyKeepsBooks
<1>7. d.wallet \in [Users -> Nat]
  BY <1>4, ChainReads
<1> HIDE DEF pool
<1> QED BY <1>3, <1>4, <1>5, <1>6, <1>7, MoneyKeepsChain

LEMMA UnsupplyKeepsChain ==
  ASSUME NEW c, ChainOK(c), NEW u \in Users, NEW a \in Nat, CanWithdraw(Accrued(c).pool, u, a)
  PROVE  ChainOK(Unsupply(c, u, a))
<1>1. PICK d : d = Accrued(c)
  OBVIOUS
<1>2. ChainOK(d)
  BY <1>1, AccruedKeepsChain
<1> DEFINE pool == Withdraw(d.pool, u, a)
           wallet == [d.wallet EXCEPT ![u] = d.wallet[u] + a]
<1>3. Unsupply(c, u, a) = MoneyMoves(d, pool, wallet)
  BY <1>1 DEF Unsupply, MoneyMoves
<1>4. PoolOK(pool) /\ pool.accruedAt <= d.now
  BY <1>1, <1>2, ChainReads, WithdrawKeepsBooks
<1>5. wallet \in [Users -> Nat]
  <2>1. d.wallet \in [Users -> Nat] /\ d.wallet[u] \in Nat
    BY <1>2, ChainReads
  <2>2. d.wallet[u] + a \in Nat
    BY <2>1
  <2> QED BY <2>1, <2>2
<1> HIDE DEF pool, wallet
<1> QED BY <1>2, <1>3, <1>4, <1>5, MoneyKeepsChain

-----------------------------------------------------------------------------
(* What the pages read of a chain in order, and what their forms make of it. *)

ReadOK(part, is) ==
  /\ part = "vault" => is.collateral \in Nat /\ is.lien \in Nat /\ is.borrowable \in Nat
  /\ part \in {"wallet", "allowance", "mine"} => is \in Nat
  /\ part = "shared" => is.available \in Nat
  /\ part = "loan" =>
       /\ is.debt \in Nat /\ is.wallet \in Nat /\ is.allowance \in Nat /\ is.supplied \in Nat /\ is.liquidity \in Nat
       /\ \A t \in Tokens : /\ is.deposited[t] \in Nat /\ is.held[t] \in Nat
                            /\ is.approved[t] \in Nat /\ is.worth[t] \in Nat

Parts == {"vault", "shared", "mine", "wallet", "allowance", "atRisk", "loan"}

LEMMA MyAccount == Me \in Users /\ Spender \in Spenders
BY DEF Me, Spender, Users, Spenders

LEMMA PageParts ==
  ASSUME page \in Pages
  PROVE  Reads(page) \subseteq Parts
BY PagesAreTheApps DEF Reads, Parts, StockPages

LEMMA ReadingOK ==
  ASSUME NEW c, ChainOK(c), NEW part \in Parts
  PROVE  ReadOK(part, Reading(part, c).is)
<1>1. Me \in Users /\ "bo" \in Users
  BY MyAccount, UsersAreTwo
<1>2. c.wallet[Me] \in Nat /\ c.allowed[Me][Spender] \in Nat /\ \A t \in Tokens : c.allowed[Me][t] \in Nat
  <2>1. c.allowed \in [Users -> [Spenders -> Nat]] /\ Tokens \subseteq Spenders
    BY DEF ChainOK, ChainType, Spenders
  <2>2. c.wallet[Me] \in Nat
    BY <1>1, ChainReads
  <2>3. Spender \in Spenders
    BY MyAccount
  <2> QED BY <1>1, <2>1, <2>2, <2>3
<1>3. BalanceOfSupply(c.pool, Me) \in Nat /\ LienOf(c, Me) \in Nat /\ c.pool.cash \in Nat
  BY <1>1, ChainReads, PoolReads
<1>4. CASE part = "vault"
  <2>1. CollateralValue(c, "bo") \in Nat /\ LienOf(c, "bo") \in Nat
    BY <1>1, ChainReads
  <2>2. MaxBorrowable(c, "bo") \in Nat
    <3>1. WAD \in Nat /\ WAD > 0 /\ MaxLTV \in Nat
      BY ScalesAreUnits, RatesAreShares
    <3>2. MulDiv(CollateralValue(c, "bo"), MaxLTV, WAD) \in Nat
      BY <2>1, <3>1, MulDivIsNat
    <3> QED BY <2>1, <3>2 DEF MaxBorrowable
  <2>3. Reading(part, c).is = VaultPosition(c)
    BY <1>4 DEF Reading
  <2>4. /\ VaultPosition(c).collateral = CollateralValue(c, "bo") /\ VaultPosition(c).lien = LienOf(c, "bo")
        /\ VaultPosition(c).borrowable = MaxBorrowable(c, "bo")
    BY DEF VaultPosition
  <2> QED BY <1>4, <2>1, <2>2, <2>3, <2>4 DEF ReadOK
<1>5. CASE part = "shared"
  <2>1. Reading(part, c).is = LendShared(c)
    BY <1>5 DEF Reading
  <2>2. LendShared(c).available = c.pool.cash
    BY DEF LendShared
  <2> QED BY <1>3, <1>5, <2>1, <2>2 DEF ReadOK
<1>6. CASE part = "mine"
  BY <1>3, <1>6 DEF ReadOK, Reading
<1>7. CASE part = "wallet"
  BY <1>2, <1>7 DEF ReadOK, Reading
<1>8. CASE part = "allowance"
  BY <1>2, <1>8 DEF ReadOK, Reading
<1>9. CASE part = "atRisk"
  BY <1>9 DEF ReadOK
<1>10. CASE part = "loan"
  <2>1. Reading(part, c).is = StockLoan(c)
    BY <1>10 DEF Reading
  <2>2. /\ StockLoan(c).debt = LienOf(c, Me) /\ StockLoan(c).wallet = c.wallet[Me]
        /\ StockLoan(c).allowance = c.allowed[Me][Spender] /\ StockLoan(c).supplied = BalanceOfSupply(c.pool, Me)
        /\ StockLoan(c).liquidity = c.pool.cash
        /\ StockLoan(c).deposited = c.stock[Me] /\ StockLoan(c).held = c.stockWallet[Me]
        /\ \A t \in Tokens : /\ StockLoan(c).approved[t] = c.allowed[Me][t]
                             /\ StockLoan(c).worth[t] = ValueOf(c, t, TokenUnit)
    BY DEF StockLoan
  <2>3. \A t \in Tokens : c.stock[Me][t] \in Nat /\ c.stockWallet[Me][t] \in Nat
    BY <1>1 DEF ChainOK, ChainType, StockType
  <2>4. \A t \in Tokens : ValueOf(c, t, TokenUnit) \in Nat
    BY <1>1, ValuesAreNat, TokensAreListed
  <2> QED BY <1>2, <1>3, <1>10, <2>1, <2>2, <2>3, <2>4 DEF ReadOK
<1> QED BY <1>4, <1>5, <1>6, <1>7, <1>8, <1>9, <1>10 DEF Parts

\* What a form sends: a positive amount, of a token when the call is about one.
Calls == {"deposit", "withdraw", "borrow", "repay", "supply", "unsupply", "liquidate", "writeOff",
          "depositStock", "withdrawStock", "borrowStock", "mint"}
JobOK(j) ==
  /\ j.amount \in Nat \ {0} /\ j.approve \in Nat
  /\ j.call \in Calls
  /\ j.of \in Tokens \cup {"none"}
  /\ j.call \in {"depositStock", "withdrawStock"} => j.of \in Tokens

SeenOK ==
  /\ seen = [part \in Reads(page) |-> seen[part]]
  /\ \A part \in Reads(page) : ReadOK(part, seen[part].is)

LEMMA TypedIsPositive ==
  ASSUME NEW max \in Int, NEW a \in Typed(max)
  PROVE  a \in Nat \ {0} /\ a <= max
BY SumsAreAmounts DEF Typed

LEMMA ShortIsNat ==
  ASSUME NEW a \in Nat, NEW allowance \in Nat
  PROVE  Short(allowance, a) \in Nat
BY DEF Short

LEMMA PlainJobOK ==
  ASSUME NEW call \in Calls \ {"depositStock", "withdrawStock"}, NEW a \in Nat \ {0}, NEW approve \in Nat, NEW shows
  PROVE  JobOK(Job(call, a, approve, shows))
BY DEF JobOK, Job

LEMMA StockJobOK ==
  ASSUME NEW call \in {"depositStock", "withdrawStock"}, NEW a \in Nat \ {0}, NEW approve \in Nat, NEW shows,
         NEW t \in Tokens
  PROVE  JobOK([Job(call, a, approve, shows) EXCEPT !.of = t])
BY DEF JobOK, Job, Calls

LEMMA MarginIsNat ==
  ASSUME NEW debt \in Nat
  PROVE  AccrualMargin(debt) \in Nat
BY BoundsAreSane, FloorIsNat DEF AccrualMargin

\* A repayment of a debt from a wallet that holds some: more than nothing is sent.
LEMMA RepayJobOK ==
  ASSUME NEW a \in Nat \ {0}, NEW debt \in Nat, NEW wallet \in Nat, NEW allowance \in Nat, NEW shows,
         a <= debt, a <= wallet
  PROVE  JobOK(RepayJob(a, debt, wallet, allowance, shows))
<1>1. PICK send : send = IF a >= debt THEN PayOffAmount(debt, wallet) ELSE a
  OBVIOUS
<1>2. send \in Nat \ {0}
  BY <1>1, MarginIsNat DEF PayOffAmount, Lower
<1>3. Short(allowance, send) \in Nat
  BY <1>2, ShortIsNat
<1>4. RepayJob(a, debt, wallet, allowance, shows)
        = [Job("repay", send, Short(allowance, send), shows) EXCEPT !.all = a >= debt]
  BY <1>1 DEF RepayJob
<1> QED BY <1>2, <1>3, <1>4 DEF JobOK, Job, Calls

\* The stock page's own arithmetic of limits.
LEMMA LimitsAreInt ==
  ASSUME NEW l, ReadOK("loan", l)
  PROVE  /\ \A ratio \in Nat : Summarise(l, ratio) \in Nat
         /\ \A limit \in Nat, debt \in Nat : MaxBorrow(limit, debt) \in Int
         /\ \A t \in Tokens : StockMaxWithdraw(l, t) \in Int
<1>1. /\ WAD \in Nat /\ WAD > 0 /\ TokenUnit \in Nat /\ TokenUnit > 0 /\ OriginationFee \in Nat
      /\ MaxLTV \in Nat /\ MaxLTV > 0 /\ WAD + OriginationFee \in Nat /\ WAD + OriginationFee > 0
  BY ScalesAreUnits, TokensAreListed, RatesAreShares, RiskIsValid
<1>2. l.debt \in Nat /\ \A t \in Tokens : l.deposited[t] \in Nat /\ l.worth[t] \in Nat
  BY DEF ReadOK
<1>3. ASSUME NEW ratio \in Nat PROVE Summarise(l, ratio) \in Nat
  <2> DEFINE pledged == {x \in Tokens : l.deposited[x] > 0}
             line == [t \in pledged |-> MulDiv(ValueOfAmount(l, t, l.deposited[t]), ratio, WAD)]
  <2>1. IsFiniteSet(pledged) /\ DOMAIN line = pledged
    BY TokensAreListed, FS_Subset
  <2>2. ASSUME NEW t \in pledged PROVE line[t] \in Nat
    <3>1. ValueOfAmount(l, t, l.deposited[t]) \in Nat
      BY <1>1, <1>2, MulDivIsNat DEF ValueOfAmount
    <3> QED BY <1>1, <3>1, MulDivIsNat
  <2>3. Summarise(l, ratio) = SumFunction(line)
    BY DEF Summarise
  <2> HIDE DEF pledged, line
  <2> QED BY <2>1, <2>2, <2>3, SumIsNat DEF SumFunction
<1>4. ASSUME NEW limit \in Nat, NEW debt \in Nat PROVE MaxBorrow(limit, debt) \in Int
  <2>1. PICK room : room = limit - debt
    OBVIOUS
  <2>2. PICK x : x = MulDiv(room, WAD, WAD + OriginationFee)
    OBVIOUS
  <2>3. CASE room <= 0
    BY <2>1, <2>3 DEF MaxBorrow
  <2>4. CASE room > 0
    <3>1. room \in Nat
      BY <2>1, <2>4
    <3>2. x \in Nat
      BY <1>1, <2>2, <3>1, MulDivIsNat
    <3>3. MaxBorrow(limit, debt) \in {x - 1, x}
      BY <2>1, <2>2, <2>4, <3>1 DEF MaxBorrow
    <3> QED BY <3>2, <3>3
  <2> QED BY <2>1, <2>3, <2>4
<1>5. ASSUME NEW t \in Tokens PROVE StockMaxWithdraw(l, t) \in Int
  <2>1. PICK room : room = Summarise(l, MaxLTV) - l.debt
    OBVIOUS
  <2>2. room \in Int
    BY <1>1, <1>2, <1>3, <2>1
  <2>3. CASE l.debt = 0
    BY <1>2, <2>3 DEF StockMaxWithdraw
  <2>4. CASE l.debt # 0 /\ (l.worth[t] = 0 \/ room <= 0)
    <3>1. l.worth[t] = 0 \/ Summarise(l, MaxLTV) - l.debt <= 0
      BY <2>1, <2>4
    <3>2. StockMaxWithdraw(l, t) = 0
      BY <2>4, <3>1 DEF StockMaxWithdraw
    <3> QED BY <3>2
  <2>5. CASE l.debt # 0 /\ ~(l.worth[t] = 0 \/ room <= 0)
    <3>1. room * WAD * TokenUnit \in Nat
      <4>1. room \in Nat
        BY <2>2, <2>5
      <4>2. room * WAD \in Nat
        BY <1>1, <4>1
      <4> QED BY <1>1, <4>2
    <3>2. l.worth[t] * MaxLTV \in Nat /\ l.worth[t] * MaxLTV > 0
      BY <1>1, <1>2, <2>5
    <3>3. (room * WAD * TokenUnit) \div (l.worth[t] * MaxLTV) \in Nat
      BY <3>1, <3>2, FloorIsNat
    <3>4. StockMaxWithdraw(l, t) = Lower(l.deposited[t], (room * WAD * TokenUnit) \div (l.worth[t] * MaxLTV))
      BY <2>1, <2>5 DEF StockMaxWithdraw
    <3> QED BY <1>2, <3>3, <3>4 DEF Lower
  <2> QED BY <2>3, <2>4, <2>5
<1> QED BY <1>3, <1>4, <1>5

LEMMA StakeOffers ==
  ASSUME SeenOK, {"vault", "wallet", "allowance"} \subseteq Reads(page), NEW j \in StakeForm
  PROVE  JobOK(j)
<1>1. PICK p : p = Seen("vault")
  OBVIOUS
<1>2. /\ p.collateral \in Nat /\ p.lien \in Nat
      /\ Seen("wallet") \in Nat /\ Seen("allowance") \in Nat
  BY <1>1 DEF SeenOK, ReadOK, Seen
<1>3. CASE \E a \in Typed(Seen("wallet")) : j = Job("deposit", a, Short(Seen("allowance"), a), 0)
  <2>1. PICK a \in Typed(Seen("wallet")) : j = Job("deposit", a, Short(Seen("allowance"), a), 0)
    BY <1>3
  <2>2. a \in Nat \ {0}
    BY <1>2, TypedIsPositive
  <2>3. Short(Seen("allowance"), a) \in Nat
    BY <1>2, <2>2, ShortIsNat
  <2> QED BY <2>1, <2>2, <2>3, PlainJobOK DEF Calls
<1>4. CASE \E a \in Typed(p.collateral) : j = Job("withdraw", a, 0, a - p.lien)
  <2>1. PICK a \in Typed(p.collateral) : j = Job("withdraw", a, 0, a - p.lien)
    BY <1>4
  <2>2. a \in Nat \ {0}
    BY <1>2, TypedIsPositive
  <2> QED BY <2>1, <2>2, PlainJobOK DEF Calls
<1> QED BY <1>1, <1>3, <1>4 DEF StakeForm

LEMMA BorrowOffers ==
  ASSUME SeenOK, {"vault", "wallet", "allowance"} \subseteq Reads(page), NEW j \in BorrowForm
  PROVE  JobOK(j)
<1>1. PICK p : p = Seen("vault")
  OBVIOUS
<1>2. /\ p.borrowable \in Nat /\ p.lien \in Nat
      /\ Seen("wallet") \in Nat /\ Seen("allowance") \in Nat
  BY <1>1 DEF SeenOK, ReadOK, Seen
<1>3. CASE \E a \in Typed(BorrowHeadroom(p.borrowable, p.lien)) : j = Job("borrow", a, 0, PreviewHealth(p, a))
  <2>1. PICK a \in Typed(BorrowHeadroom(p.borrowable, p.lien)) : j = Job("borrow", a, 0, PreviewHealth(p, a))
    BY <1>3
  <2>2. BorrowHeadroom(p.borrowable, p.lien) \in Int
    BY <1>2, MarginIsNat DEF BorrowHeadroom
  <2>3. a \in Nat \ {0}
    BY <2>2, TypedIsPositive
  <2> QED BY <2>1, <2>3, PlainJobOK DEF Calls
<1>4. CASE \E a \in Typed(p.lien) : /\ a <= Seen("wallet")
                                    /\ j = RepayJob(a, p.lien, Seen("wallet"), Seen("allowance"), PreviewHealth(p, -a))
  <2>1. PICK a \in Typed(p.lien) : /\ a <= Seen("wallet")
                                   /\ j = RepayJob(a, p.lien, Seen("wallet"), Seen("allowance"), PreviewHealth(p, -a))
    BY <1>4
  <2>2. a \in Nat \ {0} /\ a <= p.lien
    BY <1>2, TypedIsPositive
  <2> QED BY <1>2, <2>1, <2>2, RepayJobOK
<1> QED BY <1>1, <1>3, <1>4 DEF BorrowForm

LEMMA LendOffers ==
  ASSUME SeenOK, {"shared", "mine", "wallet", "allowance"} \subseteq Reads(page), NEW j \in LendForm
  PROVE  JobOK(j)
<1>1. PICK s : s = Seen("shared")
  OBVIOUS
<1>2. s.available \in Nat /\ Seen("mine") \in Nat /\ Seen("wallet") \in Nat /\ Seen("allowance") \in Nat
  BY <1>1 DEF SeenOK, ReadOK, Seen
<1>3. ASSUME NEW a \in Typed(Seen("wallet")), NEW shows, j = Job("supply", a, Short(Seen("allowance"), a), shows)
      PROVE  JobOK(j)
  <2>1. a \in Nat \ {0}
    BY <1>2, TypedIsPositive
  <2>2. Short(Seen("allowance"), a) \in Nat
    BY <1>2, <2>1, ShortIsNat
  <2> QED BY <1>3, <2>1, <2>2, PlainJobOK DEF Calls
<1>4. CASE \E a \in Typed(MaxWithdraw(Seen("mine"), s.available)) :
             j = Job("unsupply", a, 0, UtilizationAfter(s.borrowed, s.available, -a))
  <2>1. PICK a \in Typed(MaxWithdraw(Seen("mine"), s.available)) :
             j = Job("unsupply", a, 0, UtilizationAfter(s.borrowed, s.available, -a))
    BY <1>4
  <2>2. MaxWithdraw(Seen("mine"), s.available) \in Int
    BY <1>2 DEF MaxWithdraw, Lower
  <2>3. a \in Nat \ {0}
    BY <2>2, TypedIsPositive
  <2> QED BY <2>1, <2>3, PlainJobOK DEF Calls
<1> QED BY <1>1, <1>3, <1>4 DEF LendForm

LEMMA LiquidateOffers ==
  ASSUME NEW j \in LiquidateTable
  PROVE  JobOK(j)
<1>1. PICK row : row = Seen("atRisk")
  OBVIOUS
<1>2. /\ ActionFor(row) # "watch"
      /\ j = Job(ActionFor(row), 1, 0, IF ActionFor(row) = "liquidate" THEN NetToLiquidator(row) ELSE 0)
  BY <1>1 DEF LiquidateTable
<1>3. ActionFor(row) \in Calls \ {"depositStock", "withdrawStock"}
  BY <1>2 DEF ActionFor, Calls
<1> QED BY <1>2, <1>3, PlainJobOK

LEMMA CollateralOffers ==
  ASSUME SeenOK, "loan" \in Reads(page), NEW j \in CollateralPanel
  PROVE  JobOK(j)
<1> DEFINE l == Seen("loan")
           In(t) == {[Job("depositStock", a, Short(l.approved[t], a), 0) EXCEPT !.of = t] : a \in Typed(l.held[t])}
           Out(t) == {[Job("withdrawStock", a, 0, 0) EXCEPT !.of = t] :
                        a \in {x \in Typed(StockMaxWithdraw(l, t)) : l.debt > 0 => StalePrices(l, chain.now) = {}}}
<1>1. j \in UNION {In(t) \cup Out(t) : t \in Tokens}
  BY DEF CollateralPanel
<1>2. ReadOK("loan", l)
  BY DEF SeenOK, Seen
<1> HIDE DEF l
<1>3. ASSUME NEW t \in Tokens, NEW a \in Typed(l.held[t]),
             j = [Job("depositStock", a, Short(l.approved[t], a), 0) EXCEPT !.of = t]
      PROVE  JobOK(j)
  <2>1. l.held[t] \in Nat /\ l.approved[t] \in Nat
    BY <1>2 DEF ReadOK
  <2>2. a \in Nat \ {0}
    BY <2>1, TypedIsPositive
  <2>3. Short(l.approved[t], a) \in Nat
    BY <2>1, <2>2, ShortIsNat
  <2> QED BY <1>3, <2>2, <2>3, StockJobOK
<1>4. ASSUME NEW t \in Tokens, NEW a \in Typed(StockMaxWithdraw(l, t)),
             j = [Job("withdrawStock", a, 0, 0) EXCEPT !.of = t]
      PROVE  JobOK(j)
  <2>1. StockMaxWithdraw(l, t) \in Int
    BY <1>2, LimitsAreInt
  <2>2. a \in Nat \ {0}
    BY <2>1, TypedIsPositive
  <2> QED BY <1>4, <2>2, StockJobOK
<1>5. \A t \in Tokens : j \in In(t) => JobOK(j)
  BY <1>3
<1>6. \A t \in Tokens : j \in Out(t) => JobOK(j)
  BY <1>4
<1> HIDE DEF In, Out
<1> QED BY <1>1, <1>5, <1>6

LEMMA LoanOffers ==
  ASSUME SeenOK, "loan" \in Reads(page), NEW j \in LoanPanel
  PROVE  JobOK(j)
<1>1. PICK l : l = Seen("loan")
  OBVIOUS
<1>2. PICK line : line = Summarise(l, LiquidationThreshold)
  OBVIOUS
<1>3. PICK most : most = Lower(MaxBorrow(Summarise(l, MaxLTV), l.debt + AccrualMargin(l.debt)), l.liquidity)
  OBVIOUS
<1>4. ReadOK("loan", l)
  BY <1>1 DEF SeenOK, Seen
<1>5. l.debt \in Nat /\ l.liquidity \in Nat /\ l.wallet \in Nat /\ l.allowance \in Nat
  BY <1>4 DEF ReadOK
<1>6. ASSUME NEW a \in Typed(most), NEW shows, j = Job("borrowStock", a, 0, shows)
      PROVE  JobOK(j)
  <2>1. Summarise(l, MaxLTV) \in Nat
    BY <1>4, LimitsAreInt, RatesAreShares
  <2>2. l.debt + AccrualMargin(l.debt) \in Nat
    BY <1>5, MarginIsNat
  <2>3. MaxBorrow(Summarise(l, MaxLTV), l.debt + AccrualMargin(l.debt)) \in Int
    BY <1>4, <2>1, <2>2, LimitsAreInt
  <2>4. most \in Int
    BY <1>3, <1>5, <2>3 DEF Lower
  <2>5. a \in Nat \ {0}
    BY <2>4, TypedIsPositive
  <2> QED BY <1>6, <2>5, PlainJobOK DEF Calls
<1>7. ASSUME NEW a \in Typed(l.debt), NEW shows, a <= l.wallet, j = RepayJob(a, l.debt, l.wallet, l.allowance, shows)
      PROVE  JobOK(j)
  <2>1. a \in Nat \ {0} /\ a <= l.debt
    BY <1>5, TypedIsPositive
  <2> QED BY <1>5, <1>7, <2>1, RepayJobOK
<1>8. \/ \E a \in Typed(most) : j = Job("borrowStock", a, 0, HealthAfter(line, l.debt + a + OriginationFeeOn(a)))
      \/ \E a \in Typed(l.debt) : /\ a <= l.wallet
                                  /\ j = RepayJob(a, l.debt, l.wallet, l.allowance, HealthAfter(line, l.debt - a))
  BY <1>1, <1>2, <1>3 DEF LoanPanel
<1> QED BY <1>6, <1>7, <1>8

LEMMA StockLendOffers ==
  ASSUME SeenOK, "loan" \in Reads(page), NEW j \in StockLendPanel
  PROVE  JobOK(j)
<1>1. PICK l : l = Seen("loan")
  OBVIOUS
<1>2. l.wallet \in Nat /\ l.allowance \in Nat /\ l.supplied \in Nat /\ l.liquidity \in Nat
  BY <1>1 DEF SeenOK, Seen, ReadOK
<1>3. CASE \E a \in Typed(l.wallet) : j = Job("supply", a, Short(l.allowance, a), 0)
  <2>1. PICK a \in Typed(l.wallet) : j = Job("supply", a, Short(l.allowance, a), 0)
    BY <1>3
  <2>2. a \in Nat \ {0}
    BY <1>2, TypedIsPositive
  <2>3. Short(l.allowance, a) \in Nat
    BY <1>2, <2>2, ShortIsNat
  <2> QED BY <2>1, <2>2, <2>3, PlainJobOK DEF Calls
<1>4. CASE \E a \in Typed(Lower(l.supplied, l.liquidity)) : j = Job("unsupply", a, 0, 0)
  <2>1. PICK a \in Typed(Lower(l.supplied, l.liquidity)) : j = Job("unsupply", a, 0, 0)
    BY <1>4
  <2>2. Lower(l.supplied, l.liquidity) \in Int
    BY <1>2 DEF Lower
  <2>3. a \in Nat \ {0}
    BY <2>2, TypedIsPositive
  <2> QED BY <2>1, <2>3, PlainJobOK DEF Calls
<1> QED BY <1>1, <1>3, <1>4 DEF StockLendPanel

\* A form reads what it needs: its page does.
LEMMA OffersOK ==
  ASSUME page \in Pages, SeenOK, NEW form \in Forms(page), NEW j \in Offers(form)
  PROVE  JobOK(j)
<1>1. page \in {"stake", "borrow", "portfolio", "lend", "liquidate", "stocks", "stockLend"}
  BY PagesAreTheApps
<1>2. CASE form = "faucet"
  <2>1. j = Job("mint", Grant, 0, 0)
    BY <1>2 DEF Offers, Faucet
  <2> QED BY <2>1, SumsAreAmounts, PlainJobOK DEF Calls
<1>3. CASE page = "stake" /\ form = "stakeForm"
  <2>1. {"vault", "wallet", "allowance"} \subseteq Reads(page) /\ j \in StakeForm
    BY <1>3 DEF Offers, Reads, StockPages
  <2> QED BY <2>1, StakeOffers
<1>4. CASE page = "borrow" /\ form = "borrowForm"
  <2>1. {"vault", "wallet", "allowance"} \subseteq Reads(page) /\ j \in BorrowForm
    BY <1>4 DEF Offers, Reads, StockPages
  <2> QED BY <2>1, BorrowOffers
<1>5. CASE page = "lend" /\ form = "lendForm"
  <2>1. {"shared", "mine", "wallet", "allowance"} \subseteq Reads(page) /\ j \in LendForm
    BY <1>5 DEF Offers, Reads, StockPages
  <2> QED BY <2>1, LendOffers
<1>6. CASE page = "liquidate" /\ form = "row"
  BY <1>6, LiquidateOffers DEF Offers
<1>7. CASE page = "stocks" /\ form = "collateral"
  BY <1>7, CollateralOffers DEF Offers, Reads, StockPages
<1>8. CASE page = "stocks" /\ form = "loan"
  BY <1>8, LoanOffers DEF Offers, Reads, StockPages
<1>9. CASE page = "stockLend" /\ form = "lendPanel"
  BY <1>9, StockLendOffers DEF Offers, Reads, StockPages
<1>10. \/ form = "faucet"
       \/ page = "stake" /\ form = "stakeForm"
       \/ page = "borrow" /\ form = "borrowForm"
       \/ page = "lend" /\ form = "lendForm"
       \/ page = "liquidate" /\ form = "row"
       \/ page = "stocks" /\ form = "collateral"
       \/ page = "stocks" /\ form = "loan"
       \/ page = "stockLend" /\ form = "lendPanel"
  BY <1>1 DEF Forms
<1> QED BY <1>2, <1>3, <1>4, <1>5, <1>6, <1>7, <1>8, <1>9, <1>10

-----------------------------------------------------------------------------
(* What may happen to the chain: an accepted call, the other accounts, the owner. *)

\* The wallets alone change: the faucet, and what an account brings from elsewhere.
LEMMA WalletKeepsChain ==
  ASSUME NEW c, ChainOK(c), NEW u \in Users, NEW v \in Nat
  PROVE  /\ ChainOK([c EXCEPT !.wallet[u] = v])
         /\ [c EXCEPT !.wallet[u] = v].pool = c.pool /\ [c EXCEPT !.wallet[u] = v].now = c.now
         /\ [c EXCEPT !.wallet[u] = v].wallet = [c.wallet EXCEPT ![u] = v]
<1> DEFINE d == [c EXCEPT !.wallet[u] = v]
<1>1. d \in ChainType
  BY DEF ChainOK, ChainType
<1>2. /\ d.pool = c.pool /\ d.position = c.position /\ d.shares = c.shares /\ d.now = c.now
      /\ d.wallet = [c.wallet EXCEPT ![u] = v]
  BY DEF ChainOK, ChainType
<1> HIDE DEF d
<1>3. ChainOK(d)
  BY <1>1, <1>2, OthersKeepChain
<1> QED BY <1>2, <1>3 DEF d

LEMMA AllowanceKeepsChain ==
  ASSUME NEW c, ChainOK(c), NEW u \in Users, NEW s \in Spenders, NEW v \in Nat
  PROVE  /\ ChainOK([c EXCEPT !.allowed[u][s] = v])
         /\ [c EXCEPT !.allowed[u][s] = v].pool = c.pool /\ [c EXCEPT !.allowed[u][s] = v].now = c.now
         /\ [c EXCEPT !.allowed[u][s] = v].wallet = c.wallet
         /\ [c EXCEPT !.allowed[u][s] = v].allowed[u][s] = v
<1> DEFINE d == [c EXCEPT !.allowed[u][s] = v]
<1>1. d \in ChainType /\ d.allowed[u][s] = v
  BY DEF ChainOK, ChainType
<1>2. /\ d.pool = c.pool /\ d.position = c.position /\ d.shares = c.shares /\ d.now = c.now
      /\ d.wallet = c.wallet
  BY DEF ChainOK, ChainType
<1> HIDE DEF d
<1>3. ChainOK(d)
  BY <1>1, <1>2, OthersKeepChain
<1> QED BY <1>1, <1>2, <1>3 DEF d

LEMMA MinedKeepsChain ==
  ASSUME NEW c, ChainOK(c), NEW h \in Nat
  PROVE  ChainOK([c EXCEPT !.height = h]) /\ [c EXCEPT !.height = h].height = h
<1> DEFINE d == [c EXCEPT !.height = h]
<1>1. d \in ChainType /\ d.height = h
  BY DEF ChainOK, ChainType
<1>2. d.pool = c.pool /\ d.position = c.position /\ d.shares = c.shares /\ d.now = c.now
  BY DEF ChainOK, ChainType
<1> HIDE DEF d
<1> QED BY <1>1, <1>2, OthersKeepChain DEF d

LEMMA CallKeepsChain ==
  ASSUME NEW c, ChainOK(c), NEW j, JobOK(j), Accepts(c, j)
  PROVE  ChainOK(Applied(c, j))
<1>1. Me \in Users /\ "bo" \in Users
  BY MyAccount, UsersAreTwo
<1>2. PICK a \in Nat : a = j.amount /\ a > 0
  BY DEF JobOK
<1>3. CASE j.call = "deposit"
  <2>1. CanPull(c, Me, "vault", a) /\ Applied(c, j) = Deposit(c, Me, a)
    BY <1>2, <1>3 DEF Accepts, Applied, CanDeposit
  <2>2. ChainOK(Deposit(c, Me, a)) /\ Deposit(c, Me, a).pool = c.pool /\ Deposit(c, Me, a).now = c.now
    BY <1>1, <1>2, <2>1, DepositKeepsChain
  <2> QED BY <2>1, <2>2
<1>4. CASE j.call = "withdraw"
  <2>1. CanVaultWithdraw(c, Me, a) /\ Applied(c, j) = VaultWithdraw(c, Me, a)
    BY <1>2, <1>4 DEF Accepts, Applied
  <2> QED BY <1>1, <2>1, VaultWithdrawKeepsChain
<1>5. CASE j.call = "borrow"
  <2>1. CanBorrow(Accrued(Settle(c, Me)).pool, a) /\ Applied(c, j) = VaultBorrow(c, Me, a)
    BY <1>2, <1>5 DEF Accepts, Applied, CanVaultBorrow
  <2> QED BY <1>1, <2>1, VaultBorrowKeepsChain
<1>6. CASE j.call = "repay"
  <2>1. CanLoanRepay(c, Me, a) /\ Applied(c, j) = LoanRepay(c, Me, a)
    BY <1>2, <1>6 DEF Accepts, Applied
  <2> QED BY <1>1, <2>1, LoanRepayKeepsChain
<1>7. CASE j.call = "supply"
  <2>1. CanPull(c, Me, "pool", a) /\ Applied(c, j) = Supplied(c, Me, a)
    BY <1>2, <1>7 DEF Accepts, Applied, CanPoolSupply
  <2>2. /\ ChainOK(Supplied(c, Me, a)) /\ Supplied(c, Me, a).pool.cash = c.pool.cash + a
        /\ Supplied(c, Me, a).now = c.now /\ Supplied(c, Me, a).wallet = [c.wallet EXCEPT ![Me] = c.wallet[Me] - a]
    BY <1>1, <2>1, SuppliedKeepsChain
  <2> QED BY <2>1, <2>2
<1>8. CASE j.call = "unsupply"
  <2>1. CanWithdraw(Accrued(c).pool, Me, a) /\ Applied(c, j) = Unsupply(c, Me, a)
    BY <1>2, <1>8 DEF Accepts, Applied
  <2> QED BY <1>1, <2>1, UnsupplyKeepsChain
<1>9. CASE j.call = "liquidate"
  <2>1. CanLiquidate(c, Me, "bo") /\ Applied(c, j) = Liquidate(c, Me, "bo")
    BY <1>9 DEF Accepts, Applied
  <2> QED BY <1>1, <2>1, LiquidateKeepsChain
<1>10. CASE j.call = "writeOff"
  <2>1. Applied(c, j) = WriteOff(c, "bo")
    BY <1>10 DEF Applied
  <2> QED BY <1>1, <2>1, WriteOffKeepsChain
<1>11. CASE j.call = "depositStock"
  <2>1. j.of \in Tokens /\ CanStockDeposit(c, Me, j.of, a) /\ Applied(c, j) = StockDeposit(c, Me, j.of, a)
    BY <1>2, <1>11 DEF Accepts, Applied, JobOK
  <2> QED BY <1>1, <2>1, StockDepositKeepsChain
<1>12. CASE j.call = "withdrawStock"
  <2>1. j.of \in Tokens /\ CanStockWithdraw(c, Me, j.of, a) /\ Applied(c, j) = StockWithdraw(c, Me, j.of, a)
    BY <1>2, <1>12 DEF Accepts, Applied, JobOK
  <2> QED BY <1>1, <2>1, StockWithdrawKeepsChain
<1>13. CASE j.call = "borrowStock"
  <2>1. CanBorrow(Accrued(c).pool, a + FeeOn(a)) /\ Applied(c, j) = StockBorrow(c, Me, a)
    BY <1>2, <1>13 DEF Accepts, Applied, CanStockBorrow
  <2> QED BY <1>1, <2>1, StockBorrowKeepsChain
<1>14. CASE j.call = "mint"
  <2>1. Applied(c, j) = [c EXCEPT !.wallet[Me] = c.wallet[Me] + a]
    BY <1>2, <1>14 DEF Applied
  <2>2. c.wallet[Me] + a \in Nat
    <3>1. c.wallet[Me] \in Nat
      BY <1>1, ChainReads
    <3> QED BY <3>1
  <2> QED BY <1>1, <2>1, <2>2, WalletKeepsChain
<1> QED BY <1>3, <1>4, <1>5, <1>6, <1>7, <1>8, <1>9, <1>10, <1>11, <1>12, <1>13, <1>14 DEF JobOK, Calls

LEMMA OthersInVaultKeepChain ==
  ASSUME NEW c, ChainOK(c), NEW d \in OthersInVault(c)
  PROVE  ChainOK(d)
<1>1. PICK them \in Users : them = IF Me = "bo" THEN "lee" ELSE "bo"
  BY UsersAreTwo
<1>2. "bo" \in Users /\ "lee" \in Users /\ OtherAmounts \subseteq Nat /\ Proceeds \subseteq Nat
  BY UsersAreTwo, SumsAreAmounts
<1>3. CASE d = Accrued(c)
  BY <1>3, AccruedKeepsChain
<1>4. ASSUME NEW a \in OtherAmounts, a <= c.wallet[them],
             d = Supplied([c EXCEPT !.allowed[them]["pool"] = a], them, a)
      PROVE  ChainOK(d)
  <2>1. PICK e : e = [c EXCEPT !.allowed[them]["pool"] = a]
    OBVIOUS
  <2>2. "pool" \in Spenders /\ a \in Nat
    BY <1>2 DEF Spenders
  <2>3. ChainOK(e) /\ e.wallet = c.wallet /\ e.allowed[them]["pool"] = a
    BY <2>1, <2>2, AllowanceKeepsChain
  <2>4. CanPull(e, them, "pool", a)
    BY <1>4, <2>2, <2>3 DEF CanPull
  <2> QED BY <1>4, <2>1, <2>2, <2>3, <2>4, SuppliedKeepsChain
<1>5. ASSUME NEW a \in OtherAmounts, CanWithdraw(Accrued(c).pool, "lee", a), d = Unsupply(c, "lee", a)
      PROVE  ChainOK(d)
  BY <1>2, <1>5, UnsupplyKeepsChain
<1>6. ASSUME NEW a \in OtherAmounts, CanVaultBorrow(c, "bo", a), d = VaultBorrow(c, "bo", a)
      PROVE  ChainOK(d)
  <2>1. CanBorrow(Accrued(Settle(c, "bo")).pool, a)
    BY <1>6 DEF CanVaultBorrow
  <2> QED BY <1>2, <1>6, <2>1, VaultBorrowKeepsChain
<1>7. ASSUME CanVaultWithdraw(c, "bo", c.shares["bo"]), d = VaultWithdraw(c, "bo", c.shares["bo"])
      PROVE  ChainOK(d)
  <2>1. c.shares["bo"] \in Nat
    BY <1>2, ChainReads
  <2> QED BY <1>2, <1>7, <2>1, VaultWithdrawKeepsChain
<1>8. ASSUME CanLiquidate(c, "lee", "bo"), d = Liquidate(c, "lee", "bo")
      PROVE  ChainOK(d)
  BY <1>2, <1>8, LiquidateKeepsChain
<1>9. CASE d = WriteOff(c, "bo")
  BY <1>2, <1>9, WriteOffKeepsChain
<1>10. ASSUME NEW a \in Proceeds, d = OnPositionSettled(c, "bo", a)
       PROVE  ChainOK(d)
  BY <1>2, <1>10, ProceedsKeepChain
<1>11. \/ d = Accrued(c)
       \/ \E a \in OtherAmounts : a <= c.wallet[them] /\ d = Supplied([c EXCEPT !.allowed[them]["pool"] = a], them, a)
       \/ \E a \in OtherAmounts : CanWithdraw(Accrued(c).pool, "lee", a) /\ d = Unsupply(c, "lee", a)
       \/ \E a \in OtherAmounts : CanVaultBorrow(c, "bo", a) /\ d = VaultBorrow(c, "bo", a)
       \/ CanVaultWithdraw(c, "bo", c.shares["bo"]) /\ d = VaultWithdraw(c, "bo", c.shares["bo"])
       \/ CanLiquidate(c, "lee", "bo") /\ d = Liquidate(c, "lee", "bo")
       \/ d = WriteOff(c, "bo")
       \/ \E a \in Proceeds : d = OnPositionSettled(c, "bo", a)
  BY <1>1 DEF OthersInVault
<1> QED BY <1>3, <1>4, <1>5, <1>6, <1>7, <1>8, <1>9, <1>10, <1>11

LEMMA OthersInStocksKeepChain ==
  ASSUME NEW c, ChainOK(c), NEW d \in OthersInStocks(c)
  PROVE  ChainOK(d)
<1>1. "bo" \in Users /\ "lee" \in Users /\ OtherAmounts \subseteq Nat /\ Prices \subseteq Nat
  BY UsersAreTwo, SumsAreAmounts
<1>2. ASSUME NEW t \in Tokens, NEW p \in Prices, d = [c EXCEPT !.feed[t] = [price |-> p, at |-> c.now]]
      PROVE  ChainOK(d)
  <2>1. [price |-> p, at |-> c.now] \in [price : Nat, at : Nat]
    BY <1>1 DEF ChainOK, ChainType
  <2>2. d \in ChainType
    BY <1>2, <2>1 DEF ChainOK, ChainType
  <2>3. d.pool = c.pool /\ d.position = c.position /\ d.shares = c.shares /\ d.now = c.now
    BY <1>2 DEF ChainOK, ChainType
  <2> QED BY <2>2, <2>3, OthersKeepChain
<1>3. ASSUME NEW a \in OtherAmounts, CanWithdraw(Accrued(c).pool, "lee", a), d = Unsupply(c, "lee", a)
      PROVE  ChainOK(d)
  BY <1>1, <1>3, UnsupplyKeepsChain
<1>4. ASSUME NEW a \in OtherAmounts, CanStockBorrow(c, "bo", a), d = StockBorrow(c, "bo", a)
      PROVE  ChainOK(d)
  <2>1. CanBorrow(Accrued(c).pool, a + FeeOn(a))
    BY <1>4 DEF CanStockBorrow
  <2> QED BY <1>1, <1>4, <2>1, StockBorrowKeepsChain
<1>5. ASSUME NEW t \in Tokens, CanStockLiquidate(c, "lee", "bo", t), d = StockLiquidate(c, "lee", "bo", t)
      PROVE  ChainOK(d)
  BY <1>1, <1>5, StockLiquidateKeepsChain
<1>6. ASSUME CanStockWriteOff(c, "lee", "bo"), d = StockWriteOff(c, "lee", "bo")
      PROVE  ChainOK(d)
  BY <1>1, <1>6, StockWriteOffKeepsChain
<1>7. \/ \E t \in Tokens, p \in Prices : d = [c EXCEPT !.feed[t] = [price |-> p, at |-> c.now]]
      \/ \E a \in OtherAmounts : CanWithdraw(Accrued(c).pool, "lee", a) /\ d = Unsupply(c, "lee", a)
      \/ \E a \in OtherAmounts : CanStockBorrow(c, "bo", a) /\ d = StockBorrow(c, "bo", a)
      \/ \E t \in Tokens : CanStockLiquidate(c, "lee", "bo", t) /\ d = StockLiquidate(c, "lee", "bo", t)
      \/ CanStockWriteOff(c, "lee", "bo") /\ d = StockWriteOff(c, "lee", "bo")
  BY DEF OthersInStocks
<1> QED BY <1>2, <1>3, <1>4, <1>5, <1>6, <1>7

LEMMA OwnerKeepsChain ==
  ASSUME NEW c, ChainOK(c), NEW d \in OwnerCalls(c)
  PROVE  ChainOK(d)
<1>1. CASE d = [c EXCEPT !.paused = ~c.paused]
  <2>1. d \in ChainType
    BY <1>1 DEF ChainOK, ChainType
  <2>2. d.pool = c.pool /\ d.position = c.position /\ d.shares = c.shares /\ d.now = c.now
    BY <1>1 DEF ChainOK, ChainType
  <2> QED BY <2>1, <2>2, OthersKeepChain
<1>2. ASSUME CanWithdrawReserves(c.pool, c.pool.reserves),
             d = [c EXCEPT !.pool = WithdrawReserves(c.pool, c.pool.reserves)]
      PROVE  ChainOK(d)
  <2>1. PICK pool : pool = WithdrawReserves(c.pool, c.pool.reserves)
    OBVIOUS
  <2>2. PoolOK(c.pool) /\ c.pool.reserves \in Nat /\ c.pool.accruedAt <= c.now /\ c.wallet \in [Users -> Nat]
    BY UsersAreTwo, ChainReads DEF PoolOK, PoolType
  <2>3. PoolOK(pool) /\ pool.accruedAt <= c.now
    BY <1>2, <2>1, <2>2, ReservesKeepBooks
  <2>4. d = MoneyMoves(c, pool, c.wallet)
    BY <1>2, <2>1 DEF MoneyMoves, ChainOK, ChainType
  <2> QED BY <2>2, <2>3, <2>4, MoneyKeepsChain
<1>3. CASE d = [c EXCEPT !.pool = SwitchEntries(c.pool)]
  <2>1. PICK entries \in {"open", "paused"} : entries = IF c.pool.entries = "open" THEN "paused" ELSE "open"
    OBVIOUS
  <2>2. PICK pool : pool = [c.pool EXCEPT !.entries = entries]
    OBVIOUS
  <2>3. SwitchEntries(c.pool) = pool
    BY <2>1, <2>2 DEF SwitchEntries
  <2>4. PoolOK(c.pool) /\ c.pool.accruedAt <= c.now /\ c.wallet \in [Users -> Nat]
    BY UsersAreTwo, ChainReads
  <2>5. PoolOK(pool) /\ pool.accruedAt <= c.now
    BY <2>2, <2>4 DEF PoolOK, PoolType, TotalsAreSums
  <2>6. d = MoneyMoves(c, pool, c.wallet)
    BY <1>3, <2>3 DEF MoneyMoves, ChainOK, ChainType
  <2> QED BY <2>4, <2>5, <2>6, MoneyKeepsChain
<1>4. \/ d = [c EXCEPT !.paused = ~c.paused]
      \/ d = [c EXCEPT !.pool = SwitchEntries(c.pool)]
      \/ CanWithdrawReserves(c.pool, c.pool.reserves) /\ d = [c EXCEPT !.pool = WithdrawReserves(c.pool, c.pool.reserves)]
  BY DEF OwnerCalls
<1> QED BY <1>1, <1>2, <1>3, <1>4

-----------------------------------------------------------------------------
(* How a page finds the chain. *)

LEMMA BlankOK ==
  /\ ChainOK(Blank) /\ Blank.now = 0 /\ Blank.pool.cash = 0 /\ Blank.pool.entries = "open"
  /\ Blank.wallet = [u \in Users |-> Grant]
<1>1. Grant \in Nat /\ RAY \in Nat /\ RAY > 0
  BY SumsAreAmounts, ScalesAreUnits
<1> DEFINE none == [u \in Users |-> 0]
<1>2. none \in [Users -> Nat] /\ SumFunction(none) = 0
  <2>1. none \in [Users -> Nat] /\ DOMAIN none = Users /\ \A u \in Users : none[u] = 0
    OBVIOUS
  <2> HIDE DEF none
  <2>2. IntOn(none, Users)
    BY <2>1 DEF IntOn
  <2> QED BY <2>1, <2>2, UsersAreTwo, SumOfZeros DEF SumFunction
<1>3. NewPool(Users) =
        [entries |-> "open", cash |-> 0, supplyIndex |-> RAY, borrowIndex |-> RAY, accruedAt |-> 0,
         supply |-> none, totalSupplyScaled |-> 0, debt |-> none, totalBorrowScaled |-> 0,
         reserves |-> 0, unsocialised |-> 0]
  BY DEF NewPool
<1> HIDE DEF none
<1>4. NewPool(Users) \in PoolType /\ TotalsAreSums(NewPool(Users)) /\ NewPool(Users).accruedAt = 0 /\ NewPool(Users).cash = 0
      /\ NewPool(Users).entries = "open"
  BY <1>1, <1>2, <1>3 DEF PoolType, TotalsAreSums
<1>5. /\ Blank.pool = NewPool(Users) /\ Blank.position = [u \in Users |-> [principal |-> 0, settled |-> 0, since |-> 0]]
      /\ Blank.shares = [u \in Users |-> 0] /\ Blank.now = 0 /\ Blank.wallet = [u \in Users |-> Grant]
  BY DEF Blank
<1>6. Blank \in ChainType
  <2>1. NoAllowance \in [Spenders -> Nat]
    BY DEF NoAllowance, Spenders
  <2>2. [u \in Users |-> [t \in Tokens |-> 0]] \in StockType /\ [u \in Users |-> [t \in Tokens |-> Grant]] \in StockType
    BY <1>1 DEF StockType
  <2>3. [t \in Tokens |-> [price |-> 0, at |-> 0]] \in [Tokens -> [price : Nat, at : Nat]]
    OBVIOUS
  <2>4. [u \in Users |-> NoAllowance] \in [Users -> [Spenders -> Nat]]
    BY <2>1
  <2>5. Blank = [pool |-> NewPool(Users), position |-> [u \in Users |-> [principal |-> 0, settled |-> 0, since |-> 0]],
                 shares |-> [u \in Users |-> 0], wallet |-> [u \in Users |-> Grant], allowed |-> [u \in Users |-> NoAllowance],
                 stock |-> [u \in Users |-> [t \in Tokens |-> 0]], stockWallet |-> [u \in Users |-> [t \in Tokens |-> Grant]],
                 feed |-> [t \in Tokens |-> [price |-> 0, at |-> 0]], now |-> 0, paused |-> FALSE, height |-> 0]
    BY DEF Blank
  <2> QED BY <1>1, <1>4, <2>2, <2>3, <2>4, <2>5 DEF ChainType
<1>7. NeverAhead(Blank) /\ LedgerLasts(Blank)
  BY <1>4, <1>5 DEF NeverAhead, LedgerLasts
<1> QED BY <1>4, <1>5, <1>6, <1>7 DEF ChainOK

LEMMA FundedOK ==
  /\ ChainOK(Funded) /\ Funded.now = 0 /\ Funded.pool.cash = Grant /\ Funded.pool.entries = "open"
  /\ Funded.wallet["bo"] = Grant
<1>1. Grant \in Nat /\ "lee" \in Users /\ "bo" \in Users /\ "pool" \in Spenders
  BY SumsAreAmounts, UsersAreTwo DEF Spenders
<1>2. PICK e : e = [Blank EXCEPT !.allowed["lee"]["pool"] = Grant]
  OBVIOUS
<1>3. ChainOK(e) /\ e.pool = Blank.pool /\ e.now = Blank.now /\ e.wallet = Blank.wallet /\ e.allowed["lee"]["pool"] = Grant
  BY <1>1, <1>2, BlankOK, AllowanceKeepsChain
<1>4. CanPull(e, "lee", "pool", Grant) /\ e.wallet \in [Users -> Nat]
  BY <1>1, <1>3, BlankOK DEF CanPull
<1>5. /\ ChainOK(Supplied(e, "lee", Grant)) /\ Supplied(e, "lee", Grant).pool.cash = e.pool.cash + Grant
      /\ Supplied(e, "lee", Grant).pool.entries = e.pool.entries
      /\ Supplied(e, "lee", Grant).now = e.now
      /\ Supplied(e, "lee", Grant).wallet = [e.wallet EXCEPT !["lee"] = e.wallet["lee"] - Grant]
  BY <1>1, <1>3, <1>4, SuppliedKeepsChain
<1>6. Lent = Supplied(e, "lee", Grant)
  BY <1>2 DEF Lent
<1>7. ChainOK(Lent) /\ Lent.pool.cash = Grant /\ Lent.now = 0 /\ Lent.wallet["bo"] = Grant
      /\ Lent.wallet \in [Users -> Nat] /\ Lent.pool.entries = "open"
  <2>1. ChainOK(Lent) /\ Lent.pool.cash = 0 + Grant /\ Lent.now = 0 /\ Lent.pool.entries = "open"
    BY <1>3, <1>5, <1>6, BlankOK
  <2>2. Lent.wallet["bo"] = e.wallet["bo"] /\ e.wallet["bo"] = Grant
    BY <1>1, <1>3, <1>4, <1>5, <1>6, BlankOK
  <2>3. Lent.wallet \in [Users -> Nat]
    BY <1>1, <2>1, ChainReads
  <2> QED BY <1>1, <2>1, <2>2, <2>3
<1>8. /\ ChainOK(Funded) /\ Funded.pool = Lent.pool /\ Funded.now = Lent.now
      /\ Funded.wallet = [Lent.wallet EXCEPT !["lee"] = Grant]
  BY <1>1, <1>7, WalletKeepsChain DEF Funded
<1> QED BY <1>1, <1>7, <1>8

\* The loan a page may find is one the pool's cash covered, its fee with it.
LEMMA BeforeOK ==
  ASSUME NEW p, NEW loan \in Nat, loan + FeeOn(loan) <= Grant
  PROVE  ChainOK(Before(p, loan)) /\ Before(p, loan).now = 0
<1>1. Grant \in Nat /\ Grant > 0 /\ "bo" \in Users /\ "vault" \in Spenders /\ FeeOn(loan) \in Nat
  BY SumsAreAmounts, UsersAreTwo, FeeIsNat DEF Spenders
<1>2. PICK e : e = [Funded EXCEPT !.allowed["bo"]["vault"] = Grant]
  OBVIOUS
<1>3. PICK staked : staked = Deposit(e, "bo", Grant)
  OBVIOUS
<1>4. ChainOK(staked) /\ staked.pool = Funded.pool /\ staked.now = 0
  <2>1. ChainOK(e) /\ e.pool = Funded.pool /\ e.now = 0 /\ e.wallet = Funded.wallet /\ e.allowed["bo"]["vault"] = Grant
    BY <1>1, <1>2, FundedOK, AllowanceKeepsChain
  <2>2. CanPull(e, "bo", "vault", Grant)
    BY <1>1, <2>1, FundedOK DEF CanPull
  <2>3. ChainOK(staked) /\ staked.pool = e.pool /\ staked.now = e.now
    BY <1>1, <1>3, <2>1, <2>2, DepositKeepsChain
  <2> QED BY <2>1, <2>3
<1>5. PICK pledged : pledged = [Funded EXCEPT !.stock["bo"] = [t \in Tokens |-> Grant]]
  OBVIOUS
<1>6. ChainOK(pledged) /\ pledged.pool = Funded.pool /\ pledged.now = 0
  <2>1. [t \in Tokens |-> Grant] \in [Tokens -> Nat]
    BY <1>1
  <2>2. ChainOK(Funded) /\ Funded.now = 0
    BY FundedOK
  <2>3. pledged \in ChainType
    BY <1>1, <1>5, <2>1, <2>2 DEF ChainOK, ChainType, StockType
  <2>4. /\ pledged.pool = Funded.pool /\ pledged.position = Funded.position
        /\ pledged.shares = Funded.shares /\ pledged.now = Funded.now
    BY <1>5, <2>2 DEF ChainOK, ChainType
  <2> QED BY <2>2, <2>3, <2>4, OthersKeepChain
\* Interest has had no time to change the pool's cash.
<1>7. ASSUME NEW c, ChainOK(c), c.pool = Funded.pool, loan # 0, NEW a \in {loan, loan + FeeOn(loan)}
      PROVE  CanBorrow(Accrued(c).pool, a)
  <2>1. Accrued(c).pool = Accrue(c.pool, c.now)
    BY <1>7, AccruedKeepsChain
  <2>2. PoolOK(c.pool) /\ c.pool.accruedAt <= c.now /\ c.now \in Nat
    BY <1>1, <1>7, ChainReads
  <2>3. Accrue(c.pool, c.now).cash = c.pool.cash /\ Accrue(c.pool, c.now).entries = c.pool.entries
    BY <2>2, AccrueKeepsBooks
  <2>4. c.pool.cash = Grant /\ c.pool.entries = "open"
    BY <1>7, FundedOK
  <2>5. a > 0 /\ a <= Grant
    BY <1>1, <1>7
  <2> QED BY <2>1, <2>3, <2>4, <2>5 DEF CanBorrow
<1>8. ASSUME loan # 0
      PROVE  ChainOK(VaultBorrow(staked, "bo", loan)) /\ VaultBorrow(staked, "bo", loan).now = 0
  <2>1. ChainOK(Settle(staked, "bo")) /\ Settle(staked, "bo").pool = Funded.pool
    BY <1>1, <1>4, SettleKeepsChain
  <2>2. CanBorrow(Accrued(Settle(staked, "bo")).pool, loan)
    BY <1>7, <1>8, <2>1
  <2> QED BY <1>1, <1>4, <2>2, VaultBorrowKeepsChain
<1>9. ASSUME loan # 0
      PROVE  ChainOK(StockBorrow(pledged, "bo", loan)) /\ StockBorrow(pledged, "bo", loan).now = 0
  <2>1. CanBorrow(Accrued(pledged).pool, loan + FeeOn(loan))
    BY <1>6, <1>7, <1>9
  <2> QED BY <1>1, <1>6, <2>1, StockBorrowKeepsChain
<1>10. CASE p \in StockPages
  <2>1. Before(p, loan) = IF loan = 0 THEN pledged ELSE StockBorrow(pledged, "bo", loan)
    BY <1>5, <1>10 DEF Before
  <2> QED BY <1>6, <1>9, <2>1
<1>11. CASE p \notin StockPages
  <2>1. PICK c : c = IF loan = 0 THEN staked ELSE VaultBorrow(staked, "bo", loan)
    OBVIOUS
  <2>2. Before(p, loan) = [c EXCEPT !.wallet["bo"] = c.wallet["bo"] + Grant]
    BY <1>2, <1>3, <1>11, <2>1 DEF Before
  <2>3. ChainOK(c) /\ c.now = 0
    BY <1>4, <1>8, <2>1
  <2>4. c.wallet["bo"] + Grant \in Nat
    <3>1. c.wallet["bo"] \in Nat
      BY <1>1, <2>3, ChainReads
    <3> QED BY <1>1, <3>1
  <2>5. /\ ChainOK([c EXCEPT !.wallet["bo"] = c.wallet["bo"] + Grant])
        /\ [c EXCEPT !.wallet["bo"] = c.wallet["bo"] + Grant].now = c.now
    BY <1>1, <2>3, <2>4, WalletKeepsChain
  <2> QED BY <2>2, <2>3, <2>5
<1> QED BY <1>10, <1>11

-----------------------------------------------------------------------------
(* The inductive invariant: the chain in order, reads of a chain in order, and
   jobs that name a positive amount. The reads count: a form computes what it
   sends from what was read, whenever that was. *)

SendOK(s) ==
  \/ s = Idle
  \/ /\ s = [step |-> s.step, job |-> s.job, height |-> s.height, at |-> s.at]
     /\ s.step \in {"approve", "call", "refused"} /\ JobOK(s.job)
SentOK ==
  /\ sent = [f \in Forms(page) |-> sent[f]]
  /\ \A f \in Forms(page) : SendOK(sent[f])

LendingInv == page \in Pages /\ ChainOK(chain) /\ SeenOK /\ SentOK

LEMMA InitEstablishesLending == Init => LendingInv
<1> SUFFICES ASSUME Init PROVE LendingInv
  OBVIOUS
<1>1. PICK start \in Starts, poked \in BOOLEAN :
        LET c == [Before(page, start.loan) EXCEPT
                    !.now = start.age,
                    !.feed = IF page \in StockPages THEN [t \in Tokens |-> [price |-> start.price, at |-> start.age]] ELSE @] IN
        chain = IF poked THEN Accrued(c) ELSE c
  BY DEF Init
<1>2. PICK b : b = Before(page, start.loan)
  OBVIOUS
<1>3. PICK c : c = [b EXCEPT !.now = start.age,
                            !.feed = IF page \in StockPages THEN [t \in Tokens |-> [price |-> start.price, at |-> start.age]] ELSE @]
  OBVIOUS
<1>4. start.loan \in Nat /\ start.age \in Nat /\ start.price \in Nat /\ start.loan + FeeOn(start.loan) <= Grant
  BY StartsAreLoans, SumsAreAmounts
<1>5. ChainOK(b) /\ b.now = 0
  BY <1>2, <1>4, BeforeOK
<1>6. ChainOK(c)
  <2>1. [t \in Tokens |-> [price |-> start.price, at |-> start.age]] \in [Tokens -> [price : Nat, at : Nat]]
    BY <1>4
  <2>2. c \in ChainType
    BY <1>3, <1>4, <1>5, <2>1 DEF ChainOK, ChainType
  <2>3. c.pool = b.pool /\ c.position = b.position /\ c.shares = b.shares /\ c.now = start.age
    BY <1>3, <1>5 DEF ChainOK, ChainType
  <2>4. TotalsAreSums(c.pool) /\ LedgerLasts(c)
    BY <1>5, <2>3 DEF ChainOK, LedgerLasts
  <2>5. NeverAhead(c)
    <3>1. b.pool.accruedAt \in Nat /\ b.pool.accruedAt <= 0
      BY <1>5 DEF ChainOK, ChainType, PoolType, NeverAhead
    <3>2. \A u \in Users : b.position[u].since \in Nat /\ b.position[u].since <= 0
      BY <1>5 DEF ChainOK, ChainType, NeverAhead
    <3> QED BY <1>4, <2>3, <3>1, <3>2 DEF NeverAhead
  <2> QED BY <2>2, <2>4, <2>5 DEF ChainOK
<1>7. ChainOK(chain)
  <2>1. chain = IF poked THEN Accrued(c) ELSE c
    BY <1>1, <1>2, <1>3
  <2>2. ChainOK(Accrued(c))
    BY <1>6, AccruedKeepsChain
  <2> QED BY <1>6, <2>1, <2>2
<1>8. page \in Pages /\ seen = [part \in Reads(page) |-> Reading(part, chain)] /\ sent = [f \in Forms(page) |-> Idle]
  BY DEF Init
<1>9. SeenOK
  BY <1>7, <1>8, PageParts, ReadingOK DEF SeenOK
<1>10. SentOK
  BY <1>8 DEF SentOK, SendOK
<1> QED BY <1>7, <1>8, <1>9, <1>10 DEF LendingInv

LEMMA StepKeepsLending == LendingInv /\ [Next]_vars => LendingInv'
<1> SUFFICES ASSUME LendingInv, [Next]_vars PROVE LendingInv'
  OBVIOUS
<1>1. page \in Pages /\ ChainOK(chain) /\ SeenOK /\ SentOK
  BY DEF LendingInv
<1>2. page' = page
  BY DEF Next, vars, Tick, OthersAct, Refetch, Submit, ApprovalMined, CallMined, CallRefused, Declined
<1>3. seen' = seen => SeenOK'
  BY <1>1, <1>2 DEF SeenOK
<1>4. sent' = sent => SentOK'
  BY <1>1, <1>2 DEF SentOK
\* What one form's send becomes leaves the others.
<1>5. ASSUME NEW form \in Forms(page), NEW s, SendOK(s), sent' = [sent EXCEPT ![form] = s]
      PROVE  SentOK'
  <2>1. sent' = [f \in Forms(page) |-> sent'[f]] /\ \A f \in Forms(page) : sent'[f] \in {s, sent[f]}
    BY <1>1, <1>5 DEF SentOK
  <2>2. \A f \in Forms(page) : SendOK(sent'[f])
    BY <1>1, <1>5, <2>1 DEF SentOK
  <2> QED BY <1>2, <2>1, <2>2 DEF SentOK
\* One part read again, from a chain in order.
<1>6. ASSUME NEW part \in Reads(page), NEW c, ChainOK(c), seen' = [seen EXCEPT ![part] = Reading(part, c)]
      PROVE  SeenOK'
  <2>1. ReadOK(part, Reading(part, c).is)
    BY <1>1, <1>6, PageParts, ReadingOK
  <2>2. /\ seen' = [x \in Reads(page) |-> seen'[x]]
        /\ seen'[part] = Reading(part, c) /\ \A x \in Reads(page) : x # part => seen'[x] = seen[x]
    BY <1>1, <1>6 DEF SeenOK
  <2>3. \A x \in Reads(page) : ReadOK(x, seen'[x].is)
    BY <1>1, <2>1, <2>2 DEF SeenOK
  <2> QED BY <1>2, <2>2, <2>3 DEF SeenOK
<1>7. CASE UNCHANGED vars
  BY <1>1, <1>2, <1>3, <1>4, <1>7 DEF vars, LendingInv
<1>8. chain.height + 1 \in Nat
  BY <1>1 DEF ChainOK, ChainType
<1>9. CASE Tick
  <2>1. PICK d : d = [chain EXCEPT !.now = chain.now + 1]
    OBVIOUS
  <2>2. d \in ChainType
    <3>1. chain.now + 1 \in Nat
      BY <1>1 DEF ChainOK, ChainType
    <3> QED BY <1>1, <2>1, <3>1 DEF ChainOK, ChainType
  <2>3. d.pool = chain.pool /\ d.position = chain.position /\ d.shares = chain.shares /\ d.now = chain.now + 1
    BY <1>1, <2>1 DEF ChainOK, ChainType
  <2>4. NeverAhead(d)
    <3>1. chain.now \in Nat /\ chain.pool.accruedAt \in Nat /\ \A u \in Users : chain.position[u].since \in Nat
      BY <1>1 DEF ChainOK, ChainType, PoolType
    <3> QED BY <1>1, <2>3, <3>1 DEF ChainOK, NeverAhead
  <2>5. ChainOK(d)
    BY <1>1, <2>2, <2>3, <2>4 DEF ChainOK, LedgerLasts
  <2>6. chain' = d /\ seen' = seen /\ sent' = sent
    BY <1>9, <2>1 DEF Tick
  <2> QED BY <1>1, <1>2, <1>3, <1>4, <2>5, <2>6 DEF LendingInv
<1>10. CASE OthersAct
  <2>1. PICK c \in OwnerCalls(chain) \cup (IF page \in StockPages THEN OthersInStocks(chain) ELSE OthersInVault(chain)) :
          chain' = [c EXCEPT !.height = chain.height + 1]
    BY <1>10 DEF OthersAct
  <2>2. ChainOK(c)
    BY <1>1, <2>1, OwnerKeepsChain, OthersInStocksKeepChain, OthersInVaultKeepChain
  <2>3. ChainOK([c EXCEPT !.height = chain.height + 1])
    BY <2>2, <1>8, MinedKeepsChain
  <2>4. ChainOK(chain') /\ seen' = seen /\ sent' = sent
    BY <1>10, <2>1, <2>3 DEF OthersAct
  <2> QED BY <1>1, <1>2, <1>3, <1>4, <2>4 DEF LendingInv
<1>11. ASSUME NEW part \in Reads(page), Refetch(part) PROVE LendingInv'
  <2>1. seen' = [seen EXCEPT ![part] = Reading(part, chain)] /\ chain' = chain /\ sent' = sent
    BY <1>11 DEF Refetch
  <2>2. SeenOK'
    BY <1>1, <1>6, <2>1
  <2> QED BY <1>1, <1>2, <1>4, <2>1, <2>2 DEF LendingInv
<1>12. ASSUME NEW form \in Forms(page), Submit(form) PROVE LendingInv'
  <2>1. PICK j \in Offers(form) :
          sent' = [sent EXCEPT ![form] = [step |-> IF j.approve > 0 THEN "approve" ELSE "call", job |-> j,
                                          height |-> Min({seen[part].height : part \in Reads(page)}), at |-> chain.now]]
    BY <1>12 DEF Submit
  <2>2. JobOK(j)
    BY <1>1, <2>1, OffersOK
  <2>3. PICK s : s = [step |-> IF j.approve > 0 THEN "approve" ELSE "call", job |-> j,
                      height |-> Min({seen[part].height : part \in Reads(page)}), at |-> chain.now]
    OBVIOUS
  <2>4. SendOK(s)
    BY <2>2, <2>3 DEF SendOK
  <2>5. SentOK'
    BY <1>5, <2>1, <2>3, <2>4
  <2>6. chain' = chain /\ seen' = seen
    BY <1>12 DEF Submit
  <2> QED BY <1>1, <1>2, <1>3, <2>5, <2>6 DEF LendingInv
\* A prompt's send goes on with the same job.
<1>13. ASSUME NEW form \in Forms(page), sent[form].step \in {"approve", "call"}, NEW step \in {"call", "refused"}
       PROVE  SendOK([sent[form] EXCEPT !.step = step]) /\ JobOK(sent[form].job)
  <2>1. sent[form] # Idle
    BY <1>13 DEF Idle
  <2>2. /\ sent[form] = [step |-> sent[form].step, job |-> sent[form].job, height |-> sent[form].height, at |-> sent[form].at]
        /\ JobOK(sent[form].job)
    BY <1>1, <2>1 DEF SentOK, SendOK
  <2>3. PICK s : s = [sent[form] EXCEPT !.step = step]
    OBVIOUS
  <2>4. s = [step |-> step, job |-> sent[form].job, height |-> sent[form].height, at |-> sent[form].at]
    BY <2>2, <2>3
  <2>5. SendOK(s)
    BY <2>2, <2>4 DEF SendOK
  <2> QED BY <2>2, <2>3, <2>5
<1>14. ASSUME NEW form \in Forms(page), ApprovalMined(form) PROVE LendingInv'
  <2>1. PICK j : j = sent[form].job
    OBVIOUS
  <2>2. PICK b : b = [sent[form] EXCEPT !.step = "call"]
    OBVIOUS
  <2>3. SendOK(b) /\ JobOK(j)
    BY <1>13, <1>14, <2>1, <2>2 DEF ApprovalMined
  <2>4. PICK s : s = [sent[form] EXCEPT !.step = "call", !.height = IF @ = chain.height THEN chain.height + 1 ELSE @]
    OBVIOUS
  <2>5. SendOK(s)
    <3>1. sent[form] # Idle
      BY <1>14 DEF ApprovalMined, Idle
    <3>2. /\ sent[form] = [step |-> sent[form].step, job |-> sent[form].job, height |-> sent[form].height, at |-> sent[form].at]
          /\ JobOK(sent[form].job)
      BY <1>1, <3>1 DEF SentOK, SendOK
    <3> DEFINE h == IF sent[form].height = chain.height THEN chain.height + 1 ELSE sent[form].height
    <3>3. s = [sent[form] EXCEPT !.step = "call", !.height = h]
      BY <2>4
    <3> HIDE DEF h
    <3>4. s = [step |-> "call", job |-> sent[form].job, height |-> h, at |-> sent[form].at]
      BY <3>2, <3>3
    <3> QED BY <3>2, <3>4 DEF SendOK
  <2>6. PICK spender : spender = IF j.of = "none" THEN Spender ELSE j.of
    OBVIOUS
  <2>7. spender \in Spenders /\ Me \in Users /\ j.approve \in Nat
    BY <2>3, <2>6, MyAccount DEF JobOK, Spenders
  <2>8. chain' = [[chain EXCEPT !.allowed[Me][spender] = j.approve] EXCEPT !.height = chain.height + 1]
    BY <1>14, <2>1, <2>6 DEF ApprovalMined
  <2>9. ChainOK(chain')
    BY <1>1, <1>8, <2>7, <2>8, AllowanceKeepsChain, MinedKeepsChain
  <2>10. SeenOK'
    <3>1. CASE "allowance" \in Reads(page)
      <4>1. seen' = [seen EXCEPT !["allowance"] = Reading("allowance", chain')]
        BY <1>14, <3>1 DEF ApprovalMined
      <4> QED BY <1>6, <2>9, <3>1, <4>1
    <3>2. CASE "allowance" \notin Reads(page)
      BY <1>3, <1>14, <3>2 DEF ApprovalMined
    <3> QED BY <3>1, <3>2
  <2>11. SentOK'
    <3>1. sent' = [sent EXCEPT ![form] = s]
      BY <1>14, <2>4 DEF ApprovalMined
    <3> QED BY <1>5, <2>5, <3>1
  <2> QED BY <1>1, <1>2, <2>9, <2>10, <2>11 DEF LendingInv
<1>15. ASSUME NEW form \in Forms(page), CallMined(form) PROVE LendingInv'
  <2>1. JobOK(sent[form].job) /\ Accepts(chain, sent[form].job)
    BY <1>13, <1>15 DEF CallMined
  <2>2. PICK c : c = Applied(chain, sent[form].job)
    OBVIOUS
  <2>3. ChainOK(c)
    BY <1>1, <2>1, <2>2, CallKeepsChain
  <2>4. ChainOK([c EXCEPT !.height = chain.height + 1])
    BY <2>3, <1>8, MinedKeepsChain
  <2>5. chain' = [c EXCEPT !.height = chain.height + 1] /\ seen' = seen /\ sent' = [sent EXCEPT ![form] = Idle]
    BY <1>15, <2>2 DEF CallMined
  <2>6. SentOK'
    BY <1>5, <2>5 DEF SendOK
  <2> QED BY <1>1, <1>2, <1>3, <2>4, <2>5, <2>6 DEF LendingInv
<1>16. ASSUME NEW form \in Forms(page), CallRefused(form) PROVE LendingInv'
  <2>1. PICK s : s = [sent[form] EXCEPT !.step = "refused"]
    OBVIOUS
  <2>2. SendOK(s)
    BY <1>13, <1>16, <2>1 DEF CallRefused
  <2>3. sent' = [sent EXCEPT ![form] = s] /\ chain' = chain /\ seen' = seen
    BY <1>16, <2>1 DEF CallRefused
  <2> QED BY <1>1, <1>2, <1>3, <1>5, <2>2, <2>3 DEF LendingInv
<1>17. ASSUME NEW form \in Forms(page), Declined(form) PROVE LendingInv'
  <2>1. sent' = [sent EXCEPT ![form] = Idle] /\ chain' = chain /\ seen' = seen
    BY <1>17 DEF Declined
  <2> QED BY <1>1, <1>2, <1>3, <1>5, <2>1 DEF LendingInv, SendOK
<1> QED BY <1>7, <1>9, <1>10, <1>11, <1>12, <1>14, <1>15, <1>16, <1>17 DEF Next

-----------------------------------------------------------------------------

\* Whatever the pages read and send and the others do in between, the chain stays in
\* order: LendingInv is inductive.
THEOREM LendingInvariance == Spec => []LendingInv
<1>1. Init => LendingInv
  BY InitEstablishesLending
<1>2. LendingInv /\ [Next]_vars => LendingInv'
  BY StepKeepsLending
<1> QED BY <1>1, <1>2, PTL DEF Spec

\* No balance, holding, reserve or cash of the pool and of the two vaults goes below
\* zero, and no index falls to nothing.
THEOREM LendingTypeCorrect == Spec => []LendingTypeOK
<1>1. LendingInv => LendingTypeOK
  <2> SUFFICES ASSUME LendingInv PROVE LendingTypeOK
    OBVIOUS
  <2>1. ChainOK(chain) /\ SentOK
    BY DEF LendingInv
  <2>2. \A u \in Users : /\ chain.wallet[u] \in Nat /\ chain.shares[u] \in Nat
                         /\ chain.pool.supply[u] \in Nat /\ chain.pool.debt[u] \in Nat
    BY <2>1 DEF ChainOK, ChainType, PoolType
  <2>3. \A u \in Users, t \in Tokens : chain.stock[u][t] \in Nat /\ chain.stockWallet[u][t] \in Nat
    BY <2>1 DEF ChainOK, ChainType, StockType
  <2>4. /\ chain.pool.cash \in Nat /\ chain.pool.reserves \in Nat /\ chain.pool.unsocialised \in Nat
        /\ chain.pool.supplyIndex > 0 /\ chain.pool.borrowIndex >= RAY
    BY <2>1 DEF ChainOK, ChainType, PoolType
  <2>5. \A f \in Forms(page) : sent[f].step \in {"idle", "approve", "call", "refused"}
    BY <2>1 DEF SentOK, SendOK, Idle
  <2> QED BY <2>2, <2>3, <2>4, <2>5 DEF LendingTypeOK
<1> QED BY <1>1, LendingInvariance, PTL

\* The scaled totals the pool keeps are the sums of its accounts' scaled parts, and a
\* staked position's ledger lasts exactly as long as its shares.
THEOREM BooksAddUp == Spec => []PartsAddUp
<1>1. LendingInv => PartsAddUp
  <2> SUFFICES ASSUME LendingInv PROVE PartsAddUp
    OBVIOUS
  <2>1. ChainOK(chain)
    BY DEF LendingInv
  <2>2. TotalsAreSums(chain.pool)
    BY <2>1 DEF ChainOK
  <2>3. ASSUME NEW u \in Users PROVE chain.shares[u] = 0 <=> TotalLedgerValue(chain, u) = 0
    <3>1. /\ chain.position[u].principal \in Nat /\ chain.position[u].settled \in Nat
          /\ AccruedYield(chain, u) \in Nat /\ chain.position[u].since \in Nat /\ chain.now \in Nat
      BY <2>1, ChainReads
    <3>2. chain.position[u].principal = 0 => AccruedYield(chain, u) = 0
      <4>1. chain.now - chain.position[u].since \in Nat
        BY <2>1, <3>1 DEF ChainOK, NeverAhead
      <4>2. YieldRate \in Nat /\ WAD \in Nat /\ WAD > 0
        BY RatesAreShares, ScalesAreUnits
      <4>3. YieldRate * (chain.now - chain.position[u].since) \in Nat
        BY <4>1, <4>2
      <4> QED BY <4>2, <4>3, MulDivOfNothing DEF AccruedYield
    <3>3. IF chain.shares[u] = 0 THEN chain.position[u].principal = 0 /\ chain.position[u].settled = 0
                                 ELSE chain.position[u].principal >= chain.shares[u]
      BY <2>1 DEF ChainOK, LedgerLasts
    <3>4. chain.shares[u] \in Nat
      BY <2>1, ChainReads
    <3>5. PICK p \in Nat, b \in Nat, y \in Nat :
             p = chain.position[u].principal /\ b = chain.position[u].settled /\ y = AccruedYield(chain, u)
      BY <3>1
    <3>6. TotalLedgerValue(chain, u) = p + b + y
      BY <3>5 DEF TotalLedgerValue
    <3>7. CASE chain.shares[u] = 0
      BY <3>2, <3>3, <3>5, <3>6, <3>7
    <3>8. CASE chain.shares[u] # 0
      <4>1. p > 0
        BY <3>3, <3>4, <3>5, <3>8
      <4> QED BY <3>5, <3>6, <3>8, <4>1
    <3> QED BY <3>7, <3>8
  <2> QED BY <2>2, <2>3 DEF PartsAddUp, TotalsAreSums
<1> QED BY <1>1, LendingInvariance, PTL

\* A settled round's proceeds are never offered against more debt than there is, and
\* proceeds that reach the lien leave none of it, however the debt rounds.
THEOREM ProceedsClear == Spec => []ProceedsClearTheLien
<1>1. LendingInv => ProceedsClearTheLien
  <2> SUFFICES ASSUME LendingInv, NEW a \in Proceeds
               PROVE  LET d == Accrued(chain)
                          repaid == d.wallet["bo"] + a - OnPositionSettled(chain, "bo", a).wallet["bo"] IN
                      /\ repaid > 0 => CanRepay(d.pool, "bo", repaid)
                      /\ a >= LienOf(d, "bo") => LienOf(OnPositionSettled(chain, "bo", a), "bo") = 0
    BY DEF ProceedsClearTheLien
  <2>1. PICK d : d = Accrued(chain)
    OBVIOUS
  <2>2. PICK e : e = OnPositionSettled(chain, "bo", a)
    OBVIOUS
  <2>3. PICK paid : paid = Lower(a, LienOf(d, "bo"))
    OBVIOUS
  <2>4. ChainOK(chain) /\ a \in Nat /\ "bo" \in Users
    BY SumsAreAmounts, UsersAreTwo DEF LendingInv
  <2>5. /\ paid \in Nat /\ paid <= LienOf(d, "bo")
        /\ e.wallet["bo"] = d.wallet["bo"] + (a - paid) /\ d.wallet["bo"] \in Nat
        /\ a >= LienOf(d, "bo") => LienOf(e, "bo") = 0
    BY <2>1, <2>2, <2>3, <2>4, ProceedsKeepChain
  <2>6. d.wallet["bo"] + a - e.wallet["bo"] = paid
    BY <2>4, <2>5
  <2>7. paid > 0 => CanRepay(d.pool, "bo", paid)
    BY <2>5 DEF CanRepay, LienOf
  <2> QED BY <2>1, <2>2, <2>5, <2>6, <2>7
<1> QED BY <1>1, LendingInvariance, PTL

-----------------------------------------------------------------------------
(* The figures the pages show. First the arithmetic of a debt: what a loan and
   a repayment make of a balance, to a scaled unit. *)

\* A number of whole parts more, and a remainder, moves the floor by as many.
LEMMA FloorShifts ==
  ASSUME NEW x \in Nat, NEW y \in Nat, NEW n \in Nat, NEW i \in Nat, NEW c \in Nat, c > 0,
         x + n * c <= y, y <= x + n * c + i
  PROVE  /\ (x \div c) + n <= y \div c
         /\ y \div c <= (x \div c) + n + ((i \div c) + 1)
<1>1. PICK p \in Nat : p = x \div c /\ p * c <= x /\ x < (p + 1) * c
  BY DivBounds
<1>2. PICK q \in Nat : q = y \div c /\ q * c <= y /\ y < (q + 1) * c
  BY DivBounds
<1>3. PICK k \in Nat : k = i \div c /\ i < (k + 1) * c
  BY DivBounds
<1>4. /\ p * c \in Nat /\ (p + 1) * c \in Nat /\ q * c \in Nat /\ (q + 1) * c \in Nat
      /\ (k + 1) * c \in Nat /\ n * c \in Nat /\ (p + n) * c \in Nat /\ (p + n + k + 2) * c \in Nat
  BY MulIsNat
<1>5. (p + n) * c = p * c + n * c
  OBVIOUS
<1>6. (p + n + k + 2) * c = (p + 1) * c + n * c + (k + 1) * c
  OBVIOUS
<1>7. p + n < q + 1
  <2>1. (p + n) * c < (q + 1) * c
    BY <1>1, <1>2, <1>4, <1>5
  <2> QED BY <2>1, LessCancels
<1>8. q < p + n + k + 2
  <2>1. q * c < (p + n + k + 2) * c
    BY <1>1, <1>2, <1>3, <1>4, <1>6
  <2> QED BY <2>1, LessCancels
<1> QED
  BY <1>1, <1>2, <1>3, <1>7, <1>8

\* A floor of the right product, and a ceiling.
LEMMA ScaledDown ==
  ASSUME NEW a \in Nat, NEW b \in Nat, NEW c \in Nat, c > 0
  PROVE  /\ MulDiv(a, b, c) \in Nat
         /\ MulDiv(a, b, c) * c <= a * b
         /\ a * b <= MulDiv(a, b, c) * c + c
<1>1. a * b \in Nat
  BY MulIsNat
<1>2. PICK q \in Nat : q = MulDiv(a, b, c) /\ q * c <= a * b /\ a * b < (q + 1) * c
  BY <1>1, DivBounds DEF MulDiv
<1>3. (q + 1) * c = q * c + c /\ q * c \in Nat
  BY MulIsNat
<1> QED
  BY <1>1, <1>2, <1>3

LEMMA ScaledUp ==
  ASSUME NEW a \in Nat, NEW b \in Nat, NEW c \in Nat, c > 0
  PROVE  /\ MulDivUp(a, b, c) \in Nat
         /\ a * b <= MulDivUp(a, b, c) * c
         /\ MulDivUp(a, b, c) * c <= a * b + c
<1>1. a * b \in Nat /\ a * b + c - 1 \in Nat
  BY MulIsNat
<1>2. PICK q \in Nat : q = MulDivUp(a, b, c) /\ q * c <= a * b + c - 1 /\ a * b + c - 1 < (q + 1) * c
  BY <1>1, DivBounds DEF MulDivUp
<1>3. (q + 1) * c = q * c + c /\ q * c \in Nat
  BY MulIsNat
<1> QED
  BY <1>1, <1>2, <1>3

PoolUnit(p) == p.borrowIndex \div RAY + 1

LEMMA PoolNumbers ==
  ASSUME NEW p, PoolOK(p), NEW u \in Users
  PROVE  /\ p.debt \in [Users -> Nat] /\ p.debt[u] \in Nat /\ p.borrowIndex \in Nat /\ p.borrowIndex > 0
         /\ p.cash \in Nat /\ RAY \in Nat /\ RAY > 0 /\ WAD \in Nat /\ WAD > 0
         /\ p.totalBorrowScaled \in Nat /\ p.supplyIndex \in Nat /\ p.supplyIndex > 0
         /\ p.supply[u] \in Nat /\ p.totalSupplyScaled \in Nat /\ PoolUnit(p) \in Nat /\ PoolUnit(p) > 0
<1>1. RAY \in Nat /\ RAY > 0 /\ WAD \in Nat /\ WAD > 0
  BY ScalesAreUnits
<1>2. /\ p.debt \in [Users -> Nat] /\ p.debt[u] \in Nat /\ p.borrowIndex \in Nat /\ p.borrowIndex > 0
      /\ p.cash \in Nat /\ p.totalBorrowScaled \in Nat /\ p.supplyIndex \in Nat /\ p.supplyIndex > 0
      /\ p.supply[u] \in Nat /\ p.totalSupplyScaled \in Nat
  BY <1>1 DEF PoolOK, PoolType
<1>3. PoolUnit(p) \in Nat /\ PoolUnit(p) > 0
  <2>1. p.borrowIndex \div RAY \in Nat
    BY <1>1, <1>2, DivBounds
  <2> QED BY <2>1 DEF PoolUnit
<1> QED
  BY <1>1, <1>2, <1>3

\* A loan of a adds a to the balance owed, and less than a unit of the index on top.
LEMMA DebtAfterBorrow ==
  ASSUME NEW p, PoolOK(p), NEW u \in Users, NEW a \in Nat
  PROVE  LET q == Borrow(p, u, a) IN
         /\ q.borrowIndex = p.borrowIndex
         /\ BalanceOfDebt(p, u) + a <= BalanceOfDebt(q, u)
         /\ BalanceOfDebt(q, u) <= BalanceOfDebt(p, u) + a + PoolUnit(p)
<1> DEFINE q == Borrow(p, u, a)
           scaled == MulDivUp(a, RAY, p.borrowIndex)
<1>1. /\ p.debt \in [Users -> Nat] /\ p.debt[u] \in Nat /\ p.borrowIndex \in Nat /\ p.borrowIndex > 0
      /\ RAY \in Nat /\ RAY > 0
  BY PoolNumbers
<1>2. /\ scaled \in Nat
      /\ a * RAY <= scaled * p.borrowIndex
      /\ scaled * p.borrowIndex <= a * RAY + p.borrowIndex
  BY <1>1, ScaledUp
<1>3. q.borrowIndex = p.borrowIndex /\ q.debt[u] = p.debt[u] + scaled
  BY <1>1 DEF Borrow, PoolOK, PoolType
<1> HIDE DEF scaled
<1>4. PICK i \in Nat : i = p.borrowIndex
  BY <1>1
<1>5. PICK d \in Nat : d = p.debt[u]
  BY <1>1
<1>6. (d + scaled) * i = d * i + scaled * i
  BY <1>2
<1>7. d * i \in Nat /\ scaled * i \in Nat /\ (d + scaled) * i \in Nat /\ a * RAY \in Nat
  BY <1>1, <1>2, MulIsNat
<1>8. d * i + a * RAY <= (d + scaled) * i /\ (d + scaled) * i <= d * i + a * RAY + i
  BY <1>2, <1>4, <1>6, <1>7
<1>9. /\ ((d * i) \div RAY) + a <= ((d + scaled) * i) \div RAY
      /\ ((d + scaled) * i) \div RAY <= ((d * i) \div RAY) + a + ((i \div RAY) + 1)
  BY <1>1, <1>7, <1>8, FloorShifts
<1>10. /\ BalanceOfDebt(p, u) = (d * i) \div RAY /\ BalanceOfDebt(q, u) = ((d + scaled) * i) \div RAY
       /\ PoolUnit(p) = (i \div RAY) + 1
  BY <1>3, <1>4, <1>5 DEF BalanceOfDebt, MulDiv, PoolUnit
<1> QED
  BY <1>3, <1>9, <1>10

\* A repayment of all that is owed leaves nothing, and a smaller one what it leaves
\* out, and less than a unit of the index on top.
LEMMA DebtAfterRepay ==
  ASSUME NEW p, PoolOK(p), NEW u \in Users, NEW a \in Nat, a <= BalanceOfDebt(p, u)
  PROVE  LET q == Repay(p, u, a) IN
         /\ q.borrowIndex = p.borrowIndex
         /\ a = BalanceOfDebt(p, u) => BalanceOfDebt(q, u) = 0
         /\ a < BalanceOfDebt(p, u) =>
              /\ BalanceOfDebt(p, u) - a <= BalanceOfDebt(q, u)
              /\ BalanceOfDebt(q, u) <= (BalanceOfDebt(p, u) - a) + PoolUnit(p)
<1> DEFINE q == Repay(p, u, a)
           paid == MulDiv(a, RAY, p.borrowIndex)
           scaled == Repaid(p, u, a)
<1>1. /\ p.debt \in [Users -> Nat] /\ p.debt[u] \in Nat /\ p.borrowIndex \in Nat /\ p.borrowIndex > 0
      /\ RAY \in Nat /\ RAY > 0
  BY PoolNumbers
<1>2. /\ paid \in Nat
      /\ paid * p.borrowIndex <= a * RAY
      /\ a * RAY <= paid * p.borrowIndex + p.borrowIndex
  BY <1>1, ScaledDown
<1>3. q.borrowIndex = p.borrowIndex /\ q.debt[u] = p.debt[u] - scaled
  BY <1>1 DEF Repay, PoolOK, PoolType
<1>4. scaled = IF a = BalanceOfDebt(p, u) \/ paid >= p.debt[u] THEN p.debt[u] ELSE paid
  BY DEF Repaid
<1> HIDE DEF scaled, paid
<1>5. PICK i \in Nat : i = p.borrowIndex
  BY <1>1
<1>6. PICK d \in Nat : d = p.debt[u]
  BY <1>1
<1>7. BalanceOfDebt(p, u) = (d * i) \div RAY
  BY <1>5, <1>6 DEF BalanceOfDebt, MulDiv
<1>8. d * i \in Nat /\ a * RAY \in Nat /\ paid * i \in Nat
  BY <1>1, <1>2, MulIsNat
<1>9. CASE a = BalanceOfDebt(p, u)
  <2>1. q.debt[u] = 0
    BY <1>1, <1>3, <1>4, <1>9
  <2>2. BalanceOfDebt(q, u) = 0
    BY <1>1, <1>3, <2>1, MulDivOfNothing DEF BalanceOfDebt
  <2> QED BY <1>3, <1>9, <2>2, <1>7, <1>8
<1>10. CASE a < BalanceOfDebt(p, u)
  <2>1. PICK owed \in Nat : owed = (d * i) \div RAY /\ owed * RAY <= d * i
    BY <1>1, <1>8, DivBounds
  <2>2. paid < d
    <3>1. a * RAY < owed * RAY
      <4>1. (a + 1) * RAY <= owed * RAY
        BY <1>1, <1>7, <1>10, <2>1, MulMonotone
      <4>2. (a + 1) * RAY = a * RAY + RAY
        BY <1>1
      <4>3. owed * RAY \in Nat
        BY <1>1, MulIsNat
      <4> QED BY <1>1, <1>8, <4>1, <4>2, <4>3
    <3>2. owed * RAY \in Nat
      BY <1>1, MulIsNat
    <3>3. paid * i < d * i
      BY <1>2, <1>5, <1>8, <2>1, <3>1, <3>2
    <3> QED BY <1>1, <1>2, <1>5, <3>3, LessCancels
  <2>3. scaled = paid
    BY <1>4, <1>6, <1>7, <1>10, <1>2, <2>1, <2>2
  <2>4. PICK left \in Nat : left = d - paid
    BY <1>2, <2>2
  <2>5. left * i = d * i - paid * i /\ left * i \in Nat
    <3>1. (left + paid) * i = left * i + paid * i /\ left + paid = d
      BY <1>2, <2>4
    <3>2. left * i \in Nat
      BY MulIsNat
    <3> QED BY <1>8, <3>1, <3>2
  <2>6. PICK rest \in Nat : rest = owed - a
    BY <1>7, <1>10, <2>1
  <2>7. d * i <= left * i + a * RAY /\ left * i + a * RAY <= d * i + i
    BY <1>2, <1>5, <1>8, <2>5
  <2>8. /\ (d * i) \div RAY <= (left * i + a * RAY) \div RAY
        /\ (left * i + a * RAY) \div RAY <= (d * i) \div RAY + ((i \div RAY) + 1)
    <3>1. d * i + 0 * RAY <= left * i + a * RAY /\ left * i + a * RAY <= d * i + 0 * RAY + i
      BY <1>1, <1>8, <2>5, <2>7
    <3>2. left * i + a * RAY \in Nat
      BY <1>8, <2>5
    <3>3. /\ ((d * i) \div RAY) + 0 <= (left * i + a * RAY) \div RAY
          /\ (left * i + a * RAY) \div RAY <= ((d * i) \div RAY) + 0 + ((i \div RAY) + 1)
      BY <1>1, <1>8, <3>1, <3>2, FloorShifts
    <3>4. (d * i) \div RAY \in Nat /\ i \div RAY \in Nat
      BY <1>1, <1>8, DivBounds
    <3> QED BY <3>3, <3>4
  <2>9. (left * i + a * RAY) \div RAY = ((left * i) \div RAY) + a
    <3>1. PICK x \in Nat : x = (left * i) \div RAY /\ x * RAY <= left * i /\ left * i < (x + 1) * RAY
      BY <1>1, <2>5, DivBounds
    <3>2. PICK y \in Nat : /\ y = (left * i + a * RAY) \div RAY
                           /\ y * RAY <= left * i + a * RAY /\ left * i + a * RAY < (y + 1) * RAY
      BY <1>1, <1>8, <2>5, DivBounds
    <3>3. /\ (x + a) * RAY = x * RAY + a * RAY
          /\ (x + a + 1) * RAY = (x + 1) * RAY + a * RAY
      BY <1>1
    <3>4. /\ (x + a) * RAY \in Nat /\ (x + a + 1) * RAY \in Nat /\ y * RAY \in Nat /\ (y + 1) * RAY \in Nat
          /\ x * RAY \in Nat /\ (x + 1) * RAY \in Nat
      BY <1>1, MulIsNat
    <3>5. (x + a) * RAY < (y + 1) * RAY /\ y * RAY < (x + a + 1) * RAY
      BY <1>8, <2>5, <3>1, <3>2, <3>3, <3>4
    <3>6. x + a < y + 1 /\ y < x + a + 1
      BY <1>1, <3>5, LessCancels
    <3> QED BY <3>1, <3>2, <3>6
  <2>10. BalanceOfDebt(q, u) = (left * i) \div RAY
    BY <1>3, <1>5, <1>6, <2>3, <2>4 DEF BalanceOfDebt, MulDiv
  <2>11. (left * i) \div RAY \in Nat /\ i \div RAY \in Nat
    BY <1>1, <2>5, DivBounds
  <2>12. PoolUnit(p) = (i \div RAY) + 1
    BY <1>5 DEF PoolUnit
  <2> QED BY <1>3, <1>7, <1>10, <2>1, <2>8, <2>9, <2>10, <2>11, <2>12
<1>11. BalanceOfDebt(p, u) \in Nat
  BY <1>1, <1>7, <1>8, DivBounds
<1> QED
  BY <1>9, <1>10, <1>11

\* The health told at a debt, against the vault's at a debt up to a unit higher.
LEMMA HealthIsTold ==
  ASSUME NEW line \in Nat, NEW owed \in Nat, owed > 0, NEW lien \in Nat, NEW unit \in Nat,
         owed <= lien, lien <= owed + unit
  PROVE  /\ lien > unit => line \div owed <= line \div (lien - unit)
         /\ line \div (lien + unit) <= line \div owed
<1>1. ASSUME lien > unit PROVE line \div owed <= line \div (lien - unit)
  <2>1. lien - unit \in Nat /\ lien - unit > 0 /\ lien - unit <= owed
    BY <1>1
  <2> QED BY <2>1, FloorFalls
<1>2. line \div (lien + unit) <= line \div owed
  <2>1. lien + unit \in Nat /\ owed <= lien + unit
    OBVIOUS
  <2> QED BY <2>1, FloorFalls
<1> QED
  BY <1>1, <1>2

-----------------------------------------------------------------------------
(* A chain that has just accrued, and what its views depend on. *)

LEMMA QuietAccrual ==
  ASSUME NEW p, PoolOK(p)
  PROVE  Accrue(p, p.accruedAt) = p
<1>1. /\ p \in PoolType /\ p.accruedAt \in Nat /\ p.reserves \in Nat /\ p.borrowIndex \in Nat /\ p.supplyIndex \in Nat
  BY DEF PoolOK, PoolType
<1>2. \A x \in Nat : x * (p.accruedAt - p.accruedAt) = 0
  BY <1>1
<1>3. /\ BorrowRateAt(Utilization(p)) * (p.accruedAt - p.accruedAt) = 0
      /\ SupplyRateAt(Utilization(p)) * (p.accruedAt - p.accruedAt) = 0
  BY <1>2, PoolReads, UsersAreTwo, RatesAreNat
<1>4. \A x \in Nat : MulDiv(x, 0, WAD) = 0
  BY ScalesAreUnits DEF MulDiv
<1>5. MulDiv(0, ReserveFactor, WAD) = 0
  BY ScalesAreUnits, CurveIsValid, MulDivOfNothing
<1>6. TotalBorrowed(p) \in Nat
  BY PoolReads, UsersAreTwo
<1>7. Accrue(p, p.accruedAt) = [p EXCEPT !.accruedAt = p.accruedAt, !.reserves = p.reserves + 0,
                                        !.borrowIndex = p.borrowIndex + 0, !.supplyIndex = p.supplyIndex + 0]
  BY <1>1, <1>3, <1>4, <1>5, <1>6 DEF Accrue
<1>8. p.reserves + 0 = p.reserves /\ p.borrowIndex + 0 = p.borrowIndex /\ p.supplyIndex + 0 = p.supplyIndex
  BY <1>1
<1>9. [p EXCEPT !.accruedAt = p.accruedAt, !.reserves = p.reserves,
                !.borrowIndex = p.borrowIndex, !.supplyIndex = p.supplyIndex] = p
  BY <1>1 DEF PoolType
<1> QED
  BY <1>7, <1>8, <1>9

LEMMA AccruedIsQuiet ==
  ASSUME NEW c, ChainOK(c), c.pool.accruedAt = c.now
  PROVE  Accrued(c) = c
<1>1. Accrue(c.pool, c.now) = c.pool
  BY QuietAccrual, UsersAreTwo, ChainReads
<1>2. Accrued(c) = [c EXCEPT !.pool = c.pool]
  BY <1>1 DEF Accrued
<1>3. c \in ChainType
  BY DEF ChainOK
<1> QED
  BY <1>2, <1>3 DEF ChainType

LEMMA SameCollateral ==
  ASSUME NEW c, NEW d, NEW u, d.position[u] = c.position[u], d.shares[u] = c.shares[u], d.now = c.now
  PROVE  CollateralValue(d, u) = CollateralValue(c, u)
  BY DEF CollateralValue, TotalLedgerValue, AccruedYield

\* Banking the yield changes what it is called, not how much there is.
LEMMA SettleKeepsCollateral ==
  ASSUME NEW c, ChainOK(c), NEW u \in Users
  PROVE  CollateralValue(Settle(c, u), u) = CollateralValue(c, u)
<1> DEFINE d == Settle(c, u)
           earned == AccruedYield(c, u)
<1>1. /\ c.now \in Nat /\ earned \in Nat
      /\ c.position[u].principal \in Nat /\ c.position[u].settled \in Nat
  BY ChainReads
<1>2. /\ d.shares = c.shares /\ d.now = c.now
      /\ d.position[u].principal = c.position[u].principal
      /\ d.position[u].settled = c.position[u].settled + earned
      /\ d.position[u].since = c.now
  BY DEF Settle, ChainOK, ChainType
<1>3. AccruedYield(d, u) = 0
  <2>1. YieldRate * (c.now - c.now) = 0
    BY <1>1, RatesAreShares
  <2>2. MulDiv(c.position[u].principal, 0, WAD) = 0
    BY <1>1, ScalesAreUnits DEF MulDiv
  <2> QED BY <1>2, <2>1, <2>2 DEF AccruedYield
<1> HIDE DEF earned, d
<1>4. TotalLedgerValue(d, u) = c.position[u].principal + (c.position[u].settled + earned) + 0
  BY <1>2, <1>3 DEF TotalLedgerValue
<1>5. TotalLedgerValue(c, u) = c.position[u].principal + c.position[u].settled + earned
  BY DEF TotalLedgerValue, earned
<1> QED
  BY <1>1, <1>2, <1>4, <1>5 DEF CollateralValue, d

\* A page that has read the chain as it is shows the chain's own figures.
LEMMA FreshReads ==
  ASSUME NEW parts, FreshIn(parts)
  PROVE  /\ "vault" \in parts => Seen("vault") = VaultPosition(chain)
         /\ "shared" \in parts => Seen("shared") = LendShared(chain)
         /\ "mine" \in parts => Seen("mine") = BalanceOfSupply(chain.pool, Me)
         /\ "wallet" \in parts => Seen("wallet") = chain.wallet[Me]
         /\ "atRisk" \in parts => Seen("atRisk") = AtRisk(chain)
         /\ "loan" \in parts => Seen("loan") = StockLoan(chain)
<1>1. \A part \in parts : Seen(part) = Reading(part, chain).is
  BY DEF FreshIn, Seen
<1>2. /\ Reading("vault", chain).is = VaultPosition(chain)
      /\ Reading("shared", chain).is = LendShared(chain)
      /\ Reading("mine", chain).is = BalanceOfSupply(chain.pool, Me)
  BY DEF Reading
<1>3. /\ Reading("wallet", chain).is = chain.wallet[Me]
      /\ Reading("atRisk", chain).is = AtRisk(chain)
      /\ Reading("loan", chain).is = StockLoan(chain)
  BY DEF Reading
<1> QED
  BY <1>1, <1>2, <1>3

-----------------------------------------------------------------------------
(* The borrow page. *)

LEMMA VaultBorrowEffect ==
  ASSUME NEW c, ChainOK(c), c.pool.accruedAt = c.now, NEW u \in Users, NEW a \in Nat
  PROVE  /\ VaultBorrow(c, u, a).pool = Borrow(c.pool, u, a)
         /\ CollateralValue(VaultBorrow(c, u, a), u) = CollateralValue(c, u)
<1> DEFINE d == Settle(c, u)
<1>1. ChainOK(d) /\ d.pool = c.pool /\ d.now = c.now
  BY SettleKeepsChain
<1>2. CollateralValue(d, u) = CollateralValue(c, u)
  BY SettleKeepsCollateral
<1>3. VaultBorrow(c, u, a) = [Accrued(d) EXCEPT !.pool = Borrow(@, u, a), !.wallet[u] = @ + a]
  BY DEF VaultBorrow
<1> HIDE DEF d
<1>4. Accrued(d) = d
  BY <1>1, AccruedIsQuiet
<1>5. /\ VaultBorrow(c, u, a).pool = Borrow(d.pool, u, a)
      /\ VaultBorrow(c, u, a).position = d.position
      /\ VaultBorrow(c, u, a).shares = d.shares /\ VaultBorrow(c, u, a).now = d.now
  BY <1>1, <1>3, <1>4 DEF ChainOK, ChainType
<1>6. CollateralValue(VaultBorrow(c, u, a), u) = CollateralValue(d, u)
  BY <1>5, SameCollateral
<1> QED
  BY <1>1, <1>2, <1>5, <1>6

LEMMA LoanRepayEffect ==
  ASSUME NEW c, ChainOK(c), c.pool.accruedAt = c.now, NEW u \in Users, NEW a \in Nat
  PROVE  /\ LoanRepay(c, u, a).pool = Repay(c.pool, u, Lower(a, LienOf(c, u)))
         /\ CollateralValue(LoanRepay(c, u, a), u) = CollateralValue(c, u)
<1>1. Accrued(c) = c
  BY AccruedIsQuiet
<1> DEFINE due == Lower(a, LienOf(c, u))
           d == Pull(c, u, "vault", due)
<1>2. LoanRepay(c, u, a) = [d EXCEPT !.pool = Repay(@, u, due)]
  BY <1>1 DEF LoanRepay, Due
<1> HIDE DEF due
<1>3. /\ d.pool = c.pool /\ d.position = c.position /\ d.shares = c.shares /\ d.now = c.now
      /\ DOMAIN d = DOMAIN c /\ d = [x \in DOMAIN d |-> d[x]]
  BY DEF Pull, ChainOK, ChainType
<1>4. "pool" \in DOMAIN c
  BY DEF ChainOK, ChainType
<1> HIDE DEF d
<1>5. /\ LoanRepay(c, u, a).pool = Repay(d.pool, u, due)
      /\ LoanRepay(c, u, a).position = d.position
      /\ LoanRepay(c, u, a).shares = d.shares /\ LoanRepay(c, u, a).now = d.now
  BY <1>2, <1>3, <1>4
<1>6. CollateralValue(LoanRepay(c, u, a), u) = CollateralValue(c, u)
  BY <1>3, <1>5, SameCollateral
<1> QED
  BY <1>3, <1>5, <1>6 DEF due

\* What the preview says of a debt is the vault's health at that debt.
LEMMA PreviewIsHealth ==
  ASSUME NEW c, ChainOK(c), NEW delta \in Int, LienOf(c, "bo") + delta > 0
  PROVE  PreviewHealth(VaultPosition(c), delta) =
           (CollateralValue(c, "bo") * LiquidationThreshold) \div (LienOf(c, "bo") + delta)
<1>1. VaultPosition(c).lien = LienOf(c, "bo") /\ VaultPosition(c).collateral = CollateralValue(c, "bo")
  BY DEF VaultPosition
<1>2. LienOf(c, "bo") \in Nat
  BY ChainReads, UsersAreTwo
<1>3. ~(LienOf(c, "bo") + delta <= 0)
  BY <1>2
<1> QED
  BY <1>1, <1>3 DEF PreviewHealth, MulDiv

LEMMA HealthToldOfCall ==
  ASSUME NEW c, NEW line \in Nat, NEW owed \in Nat, owed > 0,
         LienOf(c, "bo") \in Nat, Unit(c) \in Nat,
         owed <= LienOf(c, "bo"), LienOf(c, "bo") <= owed + Unit(c),
         NEW shown, shown = line \div owed
  PROVE  NotAbove(c, shown, line) /\ NotBelow(c, shown, line)
<1>1. PICK lien \in Nat : lien = LienOf(c, "bo")
  OBVIOUS
<1>2. PICK unit \in Nat : unit = Unit(c)
  OBVIOUS
<1>3. /\ lien > unit => line \div owed <= line \div (lien - unit)
      /\ line \div (lien + unit) <= line \div owed
  BY <1>1, <1>2, HealthIsTold
<1> QED
  BY <1>1, <1>2, <1>3 DEF NotAbove, NotBelow

LEMMA BorrowPageTold ==
  ASSUME page = "borrow", ChainOK(chain), chain.pool.accruedAt = chain.now, Fresh,
         NEW j \in BorrowForm, Accepts(chain, j)
  PROVE  DoesAsShown(Applied(chain, j), j)
<1> DEFINE p == VaultPosition(chain)
           lien == LienOf(chain, "bo")
           line == CollateralValue(chain, "bo") * LiquidationThreshold
           pool == chain.pool
<1>1. Me = "bo" /\ "bo" \in Users
  BY UsersAreTwo DEF Me
<1>2. Seen("vault") = p /\ Seen("wallet") = chain.wallet["bo"]
  <2>1. {"vault", "wallet"} \subseteq Reads(page)
    BY DEF Reads, StockPages
  <2> QED BY <1>1, <2>1, FreshReads DEF Fresh
<1>3. /\ lien \in Nat /\ line \in Nat /\ chain.wallet["bo"] \in Nat /\ PoolOK(pool)
      /\ CollateralValue(chain, "bo") \in Nat
  <2>1. CollateralValue(chain, "bo") \in Nat /\ LiquidationThreshold \in Nat
    BY <1>1, ChainReads, RatesAreShares
  <2> QED BY <1>1, <2>1, ChainReads, MulIsNat
<1>4. p.lien = lien /\ p.borrowable = MaxBorrowable(chain, "bo")
  BY DEF VaultPosition
<1>5. PoolUnit(pool) \in Nat
  BY <1>1, <1>3, PoolNumbers
<1>6. CASE \E a \in Typed(BorrowHeadroom(p.borrowable, p.lien)) : j = Job("borrow", a, 0, PreviewHealth(p, a))
  <2>1. PICK a \in Typed(BorrowHeadroom(p.borrowable, p.lien)) : j = Job("borrow", a, 0, PreviewHealth(p, a))
    BY <1>6
  <2>2. a \in Nat /\ a > 0
    <3>1. BorrowHeadroom(p.borrowable, p.lien) \in Int
      <4>1. AccrualMargin(lien) \in Nat
        BY <1>3, MarginIsNat
      <4>2. MaxBorrowable(chain, "bo") \in Nat
        <5>1. MulDiv(CollateralValue(chain, "bo"), MaxLTV, WAD) \in Nat
          BY <1>3, MulDivIsNat, RatesAreShares, ScalesAreUnits
        <5> QED BY <1>3, <5>1 DEF MaxBorrowable
      <4> QED BY <1>4, <4>1, <4>2 DEF BorrowHeadroom
    <3> QED BY <3>1, TypedIsPositive
  <2>3. j.call = "borrow" /\ j.amount = a /\ j.shows = PreviewHealth(p, a)
    BY <2>1 DEF Job
  <2>4. PICK c : c = Applied(chain, j)
    OBVIOUS
  <2>5. c = VaultBorrow(chain, "bo", a)
    BY <1>1, <2>3, <2>4 DEF Applied
  <2>6. c.pool = Borrow(pool, "bo", a) /\ CollateralValue(c, "bo") = CollateralValue(chain, "bo")
    BY <1>1, <2>2, <2>5, VaultBorrowEffect
  <2>7. CanBorrow(pool, a)
    <3>1. CanVaultBorrow(chain, "bo", a)
      BY <1>1, <2>3 DEF Accepts
    <3>2. ChainOK(Settle(chain, "bo")) /\ Settle(chain, "bo").pool = pool /\ Settle(chain, "bo").now = chain.now
      BY <1>1, SettleKeepsChain
    <3>3. Accrued(Settle(chain, "bo")) = Settle(chain, "bo")
      BY <3>2, AccruedIsQuiet
    <3> QED BY <3>1, <3>2, <3>3 DEF CanVaultBorrow
  <2>8. LienOf(c, "bo") \in Nat
    <3>1. PoolOK(Borrow(pool, "bo", a))
      BY <1>1, <1>3, <2>2, <2>7, BorrowKeepsBooks
    <3> QED BY <1>1, <2>6, <3>1, PoolReads DEF LienOf
  <2>9. /\ Borrow(pool, "bo", a).borrowIndex = pool.borrowIndex
        /\ BalanceOfDebt(pool, "bo") + a <= BalanceOfDebt(Borrow(pool, "bo", a), "bo")
        /\ BalanceOfDebt(Borrow(pool, "bo", a), "bo") <= BalanceOfDebt(pool, "bo") + a + PoolUnit(pool)
    BY <1>1, <1>3, <2>2, DebtAfterBorrow
  <2>10. Unit(c) = PoolUnit(pool) /\ lien + a <= LienOf(c, "bo") /\ LienOf(c, "bo") <= lien + a + Unit(c)
    BY <2>6, <2>9 DEF LienOf, Unit, PoolUnit
  <2>11. j.shows = line \div (lien + a)
    BY <1>3, <2>2, <2>3, PreviewIsHealth
  <2>12. NotAbove(c, j.shows, line) /\ NotBelow(c, j.shows, line)
    <3>1. lien + a \in Nat /\ lien + a > 0
      BY <1>3, <2>2
    <3> HIDE DEF lien, line
    <3> QED BY <1>3, <1>5, <2>8, <2>10, <2>11, <3>1, HealthToldOfCall
  <2> QED BY <1>1, <2>3, <2>4, <2>6, <2>12 DEF DoesAsShown
<1>7. CASE \E a \in {x \in Typed(p.lien) : x <= Seen("wallet")} :
             j = RepayJob(a, p.lien, Seen("wallet"), Seen("allowance"), PreviewHealth(p, -a))
  <2>1. PICK a \in Typed(p.lien) :
          /\ a <= chain.wallet["bo"]
          /\ j = RepayJob(a, p.lien, Seen("wallet"), Seen("allowance"), PreviewHealth(p, -a))
    BY <1>2, <1>7
  <2>2. a \in Nat /\ a > 0 /\ a <= lien
    BY <1>3, <1>4, TypedIsPositive
  <2> DEFINE send == IF a >= lien THEN PayOffAmount(lien, chain.wallet["bo"]) ELSE a
             due == Lower(send, lien)
  <2>3. j.call = "repay" /\ j.amount = send /\ j.shows = PreviewHealth(p, -a)
    BY <1>2, <1>4, <2>1 DEF RepayJob, Job
  <2>4. due = a /\ send \in Nat
    <3>1. CASE a >= lien
      <4>1. AccrualMargin(lien) \in Nat
        BY <1>3, MarginIsNat
      <4>2. send \in Nat /\ send >= lien
        BY <1>3, <2>1, <2>2, <3>1, <4>1 DEF PayOffAmount, Lower
      <4> QED BY <1>3, <2>2, <3>1, <4>2 DEF Lower
    <3>2. CASE ~(a >= lien)
      BY <1>3, <2>2, <3>2 DEF Lower
    <3> QED BY <3>1, <3>2
  <2>5. PICK c : c = Applied(chain, j)
    OBVIOUS
  <2>6. c = LoanRepay(chain, "bo", send)
    BY <1>1, <2>3, <2>5 DEF Applied
  <2> HIDE DEF send
  <2>7. c.pool = Repay(pool, "bo", a) /\ CollateralValue(c, "bo") = CollateralValue(chain, "bo")
    BY <1>1, <2>4, <2>6, LoanRepayEffect
  <2>8. /\ Repay(pool, "bo", a).borrowIndex = pool.borrowIndex
        /\ a = BalanceOfDebt(pool, "bo") => BalanceOfDebt(Repay(pool, "bo", a), "bo") = 0
        /\ a < BalanceOfDebt(pool, "bo") =>
             /\ BalanceOfDebt(pool, "bo") - a <= BalanceOfDebt(Repay(pool, "bo", a), "bo")
             /\ BalanceOfDebt(Repay(pool, "bo", a), "bo") <= (BalanceOfDebt(pool, "bo") - a) + PoolUnit(pool)
    BY <1>1, <1>3, <2>2, DebtAfterRepay DEF LienOf
  <2>9. Unit(c) = PoolUnit(pool)
    BY <2>7, <2>8 DEF Unit, PoolUnit
  <2>10. NotAbove(c, j.shows, line) /\ NotBelow(c, j.shows, line)
    <3>1. CASE a = lien
      <4>1. LienOf(c, "bo") = 0
        BY <2>7, <2>8, <3>1 DEF LienOf
      <4>2. j.shows = NoDebt
        BY <1>3, <1>4, <2>2, <2>3, <3>1 DEF PreviewHealth
      <4> QED BY <1>5, <2>9, <4>1, <4>2 DEF NotAbove, NotBelow
    <3>2. CASE a < lien
      <4>1. lien - a <= LienOf(c, "bo") /\ LienOf(c, "bo") <= (lien - a) + Unit(c)
        BY <2>7, <2>8, <2>9, <3>2 DEF LienOf
      <4>2. LienOf(c, "bo") \in Nat
        <5>1. CanLoanRepay(chain, "bo", send)
          BY <1>1, <2>3 DEF Accepts
        <5>2. ChainOK(c)
          BY <1>1, <2>4, <2>6, <5>1, LoanRepayKeepsChain
        <5> QED BY <1>1, <5>2, ChainReads
      <4>3. lien - a \in Nat /\ lien - a > 0 /\ lien + (-a) = lien - a
        BY <1>3, <2>2, <3>2
      <4>4. j.shows = line \div (lien - a)
        BY <1>3, <2>2, <2>3, <4>3, PreviewIsHealth
      <4> HIDE DEF lien, line
      <4> QED BY <1>3, <1>5, <2>9, <4>1, <4>2, <4>3, <4>4, HealthToldOfCall
    <3> QED BY <1>3, <2>2, <3>1, <3>2
  <2> QED BY <1>1, <2>3, <2>5, <2>7, <2>10 DEF DoesAsShown
<1> QED
  BY <1>2, <1>6, <1>7 DEF BorrowForm

-----------------------------------------------------------------------------
(* The other forms. *)

\* Most buttons state no figure.
LEMMA NothingToldHolds ==
  ASSUME NEW c, NEW j, page \notin {"borrow", "lend"}, j.call \notin {"borrowStock", "liquidate", "writeOff"},
         page = "stake" => j.call # "withdraw"
  PROVE  DoesAsShown(c, j)
  BY DEF DoesAsShown

LEMMA StakePageTold ==
  ASSUME page = "stake", ChainOK(chain), chain.pool.accruedAt = chain.now, Fresh,
         NEW j \in StakeForm, Accepts(chain, j)
  PROVE  DoesAsShown(Applied(chain, j), j)
<1> DEFINE p == VaultPosition(chain)
           lien == LienOf(chain, "bo")
<1>1. Me = "bo" /\ "bo" \in Users
  BY UsersAreTwo DEF Me
<1>2. {"vault", "wallet", "allowance"} \subseteq Reads(page)
  BY DEF Reads, StockPages
<1>3. Seen("vault") = p /\ p.lien = lien
  BY <1>2, FreshReads DEF Fresh, VaultPosition
<1>4. lien \in Nat /\ chain.wallet["bo"] \in Nat
  BY <1>1, ChainReads
<1>5. CASE \E a \in Typed(Seen("wallet")) : j = Job("deposit", a, Short(Seen("allowance"), a), 0)
  <2>1. j.call = "deposit"
    BY <1>5 DEF Job
  <2> QED BY <2>1, NothingToldHolds
<1>6. CASE \E a \in {x \in Typed(p.collateral) : p.lien > 0 => x = p.collateral /\ x >= p.lien} :
             j = Job("withdraw", a, 0, a - p.lien)
  <2>1. PICK a \in Typed(p.collateral) : j = Job("withdraw", a, 0, a - lien)
    BY <1>3, <1>6
  <2>2. a \in Nat
    <3>1. p.collateral \in Nat
      BY <1>1, ChainReads DEF VaultPosition
    <3> QED BY <3>1, TypedIsPositive
  <2>3. j.call = "withdraw" /\ j.amount = a /\ j.shows = a - lien
    BY <2>1 DEF Job
  <2>4. CanVaultWithdraw(chain, "bo", a)
    BY <1>1, <2>3 DEF Accepts
  <2>5. PICK c : c = Applied(chain, j)
    OBVIOUS
  <2>6. c = VaultWithdraw(chain, "bo", a)
    BY <1>1, <2>3, <2>5 DEF Applied
  <2> DEFINE settled == Settle(chain, "bo")
             d == Burn(settled, "bo", a)
  <2>7. ChainOK(settled) /\ settled.pool = chain.pool /\ settled.wallet = chain.wallet /\ settled.shares = chain.shares
    BY <1>1, SettleKeepsChain
  <2>8. (IF LienOf(chain, "bo") > 0 THEN Accrued(chain) ELSE chain) = chain
    BY AccruedIsQuiet
  <2>9. c = [d EXCEPT !.wallet["bo"] = @ + (a - LienOf(d, "bo")),
                      !.pool = IF LienOf(d, "bo") > 0 THEN Repay(@, "bo", LienOf(d, "bo")) ELSE @]
    BY <2>6, <2>8 DEF VaultWithdraw
  <2> HIDE DEF settled
  <2>10. ChainOK(d) /\ d.pool = chain.pool /\ d.wallet = chain.wallet
    <3>1. a <= settled.shares["bo"]
      BY <2>4, <2>7 DEF CanVaultWithdraw
    <3> QED BY <1>1, <2>2, <2>7, <3>1, BurnKeepsChain
  <2> HIDE DEF d
  <2>11. LienOf(d, "bo") = lien
    BY <2>10 DEF LienOf
  <2>12. c.wallet["bo"] = chain.wallet["bo"] + (a - lien)
    <3>1. d \in ChainType
      BY <2>10 DEF ChainOK
    <3> HIDE DEF lien
    <3> QED BY <1>1, <2>9, <2>10, <2>11, <3>1 DEF ChainType
  <2>13. c.wallet[Me] - chain.wallet[Me] = j.shows
    BY <1>1, <1>4, <2>2, <2>3, <2>12
  <2> QED BY <2>3, <2>5, <2>13 DEF DoesAsShown
<1> QED
  BY <1>3, <1>5, <1>6 DEF StakeForm

\* Utilization moves with the cash alone.
LEMMA UtilizationFollowsCash ==
  ASSUME NEW p, PoolOK(p), NEW q, NEW delta \in Int, p.cash + delta >= 0,
         q.cash = p.cash + delta, q.borrowIndex = p.borrowIndex, q.totalBorrowScaled = p.totalBorrowScaled
  PROVE  Utilization(q) = UtilizationAfter(TotalBorrowed(p), p.cash, delta)
<1>1. TotalBorrowed(q) = TotalBorrowed(p)
  BY DEF TotalBorrowed
<1>2. p.cash \in Nat
  BY UsersAreTwo, PoolNumbers
<1>3. (IF p.cash + delta < 0 THEN 0 ELSE p.cash + delta) = p.cash + delta
  BY <1>2
<1> QED
  BY <1>1, <1>3 DEF Utilization, UtilizationAfter

LEMMA LendPageTold ==
  ASSUME page = "lend", ChainOK(chain), chain.pool.accruedAt = chain.now, Fresh,
         NEW j \in LendForm, Accepts(chain, j)
  PROVE  DoesAsShown(Applied(chain, j), j)
<1> DEFINE pool == chain.pool
<1>1. Me \in Users /\ PoolOK(pool) /\ chain.wallet[Me] \in Nat
  BY MyAccount, ChainReads
<1>2. {"shared", "mine", "wallet"} \subseteq Reads(page)
  BY DEF Reads, StockPages
<1>3. /\ Seen("shared") = LendShared(chain) /\ Seen("mine") = BalanceOfSupply(pool, Me)
      /\ Seen("wallet") = chain.wallet[Me]
  BY <1>2, FreshReads DEF Fresh
<1>4. Seen("shared").borrowed = TotalBorrowed(pool) /\ Seen("shared").available = pool.cash
  BY <1>3 DEF LendShared
<1>5. pool.cash \in Nat /\ BalanceOfSupply(pool, Me) \in Nat
  BY <1>1, PoolNumbers, PoolReads
<1>6. Accrued(chain) = chain
  BY AccruedIsQuiet
<1>7. PICK c : c = Applied(chain, j)
  OBVIOUS
<1>8. CASE \E a \in Typed(Seen("wallet")) :
             j = Job("supply", a, Short(Seen("allowance"), a), UtilizationAfter(TotalBorrowed(pool), pool.cash, a))
  <2>1. PICK a \in Typed(chain.wallet[Me]) :
          j = Job("supply", a, Short(Seen("allowance"), a), UtilizationAfter(TotalBorrowed(pool), pool.cash, a))
    BY <1>3, <1>8
  <2>2. a \in Nat
    BY <1>1, TypedIsPositive
  <2>3. j.call = "supply" /\ j.amount = a /\ j.shows = UtilizationAfter(TotalBorrowed(pool), pool.cash, a)
    BY <2>1 DEF Job
  <2>4. c = [Pull(chain, Me, "pool", a) EXCEPT !.pool = Supply(@, Me, a)]
    BY <1>6, <1>7, <2>3 DEF Applied, Supplied
  <2>5. c.pool = Supply(pool, Me, a)
    BY <2>4 DEF Pull, ChainOK, ChainType
  <2>6. /\ c.pool.cash = pool.cash + a /\ c.pool.borrowIndex = pool.borrowIndex
        /\ c.pool.totalBorrowScaled = pool.totalBorrowScaled
    BY <1>1, <2>5 DEF Supply, PoolOK, PoolType
  <2>7. Utilization(c.pool) = j.shows
    <3>1. a \in Int /\ pool.cash + a >= 0
      BY <1>5, <2>2
    <3> QED BY <1>1, <2>3, <2>6, <3>1, UtilizationFollowsCash
  <2> QED BY <1>7, <2>3, <2>7 DEF DoesAsShown
<1>9. CASE \E a \in Typed(MaxWithdraw(Seen("mine"), pool.cash)) :
             j = Job("unsupply", a, 0, UtilizationAfter(TotalBorrowed(pool), pool.cash, -a))
  <2>1. PICK a \in Typed(MaxWithdraw(BalanceOfSupply(pool, Me), pool.cash)) :
          j = Job("unsupply", a, 0, UtilizationAfter(TotalBorrowed(pool), pool.cash, -a))
    BY <1>3, <1>9
  <2>2. a \in Nat /\ a <= pool.cash
    <3>1. MaxWithdraw(BalanceOfSupply(pool, Me), pool.cash) \in Int /\ MaxWithdraw(BalanceOfSupply(pool, Me), pool.cash) <= pool.cash
      BY <1>5, LowerIsEither DEF MaxWithdraw
    <3> QED BY <1>5, <3>1, TypedIsPositive
  <2>3. j.call = "unsupply" /\ j.amount = a /\ j.shows = UtilizationAfter(TotalBorrowed(pool), pool.cash, -a)
    BY <2>1 DEF Job
  <2>4. c = [chain EXCEPT !.pool = Withdraw(@, Me, a), !.wallet[Me] = @ + a]
    BY <1>6, <1>7, <2>3 DEF Applied, Unsupply
  <2>5. c.pool = Withdraw(pool, Me, a)
    BY <2>4 DEF ChainOK, ChainType
  <2>6. /\ c.pool.cash = pool.cash - a /\ c.pool.borrowIndex = pool.borrowIndex
        /\ c.pool.totalBorrowScaled = pool.totalBorrowScaled
    BY <1>1, <2>5 DEF Withdraw, PoolOK, PoolType
  <2>7. Utilization(c.pool) = j.shows
    <3>1. -a \in Int /\ pool.cash + (-a) >= 0 /\ pool.cash + (-a) = pool.cash - a
      BY <1>5, <2>2
    <3> QED BY <1>1, <2>3, <2>6, <3>1, UtilizationFollowsCash
  <2> QED BY <1>7, <2>3, <2>7 DEF DoesAsShown
<1> QED
  BY <1>4, <1>8, <1>9 DEF LendForm

LEMMA LiquidatePageTold ==
  ASSUME page = "liquidate", ChainOK(chain), Fresh, NEW j \in LiquidateTable, Accepts(chain, j)
  PROVE  DoesAsShown(Applied(chain, j), j)
<1> DEFINE row == AtRisk(chain)
<1>1. Me = "lee" /\ "lee" \in Users /\ "bo" \in Users
  BY UsersAreTwo DEF Me
<1>2. Seen("atRisk") = row
  <2>1. "atRisk" \in Reads(page)
    BY DEF Reads, StockPages
  <2> QED BY <2>1, FreshReads DEF Fresh
<1>3. chain.wallet["lee"] \in Nat /\ MaxRepay(chain, "bo") \in Nat /\ Seized(chain, "bo") \in Nat /\ Seized(chain, "bo") <= chain.shares["bo"]
  BY <1>1, ChainReads, MaxRepayIsNat
<1>4. PICK c : c = Applied(chain, j)
  OBVIOUS
<1>5. /\ j = Job(ActionFor(row), 1, 0, IF ActionFor(row) = "liquidate" THEN NetToLiquidator(row) ELSE 0)
      /\ ActionFor(row) \in {"liquidate", "writeOff"}
  BY <1>2 DEF LiquidateTable, ActionFor
<1> DEFINE d == Accrued(Settle(chain, "bo"))
<1>6. ChainOK(d) /\ d.wallet = chain.wallet /\ d.shares = chain.shares
  <2>1. ChainOK(Settle(chain, "bo")) /\ Settle(chain, "bo").wallet = chain.wallet /\ Settle(chain, "bo").shares = chain.shares
    BY <1>1, SettleKeepsChain
  <2> QED BY <2>1, AccruedKeepsChain
<1>7. CASE ActionFor(row) = "liquidate"
  <2>1. row.liquidatable /\ row.profitable
    BY <1>7 DEF ActionFor
  <2>2. /\ HealthFactor(Accrued(chain), "bo") < WAD
        /\ row.maxRepay = MaxRepay(chain, "bo")
        /\ row.seized > row.maxRepay
        /\ row.seized = IF row.maxRepay = 0 THEN 0 ELSE Seized(chain, "bo")
    BY <2>1 DEF AtRisk
  <2>3. row.seized = Seized(chain, "bo")
    BY <1>3, <2>2
  <2>4. j.call = "liquidate" /\ j.shows = Seized(chain, "bo") - MaxRepay(chain, "bo")
    BY <1>5, <1>7, <2>2, <2>3 DEF Job, NetToLiquidator
  <2>5. c = [Burn(d, "bo", Seized(chain, "bo")) EXCEPT
               !.pool = Repay(@, "bo", MaxRepay(chain, "bo")),
               !.wallet["lee"] = (@ - MaxRepay(chain, "bo")) + Seized(chain, "bo")]
    BY <1>1, <1>4, <2>4 DEF Applied, Liquidate
  <2> HIDE DEF d
  <2>6. /\ ChainOK(Burn(d, "bo", Seized(chain, "bo")))
        /\ Burn(d, "bo", Seized(chain, "bo")).wallet = chain.wallet
    <3>1. Seized(chain, "bo") <= d.shares["bo"]
      BY <1>3, <1>6
    <3> QED BY <1>1, <1>3, <1>6, <3>1, BurnKeepsChain
  <2>7. c.wallet["lee"] = (chain.wallet["lee"] - MaxRepay(chain, "bo")) + Seized(chain, "bo")
    BY <1>1, <2>5, <2>6 DEF ChainOK, ChainType
  <2>8. c.wallet[Me] - chain.wallet[Me] = j.shows /\ j.shows > 0
    BY <1>1, <1>3, <2>2, <2>3, <2>4, <2>7
  <2> QED BY <1>4, <2>4, <2>8 DEF DoesAsShown
<1>8. CASE ActionFor(row) = "writeOff"
  <2>1. j.call = "writeOff" /\ j.shows = 0
    BY <1>5, <1>8 DEF Job
  <2>2. c = WriteOff(chain, "bo")
    BY <1>4, <2>1 DEF Applied
  <2>3. c.wallet = Burn(d, "bo", d.shares["bo"]).wallet
    <3>1. \E pool : c = [Burn(d, "bo", d.shares["bo"]) EXCEPT !.pool = pool]
      BY <2>2 DEF WriteOff
    <3>2. "wallet" \in DOMAIN Burn(d, "bo", d.shares["bo"])
      <4> HIDE DEF d
      <4> QED BY <1>6 DEF Burn, ChainOK, ChainType
    <3> HIDE DEF d
    <3> QED BY <3>1, <3>2
  <2>4. Burn(d, "bo", d.shares["bo"]).wallet = chain.wallet
    <3>1. d.shares["bo"] \in Nat /\ d.shares["bo"] <= d.shares["bo"]
      BY <1>1, <1>6, ChainReads
    <3> HIDE DEF d
    <3> QED BY <1>1, <1>6, <3>1, BurnKeepsChain
  <2>5. c.wallet[Me] - chain.wallet[Me] = 0
    BY <1>1, <1>3, <2>3, <2>4
  <2> QED BY <1>4, <2>1, <2>5 DEF DoesAsShown
<1> QED
  BY <1>5, <1>7, <1>8

-----------------------------------------------------------------------------
(* The stock page: its line, by a worth read per token, never above the vault's. *)

LEMMA FloorIsLargest ==
  ASSUME NEW v \in Nat, NEW x \in Nat, NEW c \in Nat, c > 0, v * c <= x
  PROVE  v <= x \div c
<1>1. PICK q \in Nat : q = x \div c /\ x < (q + 1) * c
  BY DivBounds
<1>2. v * c < (q + 1) * c
  <2>1. v * c \in Nat /\ (q + 1) * c \in Nat
    BY MulIsNat
  <2> QED BY <1>1, <2>1
<1> QED
  BY <1>1, <1>2, LessCancels

LEMMA WorthRoundsDown ==
  ASSUME NEW a \in Nat, NEW price \in Nat, NEW unit \in Nat, unit > 0, NEW scale \in Nat, scale > 0,
         NEW worth, worth = MulDiv(unit, price, unit * scale)
  PROVE  /\ MulDiv(a, worth, unit) \in Nat /\ MulDiv(a, price, unit * scale) \in Nat
         /\ MulDiv(a, worth, unit) <= MulDiv(a, price, unit * scale)
<1>1. unit * scale \in Nat /\ unit * scale > 0
  BY MulIsNat
<1>2. /\ worth \in Nat /\ worth * (unit * scale) <= unit * price
  BY <1>1, ScaledDown
<1>3. worth * scale <= price
  <2>1. worth * (unit * scale) = (worth * scale) * unit /\ unit * price = price * unit
    BY <1>2
  <2>2. (worth * scale) \in Nat
    BY <1>2, MulIsNat
  <2>3. (worth * scale) * unit < (price + 1) * unit
    <3>1. (price + 1) * unit = price * unit + unit /\ price * unit \in Nat /\ (worth * scale) * unit \in Nat
      BY <2>2, MulIsNat
    <3> QED BY <1>2, <2>1, <3>1
  <2>4. worth * scale < price + 1
    BY <2>2, <2>3, LessCancels
  <2> QED BY <2>2, <2>4
<1>4. PICK v \in Nat : v = MulDiv(a, worth, unit) /\ v * unit <= a * worth
  BY <1>2, ScaledDown
<1>5. v * (unit * scale) <= a * price
  <2>1. (v * unit) * scale <= (a * worth) * scale
    <3>1. v * unit \in Nat /\ a * worth \in Nat
      BY <1>2, MulIsNat
    <3>2. scale * (v * unit) <= scale * (a * worth)
      BY <1>4, <3>1, MulMonotone
    <3>3. scale * (v * unit) = (v * unit) * scale /\ scale * (a * worth) = (a * worth) * scale
      BY <3>1
    <3> QED BY <3>2, <3>3
  <2>2. (v * unit) * scale = v * (unit * scale) /\ (a * worth) * scale = a * (worth * scale)
    BY <1>2
  <2>3. a * (worth * scale) <= a * price
    <3>1. worth * scale \in Nat
      BY <1>2, MulIsNat
    <3> QED BY <1>3, <3>1, MulMonotone
  <2>4. a * (worth * scale) \in Nat /\ a * price \in Nat /\ v * (unit * scale) \in Nat
    BY <1>1, <1>2, MulIsNat
  <2> QED BY <2>1, <2>2, <2>3, <2>4
<1>6. a * price \in Nat
  BY MulIsNat
<1>7. v <= (a * price) \div (unit * scale)
  BY <1>1, <1>5, <1>6, FloorIsLargest
<1>8. MulDiv(a, price, unit * scale) \in Nat
  BY <1>1, ScaledDown
<1> QED
  BY <1>4, <1>7, <1>8 DEF MulDiv

LEMMA LineShownIsLow ==
  ASSUME page = "stocks", ChainOK(chain), NEW ratio \in Nat
  PROVE  /\ Summarise(StockLoan(chain), ratio) \in Nat /\ StockLine(chain, "bo", ratio) \in Nat
         /\ Summarise(StockLoan(chain), ratio) <= StockLine(chain, "bo", ratio)
<1> DEFINE l == StockLoan(chain)
           held == Held(chain, "bo")
           f == [t \in held |-> MulDiv(ValueOfAmount(l, t, l.deposited[t]), ratio, WAD)]
           g == [t \in held |-> MulDiv(ValueOf(chain, t, chain.stock["bo"][t]), ratio, WAD)]
<1>1. Me = "bo" /\ "bo" \in Users
  BY UsersAreTwo DEF Me
<1>2. l.deposited = chain.stock["bo"] /\ l.worth = [t \in Tokens |-> ValueOf(chain, t, TokenUnit)]
  BY <1>1 DEF StockLoan
<1>3. Summarise(l, ratio) = SumFunction(f)
  BY <1>2 DEF Summarise, Held
<1>4. StockLine(chain, "bo", ratio) = SumFunction(g)
  BY DEF StockLine
<1>5. IsFiniteSet(held) /\ held \subseteq Tokens
  BY TokensAreListed, FS_Subset DEF Held
<1>6. WAD \in Nat /\ WAD > 0
  BY ScalesAreUnits
<1>7. \A t \in held : f[t] \in Nat /\ g[t] \in Nat /\ f[t] <= g[t]
  <2> TAKE t \in held
  <2>1. chain.stock["bo"][t] \in Nat /\ chain.feed[t].price \in Nat
    BY <1>1, <1>5 DEF ChainOK, ChainType, StockType
  <2>2. PICK a \in Nat : a = chain.stock["bo"][t]
    BY <2>1
  <2>3. PICK price \in Nat : price = chain.feed[t].price
    BY <2>1
  <2>4. TokenUnit \in Nat /\ TokenUnit > 0 /\ FeedScale \in Nat /\ FeedScale > 0
    BY TokensAreListed
  <2>5. PICK worth : worth = MulDiv(TokenUnit, price, TokenUnit * FeedScale)
    OBVIOUS
  <2>6. /\ MulDiv(a, worth, TokenUnit) \in Nat /\ MulDiv(a, price, TokenUnit * FeedScale) \in Nat
        /\ MulDiv(a, worth, TokenUnit) <= MulDiv(a, price, TokenUnit * FeedScale)
    BY <2>4, <2>5, WorthRoundsDown
  <2>7. t \in Tokens
    BY <1>5
  <2>8. ValueOfAmount(l, t, l.deposited[t]) = MulDiv(a, worth, TokenUnit)
    BY <1>2, <2>2, <2>3, <2>5, <2>7 DEF ValueOfAmount, ValueOf
  <2>9. ValueOf(chain, t, chain.stock["bo"][t]) = MulDiv(a, price, TokenUnit * FeedScale)
    BY <2>2, <2>3 DEF ValueOf
  <2>10. PICK x \in Nat : x = MulDiv(a, worth, TokenUnit)
    BY <2>6
  <2>11. PICK y \in Nat : y = MulDiv(a, price, TokenUnit * FeedScale)
    BY <2>6
  <2>12. f[t] = (x * ratio) \div WAD /\ g[t] = (y * ratio) \div WAD
    BY <2>8, <2>9, <2>10, <2>11 DEF MulDiv
  <2>13. x * ratio \in Nat /\ y * ratio \in Nat /\ x * ratio <= y * ratio
    <3>1. ratio * x <= ratio * y
      BY <2>6, <2>10, <2>11, MulMonotone
    <3>2. ratio * x = x * ratio /\ ratio * y = y * ratio
      OBVIOUS
    <3> QED BY <3>1, <3>2, MulIsNat
  <2> HIDE DEF f, g
  <2> QED BY <1>6, <2>12, <2>13, FloorGrows, DivBounds
<1>8. DOMAIN f = held /\ DOMAIN g = held
  OBVIOUS
<1> HIDE DEF f, g, held, l
<1>9. /\ SumFunctionOnSet(f, held) \in Nat /\ SumFunctionOnSet(g, held) \in Nat
      /\ SumFunctionOnSet(f, held) <= SumFunctionOnSet(g, held)
  BY <1>5, <1>7, SumGrows, SumIsNat
<1> QED
  BY <1>3, <1>4, <1>8, <1>9 DEF SumFunction, l

LEMMA LoanPanelTold ==
  ASSUME page = "stocks", ChainOK(chain), chain.pool.accruedAt = chain.now, Fresh, SeenOK,
         NEW j \in LoanPanel, Accepts(chain, j)
  PROVE  DoesAsShown(Applied(chain, j), j)
<1> DEFINE l == StockLoan(chain)
           line == Summarise(l, LiquidationThreshold)
           most == Lower(MaxBorrow(Summarise(l, MaxLTV), l.debt + AccrualMargin(l.debt)), l.liquidity)
           pool == chain.pool
           lien == LienOf(chain, "bo")
<1>1. Me = "bo" /\ "bo" \in Users
  BY UsersAreTwo DEF Me
<1>2. "loan" \in Reads(page)
  BY DEF Reads, StockPages
<1>3. Seen("loan") = l
  BY <1>2, FreshReads DEF Fresh
<1>4. l.debt = lien /\ l.liquidity = pool.cash
  BY <1>1 DEF StockLoan
<1>5. lien \in Nat /\ PoolOK(pool) /\ pool.cash \in Nat
  BY <1>1, ChainReads
<1>6. LiquidationThreshold \in Nat /\ MaxLTV \in Nat /\ WAD \in Nat /\ WAD > 0
  BY RatesAreShares, ScalesAreUnits
<1>7. CASE \E a \in {x \in Typed(most) : StalePrices(l, chain.now) = {}} :
             j = Job("borrowStock", a, 0, HealthAfter(line, l.debt + a + OriginationFeeOn(a)))
  <2>1. PICK a \in Typed(most) : j = Job("borrowStock", a, 0, HealthAfter(line, lien + a + OriginationFeeOn(a)))
    BY <1>4, <1>7
  <2>2. a \in Nat /\ a > 0
    <3>1. most \in Int
      <4>1. ReadOK("loan", l)
        <5> HIDE DEF l
        <5> QED BY <1>2, <1>3 DEF SeenOK, Seen
      <4>2. Summarise(l, MaxLTV) \in Nat
        BY <1>6, LineShownIsLow
      <4>3. l.debt + AccrualMargin(l.debt) \in Nat
        BY <1>4, <1>5, MarginIsNat
      <4>4. MaxBorrow(Summarise(l, MaxLTV), l.debt + AccrualMargin(l.debt)) \in Int
        <5> HIDE DEF l
        <5> QED BY <4>1, <4>2, <4>3, LimitsAreInt
      <4> HIDE DEF l
      <4> QED BY <1>4, <1>5, <4>4, LowerIsEither
    <3> HIDE DEF most
    <3> QED BY <3>1, TypedIsPositive
  <2> DEFINE fee == FeeOn(a)
             drawn == a + fee
  <2>3. fee \in Nat /\ OriginationFeeOn(a) = fee
    BY <2>2, FeeIsNat DEF OriginationFeeOn, FeeOn
  <2>4. j.call = "borrowStock" /\ j.amount = a /\ j.shows = HealthAfter(line, lien + a + fee)
    BY <2>1, <2>3 DEF Job
  <2>5. PICK c : c = Applied(chain, j)
    OBVIOUS
  <2>6. c = [chain EXCEPT !.pool = Borrow(@, "bo", drawn), !.wallet["bo"] = @ + a]
    <3>1. Accrued(chain) = chain
      BY AccruedIsQuiet
    <3> QED BY <1>1, <2>4, <2>5, <3>1 DEF Applied, StockBorrow
  <2> HIDE DEF fee
  <2>7. c.pool = Borrow(pool, "bo", drawn) /\ c.stock = chain.stock /\ c.feed = chain.feed
    <3> HIDE DEF drawn
    <3> QED BY <2>6 DEF ChainOK, ChainType
  <2>8. StockLine(c, "bo", LiquidationThreshold) = StockLine(chain, "bo", LiquidationThreshold)
    BY <2>7 DEF StockLine, Held, ValueOf
  <2>9. drawn \in Nat /\ drawn > 0
    BY <2>2, <2>3
  <2>10. CanBorrow(pool, drawn)
    <3>1. CanStockBorrow(chain, "bo", a)
      BY <1>1, <2>4 DEF Accepts
    <3>2. Accrued(chain) = chain
      BY AccruedIsQuiet
    <3> QED BY <3>1, <3>2 DEF CanStockBorrow, fee
  <2> HIDE DEF drawn
  <2>11. LienOf(c, "bo") \in Nat
    <3>1. PoolOK(Borrow(pool, "bo", drawn))
      BY <1>1, <1>5, <2>9, <2>10, BorrowKeepsBooks
    <3> QED BY <1>1, <2>7, <3>1, PoolReads DEF LienOf
  <2>12. /\ Borrow(pool, "bo", drawn).borrowIndex = pool.borrowIndex
         /\ BalanceOfDebt(pool, "bo") + drawn <= BalanceOfDebt(Borrow(pool, "bo", drawn), "bo")
         /\ BalanceOfDebt(Borrow(pool, "bo", drawn), "bo") <= BalanceOfDebt(pool, "bo") + drawn + PoolUnit(pool)
    BY <1>1, <1>5, <2>9, DebtAfterBorrow
  <2>13. PICK owed \in Nat : owed = lien + drawn /\ owed > 0
    BY <1>5, <2>9
  <2>14. /\ Unit(c) = PoolUnit(pool) /\ Unit(c) \in Nat
         /\ owed <= LienOf(c, "bo") /\ LienOf(c, "bo") <= owed + Unit(c)
    <3>1. PoolUnit(pool) \in Nat
      BY <1>1, <1>5, PoolNumbers
    <3> QED BY <2>7, <2>12, <2>13, <3>1 DEF LienOf, Unit, PoolUnit
  <2>15. PICK x \in Nat : x = line /\ x <= StockLine(chain, "bo", LiquidationThreshold)
    BY <1>6, LineShownIsLow
  <2>16. PICK y \in Nat : y = StockLine(chain, "bo", LiquidationThreshold) /\ x <= y
    BY <1>6, <2>15, LineShownIsLow
  <2>17. j.shows = (x * WAD) \div owed
    <3>1. lien + a + fee = owed
      BY <1>5, <2>2, <2>3, <2>13 DEF drawn
    <3> QED BY <2>4, <2>13, <2>15, <3>1 DEF HealthAfter, MulDiv
  <2>18. x * WAD \in Nat /\ y * WAD \in Nat /\ x * WAD <= y * WAD
    <3>1. WAD * x <= WAD * y
      BY <1>6, <2>16, MulMonotone
    <3>2. WAD * x = x * WAD /\ WAD * y = y * WAD
      BY <1>6
    <3> QED BY <1>6, <3>1, <3>2, MulIsNat
  <2>19. (x * WAD) \div owed <= (y * WAD) \div owed
    BY <2>13, <2>18, FloorGrows
  <2>20. LienOf(c, "bo") > Unit(c) => (y * WAD) \div owed <= (y * WAD) \div (LienOf(c, "bo") - Unit(c))
    <3>1. PICK now1 \in Nat : now1 = LienOf(c, "bo")
      BY <2>11
    <3>2. PICK unit \in Nat : unit = Unit(c)
      BY <2>14
    <3>3. now1 > unit => (y * WAD) \div owed <= (y * WAD) \div (now1 - unit)
      BY <2>13, <2>14, <2>18, <3>1, <3>2, HealthIsTold
    <3> QED BY <3>1, <3>2, <3>3
  <2>21. NotAbove(c, j.shows, StockLine(c, "bo", LiquidationThreshold) * WAD)
    <3>1. ASSUME LienOf(c, "bo") > Unit(c)
          PROVE  (x * WAD) \div owed <= (y * WAD) \div (LienOf(c, "bo") - Unit(c))
      <4>1. LienOf(c, "bo") - Unit(c) \in Nat /\ LienOf(c, "bo") - Unit(c) > 0
        BY <2>11, <2>14, <3>1
      <4>2. /\ (x * WAD) \div owed \in Nat /\ (y * WAD) \div owed \in Nat
            /\ (y * WAD) \div (LienOf(c, "bo") - Unit(c)) \in Nat
        BY <2>13, <2>18, <4>1, DivBounds
      <4> QED BY <2>19, <2>20, <3>1, <4>2
    <3> QED BY <2>8, <2>16, <2>17, <3>1 DEF NotAbove
  <2> QED BY <2>4, <2>5, <2>21 DEF DoesAsShown
<1>8. CASE \E a \in {x \in Typed(l.debt) : x <= l.wallet} :
             j = RepayJob(a, l.debt, l.wallet, l.allowance, HealthAfter(line, l.debt - a))
  <2>1. j.call = "repay"
    BY <1>8 DEF RepayJob, Job
  <2> QED BY <2>1, NothingToldHolds
<1> QED
  BY <1>3, <1>7, <1>8 DEF LoanPanel

-----------------------------------------------------------------------------
(* What stands beside the forms. *)

\* The dashboard.
LEMMA DashboardTold ==
  ASSUME page = "portfolio", ChainOK(chain), chain.pool.accruedAt = chain.now, Fresh
  PROVE  DashboardHolds
<1> DEFINE lien == LienOf(chain, "bo")
           pool == chain.pool
           ceiling == MulDiv(CollateralValue(chain, "bo"), MaxLTV, WAD)
           shown == Position(Seen("vault"))
<1>1. "bo" \in Users /\ PoolOK(pool) /\ lien \in Nat /\ pool.cash \in Nat
  BY UsersAreTwo, ChainReads
<1>2. {"vault", "shared"} \subseteq Reads(page)
  BY DEF Reads, StockPages
<1>3. Seen("vault") = VaultPosition(chain) /\ Seen("shared") = LendShared(chain)
  BY <1>2, FreshReads DEF Fresh
<1>4. /\ shown.borrowable = MaxBorrowable(chain, "bo") /\ shown.debt = lien
      /\ shown.pipeline.staked = CollateralValue(chain, "bo") /\ shown.pipeline.borrowed = lien
  BY <1>3 DEF Position, PipelineSummary, StakeStanding, VaultPosition
<1>5. PoolStrip(Seen("shared")).lent = TotalBorrowed(pool)
  BY <1>3 DEF PoolStrip, LendShared
<1> HIDE DEF shown
<1>6. ASSUME shown.borrowable \in 1..pool.cash, ~chain.paused, pool.entries = "open"
      PROVE  CanVaultBorrow(chain, "bo", shown.borrowable)
  <2> DEFINE settled == Settle(chain, "bo")
  <2>1. ChainOK(settled) /\ settled.pool = pool /\ settled.now = chain.now
    BY <1>1, SettleKeepsChain
  <2>2. CollateralValue(settled, "bo") = CollateralValue(chain, "bo")
    BY <1>1, SettleKeepsCollateral
  <2> HIDE DEF settled
  <2>3. Accrued(settled) = settled
    BY <2>1, AccruedIsQuiet
  <2>4. ceiling \in Nat
    BY <1>1, ChainReads, MulDivIsNat, RatesAreShares, ScalesAreUnits
  <2>5. lien + shown.borrowable <= ceiling
    <3>1. MaxBorrowable(chain, "bo") = IF ceiling > lien THEN ceiling - lien ELSE 0
      BY DEF MaxBorrowable
    <3>2. MaxBorrowable(chain, "bo") > 0
      BY <1>1, <1>4, <1>6
    <3> HIDE DEF ceiling, lien
    <3> QED BY <1>1, <1>4, <2>4, <3>1, <3>2
  <2>6. CanBorrow(pool, shown.borrowable)
    BY <1>1, <1>6 DEF CanBorrow
  <2>7. LienOf(settled, "bo") = lien
    BY <2>1 DEF LienOf
  <2> QED BY <1>6, <2>1, <2>2, <2>3, <2>5, <2>6, <2>7 DEF CanVaultBorrow, settled
<1>7. ASSUME shown.debt = 0, shown.pipeline.staked > 0
      PROVE  CanVaultWithdraw(chain, "bo", shown.pipeline.staked)
  <2>1. Accrued(chain) = chain
    BY AccruedIsQuiet
  <2>2. CollateralValue(chain, "bo") <= chain.shares["bo"]
    BY <1>1, ChainReads, LowerIsEither DEF CollateralValue
  <2> QED BY <1>4, <1>7, <2>1, <2>2 DEF CanVaultWithdraw
<1>8. TotalBorrowed(pool) >= lien
  <2>1. /\ pool.debt \in [Users -> Nat] /\ pool.debt["bo"] \in Nat /\ pool.borrowIndex \in Nat /\ RAY \in Nat /\ RAY > 0
        /\ pool.totalBorrowScaled \in Nat
    BY <1>1, PoolNumbers
  <2>2. pool.debt["bo"] <= pool.totalBorrowScaled
    BY <1>1, <2>1, TotalFollows DEF PoolOK, TotalsAreSums
  <2>3. PICK d \in Nat : d = pool.debt["bo"]
    BY <2>1
  <2>4. PICK t \in Nat : t = pool.totalBorrowScaled
    BY <2>1
  <2>5. PICK i \in Nat : i = pool.borrowIndex
    BY <2>1
  <2>6. d * i \in Nat /\ t * i \in Nat /\ d * i <= t * i
    <3>1. i * d <= i * t /\ i * d = d * i /\ i * t = t * i
      BY <2>2, <2>3, <2>4, MulMonotone
    <3> QED BY <3>1, MulIsNat
  <2>7. (d * i) \div RAY <= (t * i) \div RAY
    BY <2>1, <2>6, FloorGrows
  <2>8. (d * i) \div RAY \in Nat /\ (t * i) \div RAY \in Nat
    BY <2>1, <2>6, DivBounds
  <2> QED BY <2>3, <2>4, <2>5, <2>7, <2>8 DEF TotalBorrowed, LienOf, BalanceOfDebt, MulDiv
<1> QED
  BY <1>4, <1>5, <1>6, <1>7, <1>8 DEF DashboardHolds, shown

\* What a supplier earns is a share of what borrowers pay.
LEMMA SuppliersEarnLess ==
  ASSUME NEW p, PoolOK(p)
  PROVE  SupplyRateAt(Utilization(p)) <= BorrowRateAt(Utilization(p))
<1>1. PICK u \in Nat : u = Utilization(p)
  BY PoolReads, UsersAreTwo
<1>2. PICK rate \in Nat : rate = BorrowRateAt(u)
  BY RatesAreNat
<1>3. WAD \in Nat /\ WAD > 0 /\ WAD - ReserveFactor \in Nat /\ WAD - ReserveFactor <= WAD
  BY ScalesAreUnits, CurveIsValid
<1>4. u <= WAD
  <2>1. PICK b \in Nat : b = TotalBorrowed(p)
    BY PoolReads, UsersAreTwo
  <2>2. PICK cash \in Nat : cash = p.cash
    BY PoolNumbers, UsersAreTwo
  <2>3. CASE b = 0
    BY <1>1, <1>3, <2>1, <2>3 DEF Utilization
  <2>4. CASE b > 0
    <3>1. u = (b * WAD) \div (cash + b)
      BY <1>1, <2>1, <2>2, <2>4 DEF Utilization, MulDiv
    <3>2. b * WAD = WAD * b
      BY <1>3
    <3>3. MulDiv(WAD, b, cash + b) <= WAD
      BY <1>3, <2>4, MulDivOfPart
    <3> QED BY <3>1, <3>2, <3>3 DEF MulDiv
  <2> QED BY <2>3, <2>4
<1>5. PICK x \in Nat : x = MulDiv(rate, u, WAD)
  BY <1>3, MulDivIsNat
<1>6. x <= rate
  BY <1>3, <1>4, <1>5, MulDivOfPart
<1>7. PICK y \in Nat : y = MulDiv(x, WAD - ReserveFactor, WAD)
  BY <1>3, MulDivIsNat
<1>8. y <= x
  BY <1>3, <1>7, MulDivOfPart
<1> QED
  BY <1>1, <1>2, <1>5, <1>6, <1>7, <1>8 DEF SupplyRateAt

\* The lend page beside its form.
LEMMA LendScreenTold ==
  ASSUME page = "lend", ChainOK(chain), chain.pool.accruedAt = chain.now, FreshIn({"shared", "mine"})
  PROVE  LendScreenHolds
<1> DEFINE pool == chain.pool
           strip == PoolStrip(Seen("shared"))
<1>1. Me \in Users /\ PoolOK(pool)
  BY MyAccount, ChainReads
<1>2. Seen("shared") = LendShared(chain) /\ Seen("mine") = BalanceOfSupply(pool, Me)
  BY FreshReads
<1>3. PICK mine \in Nat : mine = BalanceOfSupply(pool, Me)
  BY <1>1, PoolReads
<1>4. PICK cash \in Nat : cash = pool.cash
  BY <1>1, PoolNumbers
<1>5. PICK supplied \in Nat : supplied = TotalSupplied(pool)
  BY <1>1, PoolReads
<1>6. /\ Seen("shared").supplied = supplied /\ Seen("shared").available = cash
      /\ strip.earns = SupplyRateAt(Utilization(pool)) /\ strip.pays = BorrowRateAt(Utilization(pool))
      /\ strip.strained = (Seen("shared").utilization > Kink)
  <2>1. /\ Seen("shared").supplied = supplied /\ Seen("shared").available = cash
        /\ Seen("shared").borrowRate = BorrowRateAt(Utilization(pool))
        /\ Seen("shared").supplyRate = SupplyRateAt(Utilization(pool))
    BY <1>2, <1>4, <1>5 DEF LendShared
  <2>2. strip.earns = Seen("shared").supplyRate /\ strip.pays = Seen("shared").borrowRate
    BY DEF PoolStrip
  <2>3. strip.strained = (Seen("shared").utilization > Kink)
    BY Zenon DEF PoolStrip
  <2> QED BY <2>1, <2>2, <2>3
<1>7. /\ LendScreen.share = ShareOfPool(mine, supplied)
      /\ LendScreen.withdrawable = Lower(mine, cash)
      /\ LendScreen.warnings = LendWarnings(mine, Seen("shared"))
  BY <1>2, <1>3, <1>4, <1>5 DEF LendScreen, LendShared, MaxWithdraw
<1>8. Accrued(chain) = chain
  BY AccruedIsQuiet
<1>9. ShareOfPool(mine, supplied) <= WAD
  <2>1. WAD \in Nat
    BY ScalesAreUnits
  <2>2. mine <= supplied
    <3>1. /\ pool.supply[Me] \in Nat /\ pool.supplyIndex \in Nat /\ RAY \in Nat /\ RAY > 0
          /\ pool.totalSupplyScaled \in Nat
      BY <1>1, PoolNumbers
    <3>2. pool.supply[Me] <= pool.totalSupplyScaled
      <4>1. pool.supply \in [Users -> Nat] /\ pool.totalSupplyScaled = SumFunction(pool.supply)
        BY <1>1 DEF PoolOK, PoolType, TotalsAreSums
      <4> QED BY <1>1, <4>1, TotalFollows
    <3>3. PICK s \in Nat : s = pool.supply[Me]
      BY <3>1
    <3>4. PICK t \in Nat : t = pool.totalSupplyScaled
      BY <3>1
    <3>5. PICK i \in Nat : i = pool.supplyIndex
      BY <3>1
    <3>6. s * i \in Nat /\ t * i \in Nat /\ s * i <= t * i
      <4>1. i * s <= i * t /\ i * s = s * i /\ i * t = t * i
        BY <3>2, <3>3, <3>4, MulMonotone
      <4> QED BY <4>1, MulIsNat
    <3>7. (s * i) \div RAY <= (t * i) \div RAY
      BY <3>1, <3>6, FloorGrows
    <3> QED BY <1>3, <1>5, <3>3, <3>4, <3>5, <3>7 DEF TotalSupplied, BalanceOfSupply, MulDiv
  <2>3. CASE supplied = 0
    BY <2>1, <2>3 DEF ShareOfPool
  <2>4. CASE supplied > 0
    <3>1. mine * WAD = WAD * mine
      BY <2>1
    <3>2. MulDiv(WAD, mine, supplied) <= WAD
      BY <2>1, <2>2, <2>4, MulDivOfPart
    <3> QED BY <2>4, <3>1, <3>2 DEF ShareOfPool, MulDiv
  <2> QED BY <2>3, <2>4
<1>10. ASSUME LendScreen.withdrawable > 0
       PROVE  CanWithdraw(Accrued(chain).pool, Me, LendScreen.withdrawable)
  <2>1. Lower(mine, cash) > 0 /\ Lower(mine, cash) <= mine /\ Lower(mine, cash) <= cash
    BY <1>7, <1>10, LowerIsEither
  <2> QED BY <1>3, <1>4, <1>7, <1>8, <2>1 DEF CanWithdraw
<1>11. strip.earns <= strip.pays
  BY <1>1, <1>6, SuppliersEarnLess
<1>12. strip.strained <=> "past-kink" \in LendScreen.warnings
  BY <1>6, <1>7 DEF LendWarnings
<1>13. LendScreen.warnings \cap {"exit-blocked", "exit-limited"} # {} <=>
         (mine > 0 /\ ~CanWithdraw(Accrued(chain).pool, Me, mine))
  <2>1. CanWithdraw(Accrued(chain).pool, Me, mine) <=> mine > 0 /\ mine <= cash
    BY <1>3, <1>4, <1>8 DEF CanWithdraw
  <2>2. "exit-blocked" \in LendScreen.warnings <=> mine > 0 /\ cash = 0
    BY <1>6, <1>7 DEF LendWarnings
  <2>3. "exit-limited" \in LendScreen.warnings <=> mine > cash /\ cash > 0
    BY <1>6, <1>7 DEF LendWarnings
  <2>4. (LendScreen.warnings \cap {"exit-blocked", "exit-limited"} # {}) <=>
          ("exit-blocked" \in LendScreen.warnings \/ "exit-limited" \in LendScreen.warnings)
    OBVIOUS
  <2>5. (mine > 0 /\ cash = 0) \/ (mine > cash /\ cash > 0) <=> mine > 0 /\ ~(mine > 0 /\ mine <= cash)
    OBVIOUS
  <2> QED BY <2>1, <2>2, <2>3, <2>4, <2>5
<1> QED
  BY <1>2, <1>3, <1>7, <1>9, <1>10, <1>11, <1>12, <1>13 DEF LendScreenHolds

\* The band of the card and the caption beside it. The debt as it will be charged is
\* no more than a fifth above the debt shown, and the band starts a fifth above the line.
LEMMA DangerTold ==
  ASSUME ChainOK(chain), "vault" \in Reads(page), Fresh
  PROVE  DangerIsTold
<1> DEFINE p == VaultPosition(chain)
           shown == Position(Seen("vault"))
           d == Accrued(chain)
<1>1. Seen("vault") = p
  BY FreshReads DEF Fresh
<1>2. "bo" \in Users
  BY UsersAreTwo
<1>3. ChainOK(d) /\ CollateralValue(d, "bo") = CollateralValue(chain, "bo")
  <2>1. ChainOK(d) /\ d.position = chain.position /\ d.shares = chain.shares /\ d.now = chain.now
    BY AccruedKeepsChain
  <2> HIDE DEF d
  <2> QED BY <2>1, SameCollateral
<1>4. PICK lien \in Nat : lien = LienOf(chain, "bo")
  BY <1>2, ChainReads
<1>5. PICK due \in Nat : due = LienOf(d, "bo")
  BY <1>2, <1>3, ChainReads
<1>6. PICK line \in Nat : line = CollateralValue(chain, "bo") * LiquidationThreshold
  <2>1. CollateralValue(chain, "bo") \in Nat /\ LiquidationThreshold \in Nat
    BY <1>2, ChainReads, RatesAreShares
  <2> QED BY <2>1, MulIsNat
<1>7. WAD \in Nat /\ WAD > 0 /\ WAD % 10 = 0 /\ NoDebt \in Nat /\ 2 * WAD <= NoDebt
  BY ScalesAreUnits, HealthIsDecimal
<1>8. PICK k \in Nat : WAD = 10 * k /\ Danger = 12 * k
  <2>1. PICK k \in Nat : WAD = 10 * k
    BY <1>7
  <2>2. (120 * k) \div 10 = 12 * k
    BY <2>1
  <2>3. WAD * 12 = 120 * k
    BY <2>1
  <2> QED BY <2>1, <2>2, <2>3 DEF Danger
<1>9. ASSUME HealthFactor(d, "bo") < WAD, 5 * (due - lien) <= lien
      PROVE  HealthBand(p.health) = "danger"
  <2>1. due # 0 /\ line \div due < WAD
    <3>1. HealthFactor(d, "bo") = IF due = 0 THEN NoDebt ELSE line \div due
      BY <1>3, <1>5, <1>6 DEF HealthFactor, MulDiv
    <3>2. due # 0
      BY <1>7, <1>9, <3>1
    <3> QED BY <1>9, <3>1, <3>2
  <2>2. lien > 0
    BY <1>9, <2>1
  <2>3. line < WAD * due
    <3>1. PICK q \in Nat : q = line \div due /\ line < (q + 1) * due
      BY <2>1, DivBounds
    <3>2. q + 1 <= WAD
      BY <1>7, <2>1, <3>1
    <3>3. due * (q + 1) <= due * WAD
      BY <1>7, <3>2, MulMonotone
    <3>4. due * (q + 1) = (q + 1) * due /\ due * WAD = WAD * due
      BY <1>7
    <3>5. (q + 1) * due \in Nat /\ WAD * due \in Nat
      BY <1>7, MulIsNat
    <3> QED BY <3>1, <3>3, <3>4, <3>5
  <2>4. line < Danger * lien
    <3>1. PICK x \in Nat : x = k * due
      BY MulIsNat
    <3>2. PICK y \in Nat : y = k * lien
      BY MulIsNat
    <3>3. WAD * due = 10 * x /\ Danger * lien = 12 * y
      BY <1>8, <3>1, <3>2
    <3>4. 5 * x <= 6 * y
      <4>1. k * (5 * due) <= k * (6 * lien)
        <5>1. 5 * due <= 6 * lien
          BY <1>9
        <5>2. 5 * due \in Nat /\ 6 * lien \in Nat
          OBVIOUS
        <5> QED BY <5>1, <5>2, MulMonotone
      <4>2. k * (5 * due) = 5 * (k * due) /\ k * (6 * lien) = 6 * (k * lien)
        OBVIOUS
      <4> QED BY <3>1, <3>2, <4>1, <4>2
    <3> QED BY <2>3, <3>3, <3>4
  <2>5. line \div lien < Danger
    <3>1. PICK q \in Nat : q = line \div lien /\ q * lien <= line
      BY <2>2, DivBounds
    <3>2. Danger \in Nat
      BY <1>8
    <3>3. q * lien < Danger * lien
      <4>1. q * lien \in Nat /\ Danger * lien \in Nat
        BY <3>2, MulIsNat
      <4> QED BY <2>4, <3>1, <4>1
    <3> QED BY <2>2, <3>1, <3>2, <3>3, LessCancels
  <2>6. p.health = line \div lien
    <3>1. p.health = HealthFactor(chain, "bo")
      BY DEF VaultPosition
    <3> QED BY <1>4, <1>6, <2>2, <3>1 DEF HealthFactor, MulDiv
  <2>7. line \div lien \in Nat
    BY <2>2, DivBounds
  <2>8. line \div lien # NoDebt
    BY <1>7, <1>8, <2>5, <2>7
  <2> QED BY <2>5, <2>6, <2>8 DEF HealthBand
<1>10. ASSUME HealthFactor(d, "bo") < WAD, 5 * Pending(chain) <= lien
       PROVE  {shown.card, shown.pipeline.tone} = {"danger"}
  <2>1. Pending(chain) = due - lien
    BY <1>4, <1>5 DEF Pending
  <2>2. HealthBand(p.health) = "danger"
    BY <1>9, <1>10, <2>1
  <2>3. CardBand(p) = "danger"
    BY <2>2 DEF CardBand
  <2>4. shown.card = CardBand(p) /\ shown.pipeline.tone = CardBand(p)
    BY <1>1 DEF Position, PipelineSummary
  <2> QED BY <2>3, <2>4
<1>11. ASSUME shown.pipeline.caption = "earned" \/ shown.accrued.funded
       PROVE  TotalLedgerValue(chain, "bo") - chain.shares["bo"] < DustFloor
  <2>1. PICK ledger \in Nat : ledger = TotalLedgerValue(chain, "bo")
    BY <1>2, ChainReads
  <2>2. PICK shares \in Nat : shares = chain.shares["bo"]
    BY <1>2, ChainReads
  <2>3. p.ledger = ledger /\ p.collateral = Lower(ledger, shares)
    BY <2>1, <2>2 DEF VaultPosition, CollateralValue
  <2>4. StakeStanding(p).unbacked = IF ledger > Lower(ledger, shares) THEN ledger - Lower(ledger, shares) ELSE 0
    BY <2>3 DEF StakeStanding
  <2>5. shown.pipeline.caption = StakeCaption(p)
    BY <1>1 DEF Position, PipelineSummary
  <2>6. shown.accrued.funded = Backed(p)
    BY <1>1, Zenon DEF Position
  <2>7. StakeCaption(p) = "earned" => Backed(p)
    BY DEF StakeCaption
  <2> HIDE DEF shown, p
  <2>8. Backed(p)
    BY <1>11, <2>5, <2>6, <2>7
  <2>9. ledger - shares < DustFloor
    BY <2>1, <2>2, <2>4, <2>8, BoundsAreSane DEF Backed, Lower
  <2> QED BY <2>1, <2>2, <2>9
<1> QED
  BY <1>4, <1>10, <1>11 DEF DangerIsTold, d, shown

-----------------------------------------------------------------------------
(* Every page. *)

LEMMA CollateralCalls ==
  ASSUME NEW j \in CollateralPanel
  PROVE  j.call \in {"depositStock", "withdrawStock"}
<1> DEFINE l == Seen("loan")
           In(t) == {[Job("depositStock", a, Short(l.approved[t], a), 0) EXCEPT !.of = t] : a \in Typed(l.held[t])}
           Out(t) == {[Job("withdrawStock", a, 0, 0) EXCEPT !.of = t] :
                        a \in {x \in Typed(StockMaxWithdraw(l, t)) : l.debt > 0 => StalePrices(l, chain.now) = {}}}
<1>1. j \in UNION {In(t) \cup Out(t) : t \in Tokens}
  BY DEF CollateralPanel
<1> HIDE DEF l
<1>2. \A t \in Tokens : j \in In(t) => j.call = "depositStock"
  BY DEF Job
<1>3. \A t \in Tokens : j \in Out(t) => j.call = "withdrawStock"
  BY DEF Job
<1> HIDE DEF In, Out
<1> QED
  BY <1>1, <1>2, <1>3

LEMMA EveryCallDoesAsShown ==
  ASSUME LendingInv, chain.pool.accruedAt = chain.now, Fresh,
         NEW g \in Forms(page), NEW j \in Offers(g), Accepts(chain, j)
  PROVE  DoesAsShown(Applied(chain, j), j)
<1>1. ChainOK(chain) /\ SeenOK /\ page \in {"stake", "borrow", "portfolio", "lend", "liquidate", "stocks", "stockLend"}
  BY PagesAreTheApps DEF LendingInv
<1>2. CASE page = "stake"
  <2>1. g \in {"stakeForm", "faucet"}
    BY <1>2 DEF Forms
  <2>2. CASE g = "stakeForm"
    <3>1. j \in StakeForm
      BY <2>2 DEF Offers
    <3> QED BY <1>1, <1>2, <3>1, StakePageTold
  <2>3. CASE g = "faucet"
    <3>1. j.call = "mint"
      BY <2>3 DEF Offers, Faucet, Job
    <3> QED BY <1>2, <3>1, NothingToldHolds
  <2> QED BY <2>1, <2>2, <2>3
<1>3. CASE page = "borrow"
  <2>1. j \in BorrowForm
    BY <1>3 DEF Forms, Offers
  <2> QED BY <1>1, <1>3, <2>1, BorrowPageTold
<1>4. CASE page = "lend"
  <2>1. j \in LendForm
    BY <1>4 DEF Forms, Offers
  <2> QED BY <1>1, <1>4, <2>1, LendPageTold
<1>5. CASE page = "liquidate"
  <2>1. j \in LiquidateTable
    BY <1>5 DEF Forms, Offers
  <2> QED BY <1>1, <1>5, <2>1, LiquidatePageTold
<1>6. CASE page = "stocks"
  <2>1. g \in {"collateral", "loan"}
    BY <1>6 DEF Forms
  <2>2. CASE g = "collateral"
    <3>1. j \in CollateralPanel
      BY <2>2 DEF Offers
    <3>2. j.call \in {"depositStock", "withdrawStock"}
      BY <3>1, CollateralCalls
    <3> QED BY <1>6, <3>2, NothingToldHolds
  <2>3. CASE g = "loan"
    <3>1. j \in LoanPanel
      BY <2>3 DEF Offers
    <3> QED BY <1>1, <1>6, <3>1, LoanPanelTold
  <2> QED BY <2>1, <2>2, <2>3
<1>7. CASE page = "stockLend"
  <2>1. g \in {"lendPanel", "faucet"}
    BY <1>7 DEF Forms
  <2>2. j.call \in {"supply", "unsupply", "mint"}
    BY <2>1 DEF Offers, StockLendPanel, Faucet, Job
  <2> QED BY <1>7, <2>2, NothingToldHolds
<1>8. CASE page = "portfolio"
  BY <1>8 DEF Forms
<1> QED
  BY <1>1, <1>2, <1>3, <1>4, <1>5, <1>6, <1>7, <1>8

LEMMA FiguresFollow == LendingInv => FiguresHold
<1> SUFFICES ASSUME LendingInv PROVE FiguresHold
  OBVIOUS
<1>1. ChainOK(chain)
  BY DEF LendingInv
<1>2. Fresh /\ "vault" \in Reads(page) => DangerIsTold
  BY <1>1, DangerTold
<1>3. ASSUME chain.pool.accruedAt = chain.now, Fresh
      PROVE  \A g \in Forms(page) : \A j \in Offers(g) :
               Accepts(chain, j) => DoesAsShown(Applied(chain, j), j)
  BY <1>3, EveryCallDoesAsShown
<1>4. ASSUME chain.pool.accruedAt = chain.now, page = "portfolio", Fresh PROVE DashboardHolds
  BY <1>1, <1>4, DashboardTold
<1>5. ASSUME chain.pool.accruedAt = chain.now, page = "lend", FreshIn({"shared", "mine"}) PROVE LendScreenHolds
  BY <1>1, <1>5, LendScreenTold
<1> QED
  BY <1>2, <1>3, <1>4, <1>5 DEF FiguresHold

(***************************************************************************)
(* What the lending pages show, read fresh, is what the contracts will do: *)
(* the health and utilization a form promises, what an exit returns and a  *)
(* liquidation nets, what may still be borrowed or withdrawn, and a        *)
(* warning before a liquidation is possible (lib/lend, lib/stake,          *)
(* lib/stockLoan, lib/atRisk against the vaults' views).                   *)
(***************************************************************************)
THEOREM FiguresAreRight == Spec => []FiguresHold
  BY LendingInvariance, FiguresFollow, PTL

-----------------------------------------------------------------------------
(* Interest only grows, so what a page read is a lower bound for as long as nothing is mined. *)

LEMMA MulDivGrows ==
  ASSUME NEW a \in Nat, NEW b \in Nat, NEW x \in Nat, NEW y \in Nat, NEW c \in Nat, c > 0, a <= b, x <= y
  PROVE  MulDiv(a, x, c) <= MulDiv(b, y, c)
<1>1. x * a <= x * b /\ b * x <= b * y
  BY MulMonotone
<1>2. x * a = a * x /\ x * b = b * x
  OBVIOUS
<1>3. a * x \in Nat /\ b * x \in Nat /\ b * y \in Nat
  BY MulIsNat
<1>4. a * x <= b * y
  BY <1>1, <1>2, <1>3
<1> QED
  BY <1>3, <1>4, FloorGrows DEF MulDiv

\* The indexes of a pool accrued later are those of the pool accrued earlier, or more.
LEMMA AccrueGrows ==
  ASSUME NEW p, PoolOK(p), NEW s \in Nat, NEW t \in Nat, p.accruedAt <= s, s <= t
  PROVE  /\ p.borrowIndex <= Accrue(p, s).borrowIndex /\ Accrue(p, s).borrowIndex <= Accrue(p, t).borrowIndex
         /\ p.supplyIndex <= Accrue(p, s).supplyIndex /\ Accrue(p, s).supplyIndex <= Accrue(p, t).supplyIndex
<1> DEFINE grown(i, rate, now) == i + MulDiv(i, rate * (now - p.accruedAt), WAD)
<1>1. p.accruedAt \in Nat /\ p.borrowIndex \in Nat /\ p.supplyIndex \in Nat /\ WAD \in Nat /\ WAD > 0
  BY ScalesAreUnits DEF PoolOK, PoolType
<1>2. PICK up \in Nat : up = BorrowRateAt(Utilization(p))
  BY PoolReads, UsersAreTwo, RatesAreNat
<1>3. PICK down \in Nat : down = SupplyRateAt(Utilization(p))
  BY PoolReads, UsersAreTwo, RatesAreNat
<1>4. ASSUME NEW now
      PROVE  /\ Accrue(p, now).borrowIndex = grown(p.borrowIndex, up, now)
             /\ Accrue(p, now).supplyIndex = grown(p.supplyIndex, down, now)
  BY <1>2, <1>3 DEF Accrue, PoolOK, PoolType
<1>5. ASSUME NEW i \in Nat, NEW rate \in Nat
      PROVE  i <= grown(i, rate, s) /\ grown(i, rate, s) <= grown(i, rate, t)
  <2>1. PICK a \in Nat : a = s - p.accruedAt
    BY <1>1
  <2>2. PICK b \in Nat : b = t - p.accruedAt /\ a <= b
    BY <1>1, <2>1
  <2>3. rate * a <= rate * b /\ rate * a \in Nat /\ rate * b \in Nat
    BY <2>2, MulMonotone, MulIsNat
  <2>4. MulDiv(i, rate * a, WAD) \in Nat /\ MulDiv(i, rate * b, WAD) \in Nat
    BY <1>1, <2>3, MulDivIsNat
  <2>5. MulDiv(i, rate * a, WAD) <= MulDiv(i, rate * b, WAD)
    BY <1>1, <2>3, MulDivGrows
  <2>6. grown(i, rate, s) = i + MulDiv(i, rate * a, WAD) /\ grown(i, rate, t) = i + MulDiv(i, rate * b, WAD)
    BY <2>1, <2>2
  <2> HIDE DEF grown
  <2> QED BY <2>4, <2>5, <2>6
<1> HIDE DEF grown
<1> QED
  BY <1>1, <1>2, <1>3, <1>4, <1>5

\* A balance owed or supplied, by a pool whose index only is higher.
LEMMA BalancesGrow ==
  ASSUME NEW p, PoolOK(p), NEW q, PoolOK(q), q.debt = p.debt, q.supply = p.supply,
         p.borrowIndex <= q.borrowIndex, p.supplyIndex <= q.supplyIndex, NEW u \in Users
  PROVE  /\ BalanceOfDebt(p, u) <= BalanceOfDebt(q, u)
         /\ BalanceOfSupply(p, u) <= BalanceOfSupply(q, u)
         /\ BalanceOfDebt(p, u) = 0 => BalanceOfDebt(q, u) = 0
<1>1. /\ p.debt[u] \in Nat /\ p.supply[u] \in Nat /\ p.borrowIndex \in Nat /\ p.supplyIndex \in Nat
      /\ q.borrowIndex \in Nat /\ q.supplyIndex \in Nat /\ RAY \in Nat /\ RAY > 0
  BY PoolNumbers
<1>2. /\ BalanceOfDebt(p, u) <= BalanceOfDebt(q, u)
      /\ BalanceOfSupply(p, u) <= BalanceOfSupply(q, u)
  BY <1>1, MulDivGrows DEF BalanceOfDebt, BalanceOfSupply
<1>3. ASSUME BalanceOfDebt(p, u) = 0 PROVE BalanceOfDebt(q, u) = 0
  <2>1. RAY <= p.borrowIndex
    BY DEF PoolOK, PoolType
  <2>2. p.debt[u] * RAY <= p.debt[u] * p.borrowIndex
    BY <1>1, <2>1, MulMonotone
  <2>3. p.debt[u] * p.borrowIndex \in Nat
    BY <1>1, MulIsNat
  <2>4. p.debt[u] <= (p.debt[u] * p.borrowIndex) \div RAY
    BY <1>1, <2>2, <2>3, FloorIsLargest
  <2>5. p.debt[u] = 0
    BY <1>1, <1>3, <2>4 DEF BalanceOfDebt, MulDiv
  <2> QED BY <1>1, <2>5, MulDivOfNothing DEF BalanceOfDebt
<1> QED
  BY <1>2, <1>3

\* A deposit is worth its shares: the ledger beside them is never below.
LEMMA WorthItsShares ==
  ASSUME NEW c, ChainOK(c), NEW u \in Users
  PROVE  CollateralValue(c, u) = c.shares[u]
<1>1. /\ c.shares[u] \in Nat /\ c.position[u].principal \in Nat /\ c.position[u].settled \in Nat
      /\ AccruedYield(c, u) \in Nat
  BY ChainReads
<1>2. c.shares[u] <= c.position[u].principal
  BY <1>1 DEF ChainOK, LedgerLasts
<1> QED
  BY <1>1, <1>2 DEF CollateralValue, TotalLedgerValue, Lower

\* A second later.
Later(c) == [c EXCEPT !.now = @ + 1]

LEMMA LaterKeepsChain ==
  ASSUME NEW c, ChainOK(c)
  PROVE  /\ ChainOK(Later(c)) /\ Later(c).now = c.now + 1 /\ Later(c).pool = c.pool
         /\ Later(c).shares = c.shares /\ Later(c).position = c.position
         /\ Later(c).wallet = c.wallet /\ Later(c).allowed = c.allowed
         /\ Later(c).stock = c.stock /\ Later(c).stockWallet = c.stockWallet /\ Later(c).feed = c.feed
         /\ Later(c).paused = c.paused /\ Later(c).height = c.height
<1> DEFINE d == Later(c)
<1>1. c.now \in Nat /\ c.pool.accruedAt \in Nat /\ \A u \in Users : c.position[u].since \in Nat
  BY DEF ChainOK, ChainType, PoolType
<1>2. d = [c EXCEPT !.now = c.now + 1]
  BY DEF Later
<1> HIDE DEF d
<1>3. d \in ChainType
  BY <1>1, <1>2 DEF ChainOK, ChainType
<1>4. /\ d.now = c.now + 1 /\ d.pool = c.pool /\ d.shares = c.shares /\ d.position = c.position
      /\ d.wallet = c.wallet /\ d.allowed = c.allowed
      /\ d.stock = c.stock /\ d.stockWallet = c.stockWallet /\ d.feed = c.feed
      /\ d.height = c.height
  BY <1>2 DEF ChainOK, ChainType
<1>5. d.paused = c.paused
  <2>1. DOMAIN c = DOMAIN d /\ "paused" \in DOMAIN c
    BY <1>2 DEF ChainOK, ChainType
  <2> QED BY <1>2, <2>1, Zenon
<1>6. NeverAhead(d) /\ LedgerLasts(d) /\ TotalsAreSums(d.pool)
  BY <1>1, <1>4 DEF ChainOK, NeverAhead, LedgerLasts
<1> QED
  BY <1>3, <1>4, <1>5, <1>6 DEF ChainOK, d

\* The debt as stored, as the next write will make it, and as the one after that would.
LEMMA LienGrows ==
  ASSUME NEW c, ChainOK(c), NEW u \in Users
  PROVE  /\ LienOf(Later(c), u) = LienOf(c, u)
         /\ LienOf(c, u) \in Nat /\ LienOf(Accrued(c), u) \in Nat /\ LienOf(Accrued(Later(c)), u) \in Nat
         /\ LienOf(c, u) <= LienOf(Accrued(c), u)
         /\ LienOf(Accrued(c), u) <= LienOf(Accrued(Later(c)), u)
         /\ LienOf(c, u) = 0 => LienOf(Accrued(c), u) = 0
         /\ BalanceOfSupply(c.pool, u) <= BalanceOfSupply(Accrued(c).pool, u)
         /\ BalanceOfSupply(c.pool, u) \in Nat /\ BalanceOfSupply(Accrued(c).pool, u) \in Nat
         /\ Accrued(c).pool.cash = c.pool.cash
<1> DEFINE p == c.pool
           q == Accrue(c.pool, c.now)
           r == Accrue(c.pool, c.now + 1)
<1>1. PoolOK(p) /\ p.accruedAt \in Nat /\ c.now \in Nat /\ p.accruedAt <= c.now
  BY ChainReads DEF ChainOK, ChainType, PoolType
<1>2. c.now + 1 \in Nat /\ p.accruedAt <= c.now + 1 /\ c.now <= c.now + 1
  BY <1>1
<1>3. /\ PoolOK(q) /\ q.debt = p.debt /\ q.supply = p.supply /\ q.cash = p.cash
      /\ PoolOK(r) /\ r.debt = p.debt /\ r.supply = p.supply
  BY <1>1, <1>2, AccrueKeepsBooks
<1>4. /\ p.borrowIndex <= q.borrowIndex /\ q.borrowIndex <= r.borrowIndex
      /\ p.supplyIndex <= q.supplyIndex /\ q.supplyIndex <= r.supplyIndex
  BY <1>1, <1>2, AccrueGrows
<1>5. Accrued(c).pool = q /\ Accrued(Later(c)).pool = r /\ Later(c).pool = p
  BY LaterKeepsChain, AccruedKeepsChain
<1> HIDE DEF p, q, r
<1>6. /\ BalanceOfDebt(p, u) <= BalanceOfDebt(q, u) /\ BalanceOfDebt(q, u) <= BalanceOfDebt(r, u)
      /\ BalanceOfDebt(p, u) = 0 => BalanceOfDebt(q, u) = 0
      /\ BalanceOfSupply(p, u) <= BalanceOfSupply(q, u)
  BY <1>1, <1>3, <1>4, BalancesGrow
<1>7. /\ BalanceOfDebt(p, u) \in Nat /\ BalanceOfDebt(q, u) \in Nat /\ BalanceOfDebt(r, u) \in Nat
      /\ BalanceOfSupply(p, u) \in Nat /\ BalanceOfSupply(q, u) \in Nat
  BY <1>1, <1>3, PoolReads
<1> QED
  BY <1>3, <1>5, <1>6, <1>7 DEF LienOf, p

\* What the vault judges a position by before it liquidates.
LEMMA SettledHealth ==
  ASSUME NEW c, ChainOK(c), NEW u \in Users
  PROVE  LET d == Accrued(Settle(c, u))
             due == LienOf(Accrued(c), u) IN
         /\ LienOf(d, u) = due
         /\ HealthFactor(d, u) = IF due = 0 THEN NoDebt ELSE MulDiv(c.shares[u], LiquidationThreshold, due)
         /\ HealthFactor(Accrued(c), u) = HealthFactor(d, u)
         /\ CollateralValue(d, u) = c.shares[u]
         /\ d.pool = Accrued(c).pool
<1> DEFINE e == Settle(c, u)
           d == Accrued(e)
           b == Accrued(c)
<1>1. ChainOK(e) /\ e.pool = c.pool /\ e.shares = c.shares /\ e.now = c.now
  BY SettleKeepsChain
<1> HIDE DEF e
<1>2. ChainOK(d) /\ d.shares = c.shares /\ d.pool = Accrue(c.pool, c.now)
  BY <1>1, AccruedKeepsChain
<1>3. ChainOK(b) /\ b.shares = c.shares /\ b.pool = Accrue(c.pool, c.now)
  BY AccruedKeepsChain
<1> HIDE DEF d, b
<1>4. CollateralValue(d, u) = c.shares[u] /\ CollateralValue(b, u) = c.shares[u]
  BY <1>2, <1>3, WorthItsShares
<1>5. LienOf(d, u) = LienOf(b, u)
  BY <1>2, <1>3 DEF LienOf
<1> QED
  BY <1>2, <1>3, <1>4, <1>5 DEF HealthFactor, d, b, e

\* Time alone does not save a position from a liquidation.
LEMMA LiquidationStands ==
  ASSUME NEW c, ChainOK(c), HealthFactor(Accrued(Settle(c, "bo")), "bo") < WAD, MaxRepay(c, "bo") > 0
  PROVE  HealthFactor(Accrued(Settle(Later(c), "bo")), "bo") < WAD /\ MaxRepay(Later(c), "bo") > 0
<1> DEFINE health(due) == IF due = 0 THEN NoDebt ELSE MulDiv(c.shares["bo"], LiquidationThreshold, due)
<1>1. "bo" \in Users /\ ChainOK(Later(c)) /\ Later(c).shares = c.shares
  BY UsersAreTwo, LaterKeepsChain
<1>2. PICK now \in Nat : now = LienOf(Accrued(c), "bo")
  BY <1>1, LienGrows
<1>3. PICK then \in Nat : then = LienOf(Accrued(Later(c)), "bo") /\ now <= then
  BY <1>1, <1>2, LienGrows
<1>4. /\ LienOf(Accrued(Settle(c, "bo")), "bo") = now
      /\ HealthFactor(Accrued(Settle(c, "bo")), "bo") = health(now)
  BY <1>1, <1>2, SettledHealth
<1>5. /\ LienOf(Accrued(Settle(Later(c), "bo")), "bo") = then
      /\ HealthFactor(Accrued(Settle(Later(c), "bo")), "bo") = health(then)
  BY <1>1, <1>3, SettledHealth
<1>6. /\ WAD \in Nat /\ WAD > 0 /\ NoDebt >= 2 * WAD /\ NoDebt \in Nat
      /\ CloseFactor \in Nat /\ CloseFactor <= WAD /\ LiquidationThreshold \in Nat
  BY ScalesAreUnits, HealthIsDecimal, RatesAreShares, RiskIsValid
<1>7. now # 0
  BY <1>4, <1>6
<1>8. PICK line \in Nat : line = c.shares["bo"] * LiquidationThreshold
  <2>1. c.shares["bo"] \in Nat
    BY <1>1, ChainReads
  <2> QED BY <1>6, <2>1, MulIsNat
<1>9. PICK before \in Nat : before = line \div now /\ before = health(now)
  BY <1>7, <1>8, DivBounds DEF MulDiv
<1>10. PICK after \in Nat : after = line \div then /\ after = health(then) /\ then > 0
  BY <1>3, <1>7, <1>8, DivBounds DEF MulDiv
<1> HIDE DEF health
<1>11. after <= before
  <2>1. after * then <= line
    BY <1>8, <1>10, DivBounds
  <2>2. after * now <= after * then
    BY <1>3, MulMonotone
  <2>3. after * now \in Nat /\ after * then \in Nat
    BY MulIsNat
  <2>4. after * now <= line
    BY <2>1, <2>2, <2>3
  <2> QED BY <1>7, <1>8, <1>9, <2>4, FloorIsLargest
<1>12. PICK part \in Nat : part = EffectiveCloseFactor(before)
  BY <1>6 DEF EffectiveCloseFactor
<1>13. PICK whole \in Nat : whole = EffectiveCloseFactor(after) /\ part <= whole
  <2>1. FullLiquidationThreshold \in Nat
    <3>1. LiquidationBonus \in Nat /\ WAD + LiquidationBonus \in Nat
      BY <1>6, RatesAreShares
    <3> QED BY <1>6, <3>1, MulDivIsNat DEF FullLiquidationThreshold
  <2> QED BY <1>6, <1>11, <1>12, <2>1 DEF EffectiveCloseFactor
<1>14. MaxRepay(c, "bo") = MulDiv(now, part, WAD) /\ MaxRepay(Later(c), "bo") = MulDiv(then, whole, WAD)
  BY <1>4, <1>5, <1>9, <1>10, <1>12, <1>13 DEF MaxRepay
<1>15. MulDiv(now, part, WAD) <= MulDiv(then, whole, WAD)
  BY <1>3, <1>6, <1>13, MulDivGrows
<1>16. MulDiv(now, part, WAD) \in Nat /\ MulDiv(then, whole, WAD) \in Nat
  BY <1>6, MulDivIsNat
<1>17. after < WAD
  BY <1>4, <1>6, <1>9, <1>11
<1> QED
  BY <1>5, <1>10, <1>14, <1>15, <1>16, <1>17

LEMMA SameLine ==
  ASSUME NEW c, NEW d, NEW u, NEW ratio, d.stock[u] = c.stock[u], d.feed = c.feed
  PROVE  StockLine(d, u, ratio) = StockLine(c, u, ratio) /\ Held(d, u) = Held(c, u)
<1>1. Held(d, u) = Held(c, u)
  BY DEF Held
<1> QED
  BY <1>1 DEF StockLine, ValueOf

\* A stock account with some of a token taken out.
Without(c, t, a) == [c EXCEPT !.stock["bo"][t] = @ - a]
LEMMA WithoutStock ==
  ASSUME NEW c, ChainOK(c), NEW d, ChainOK(d), d.stock = c.stock, d.feed = c.feed, NEW t, NEW a, NEW ratio
  PROVE  StockLine(Without(d, t, a), "bo", ratio) = StockLine(Without(c, t, a), "bo", ratio)
<1>1. /\ Without(c, t, a).stock = [c.stock EXCEPT !["bo"][t] = @ - a] /\ Without(c, t, a).feed = c.feed
      /\ Without(d, t, a).stock = [d.stock EXCEPT !["bo"][t] = @ - a] /\ Without(d, t, a).feed = d.feed
  BY DEF Without, ChainOK, ChainType
<1> QED
  BY <1>1, SameLine

-----------------------------------------------------------------------------
(* A call between whose reads and itself nothing else was mined: time alone has passed,
   and what its page read stands but for the interest. *)

\* What a row of the liquidation table says of the borrower, interest counted.
RowStands(row, c) ==
  /\ ActionFor(row) = "liquidate" => HealthFactor(Accrued(Settle(c, "bo")), "bo") < WAD /\ MaxRepay(c, "bo") > 0
  /\ ActionFor(row) = "writeOff" => LienOf(Accrued(c), "bo") > c.shares["bo"]

PartStands(part, is, c) ==
  CASE part = "vault" ->
         /\ is.lien = LienOf(c, "bo") /\ is.collateral = c.shares["bo"]
         /\ is.borrowable = MaxBorrowable(c, "bo")
    [] part = "atRisk" -> RowStands(is, c)
    [] OTHER -> is = Reading(part, c).is

ReadStands(part, r, c) ==
  /\ r.height \in Nat /\ r.height <= c.height
  /\ r.height = c.height => PartStands(part, r.is, c)

\* Why a form let a job through, and what time cannot undo of it.
JobStands(c, j, at) ==
  LET debt == LienOf(c, "bo") IN
  /\ j.call \in {"deposit", "supply", "repay"} => j.of = "none" /\ j.amount <= c.wallet[Me]
  /\ j.call = "deposit" => page = "stake"
  /\ j.call = "supply" => page \in {"lend", "stockLend"}
  /\ j.call = "repay" => page \in {"borrow", "stocks"} /\ debt > 0
  /\ j.all => j.call = "repay" /\ j.amount = Lower(debt + AccrualMargin(debt), c.wallet[Me])
  /\ j.call = "withdraw" =>
       page = "stake" /\ j.amount <= c.shares["bo"] /\ (debt > 0 => j.amount = c.shares["bo"] /\ j.amount >= debt)
  /\ j.call = "borrow" =>
       page = "borrow" /\ debt + AccrualMargin(debt) + j.amount <= MulDiv(c.shares["bo"], MaxLTV, WAD)
  /\ j.call = "unsupply" => j.amount <= BalanceOfSupply(c.pool, Me) /\ j.amount <= c.pool.cash
  /\ j.call = "liquidate" => HealthFactor(Accrued(Settle(c, "bo")), "bo") < WAD /\ MaxRepay(c, "bo") > 0
  /\ j.call = "writeOff" => LienOf(Accrued(c), "bo") > c.shares["bo"]
  /\ j.call = "depositStock" => j.amount <= c.stockWallet[Me][j.of]
  /\ j.call = "withdrawStock" =>
       /\ page = "stocks" /\ j.amount <= c.stock["bo"][j.of]
       /\ debt > 0 => /\ debt <= StockLine(Without(c, j.of, j.amount), "bo", MaxLTV) + 1
                      /\ \A t \in Held(c, "bo") : at - c.feed[t].at <= MaxAge
  /\ j.call = "borrowStock" =>
       /\ page = "stocks"
       /\ debt + AccrualMargin(debt) + j.amount + FeeOn(j.amount) <= StockLine(c, "bo", MaxLTV)
       /\ \A t \in Held(c, "bo") : at - c.feed[t].at <= MaxAge

Approves(j) == j.call \in {"deposit", "supply", "repay", "depositStock"}
ApprovedTo(j) == IF j.of = "none" THEN Spender ELSE j.of
AllowanceStands(c, s) ==
  Approves(s.job) =>
    /\ s.step = "approve" => s.job.approve = s.job.amount
    /\ s.step = "call" => s.job.amount <= c.allowed[Me][ApprovedTo(s.job)]

SendStands(s, c) ==
  s.step \in {"approve", "call"} =>
    /\ s.height \in Nat /\ s.height <= c.height /\ s.at \in Nat
    /\ s.height = c.height => JobStands(c, s.job, s.at) /\ AllowanceStands(c, s)

UntouchedInv ==
  /\ LendingInv
  /\ \A part \in Reads(page) : ReadStands(part, seen[part], chain)
  /\ \A f \in Forms(page) : SendStands(sent[f], chain)

\* What a job rests on: the pool, the deposits, the wallets and the prices, and for a
\* liquidator what time has made of the borrower.
LEMMA JobCarries ==
  ASSUME NEW c, ChainOK(c), NEW d, ChainOK(d), NEW j, NEW at, JobStands(c, j, at),
         d.pool = c.pool, d.shares = c.shares, d.wallet = c.wallet, d.stock = c.stock,
         d.stockWallet = c.stockWallet, d.feed = c.feed,
         j.call = "liquidate" => HealthFactor(Accrued(Settle(d, "bo")), "bo") < WAD /\ MaxRepay(d, "bo") > 0,
         j.call = "writeOff" => LienOf(Accrued(d), "bo") > d.shares["bo"]
  PROVE  JobStands(d, j, at)
<1> DEFINE debt == LienOf(c, "bo")
           aged(e) == \A t \in Held(e, "bo") : at - e.feed[t].at <= MaxAge
<1>1. LienOf(d, "bo") = debt
  BY DEF LienOf
<1>2. StockLine(Without(d, j.of, j.amount), "bo", MaxLTV) = StockLine(Without(c, j.of, j.amount), "bo", MaxLTV)
  BY WithoutStock
<1>3. StockLine(d, "bo", MaxLTV) = StockLine(c, "bo", MaxLTV) /\ Held(d, "bo") = Held(c, "bo")
  BY SameLine
<1>4. aged(d) <=> aged(c)
  BY <1>3
<1>5. /\ j.call = "withdrawStock" =>
           /\ page = "stocks" /\ j.amount <= c.stock["bo"][j.of]
           /\ debt > 0 => debt <= StockLine(Without(c, j.of, j.amount), "bo", MaxLTV) + 1 /\ aged(c)
      /\ j.call = "borrowStock" =>
           /\ page = "stocks"
           /\ debt + AccrualMargin(debt) + j.amount + FeeOn(j.amount) <= StockLine(c, "bo", MaxLTV)
           /\ aged(c)
  BY DEF JobStands
<1> HIDE DEF aged
<1>6. /\ j.call = "withdrawStock" =>
           /\ page = "stocks" /\ j.amount <= d.stock["bo"][j.of]
           /\ debt > 0 => debt <= StockLine(Without(d, j.of, j.amount), "bo", MaxLTV) + 1 /\ aged(d)
      /\ j.call = "borrowStock" =>
           /\ page = "stocks"
           /\ debt + AccrualMargin(debt) + j.amount + FeeOn(j.amount) <= StockLine(d, "bo", MaxLTV)
           /\ aged(d)
  BY <1>2, <1>3, <1>4, <1>5
<1>7. /\ j.call \in {"deposit", "supply", "repay"} => j.of = "none" /\ j.amount <= d.wallet[Me]
      /\ j.call = "deposit" => page = "stake"
      /\ j.call = "supply" => page \in {"lend", "stockLend"}
      /\ j.call = "repay" => page \in {"borrow", "stocks"} /\ debt > 0
      /\ j.all => j.call = "repay" /\ j.amount = Lower(debt + AccrualMargin(debt), d.wallet[Me])
      /\ j.call = "withdraw" =>
           page = "stake" /\ j.amount <= d.shares["bo"] /\ (debt > 0 => j.amount = d.shares["bo"] /\ j.amount >= debt)
      /\ j.call = "borrow" =>
           page = "borrow" /\ debt + AccrualMargin(debt) + j.amount <= MulDiv(d.shares["bo"], MaxLTV, WAD)
      /\ j.call = "unsupply" => j.amount <= BalanceOfSupply(d.pool, Me) /\ j.amount <= d.pool.cash
      /\ j.call = "depositStock" => j.amount <= d.stockWallet[Me][j.of]
  BY Zenon DEF JobStands
<1> HIDE DEF debt
<1> QED
  BY <1>1, <1>6, <1>7, Zenon DEF JobStands, aged

LEMMA JobStaysLater ==
  ASSUME NEW c, ChainOK(c), NEW j, NEW at, JobStands(c, j, at)
  PROVE  JobStands(Later(c), j, at)
<1> DEFINE d == Later(c)
<1>1. "bo" \in Users
  BY UsersAreTwo
<1>2. ChainOK(d) /\ d.pool = c.pool /\ d.shares = c.shares /\ d.wallet = c.wallet /\ d.stock = c.stock
      /\ d.stockWallet = c.stockWallet /\ d.feed = c.feed
  BY LaterKeepsChain
<1>3. j.call = "liquidate" => HealthFactor(Accrued(Settle(d, "bo")), "bo") < WAD /\ MaxRepay(d, "bo") > 0
  BY LiquidationStands DEF JobStands
<1>4. /\ LienOf(Accrued(c), "bo") \in Nat /\ LienOf(Accrued(d), "bo") \in Nat
      /\ LienOf(Accrued(c), "bo") <= LienOf(Accrued(d), "bo") /\ c.shares["bo"] \in Nat
  BY <1>1, LienGrows, ChainReads
<1> HIDE DEF d
<1>5. j.call = "writeOff" => LienOf(Accrued(d), "bo") > d.shares["bo"]
  BY <1>2, <1>4 DEF JobStands
<1> QED
  BY <1>2, <1>3, <1>5, JobCarries DEF d

LEMMA PartStaysLater ==
  ASSUME NEW c, ChainOK(c), NEW part \in Parts, NEW is, PartStands(part, is, c)
  PROVE  PartStands(part, is, Later(c))
<1> DEFINE d == Later(c)
<1>1. "bo" \in Users
  BY UsersAreTwo
<1>2. ChainOK(d) /\ d.pool = c.pool /\ d.shares = c.shares /\ d.wallet = c.wallet /\ d.stock = c.stock
      /\ d.stockWallet = c.stockWallet /\ d.feed = c.feed /\ d.allowed = c.allowed
  BY LaterKeepsChain
<1>3. CASE part = "vault"
  <2>1. LienOf(d, "bo") = LienOf(c, "bo")
    BY <1>1, LienGrows
  <2>2. CollateralValue(d, "bo") = c.shares["bo"] /\ CollateralValue(c, "bo") = c.shares["bo"]
    <3> HIDE DEF d
    <3> QED BY <1>1, <1>2, WorthItsShares
  <2> HIDE DEF d
  <2>3. MaxBorrowable(d, "bo") = MaxBorrowable(c, "bo")
    BY <2>1, <2>2 DEF MaxBorrowable
  <2> QED BY <1>2, <1>3, <2>1, <2>3 DEF PartStands, d
<1>4. CASE part = "atRisk"
  <2>1. RowStands(is, c)
    BY <1>4 DEF PartStands
  <2>2. ActionFor(is) = "liquidate" => HealthFactor(Accrued(Settle(d, "bo")), "bo") < WAD /\ MaxRepay(d, "bo") > 0
    BY <2>1, LiquidationStands DEF RowStands
  <2>3. ActionFor(is) = "writeOff" => LienOf(Accrued(d), "bo") > d.shares["bo"]
    <3>1. /\ LienOf(Accrued(c), "bo") \in Nat /\ LienOf(Accrued(d), "bo") \in Nat
          /\ LienOf(Accrued(c), "bo") <= LienOf(Accrued(d), "bo") /\ c.shares["bo"] \in Nat
      BY <1>1, LienGrows, ChainReads
    <3> HIDE DEF d
    <3> QED BY <1>2, <2>1, <3>1 DEF RowStands
  <2> HIDE DEF d
  <2> QED BY <1>4, <2>2, <2>3 DEF PartStands, RowStands, d
<1>5. CASE part \notin {"vault", "atRisk"}
  <2>1. is = Reading(part, c).is
    BY <1>5 DEF PartStands
  <2> HIDE DEF d
  <2>2. LendShared(d) = LendShared(c)
    BY <1>2 DEF LendShared
  <2>3. StockLoan(d) = StockLoan(c)
    BY <1>2 DEF StockLoan, LienOf, ValueOf
  <2>4. Reading(part, d).is = Reading(part, c).is
    <3>1. CASE part = "shared"
      BY <2>2, <3>1 DEF Reading
    <3>2. CASE part = "loan"
      BY <2>3, <3>2 DEF Reading
    <3>3. CASE part \in {"mine", "wallet", "allowance"}
      BY <1>2, <3>3 DEF Reading
    <3> QED BY <1>5, <3>1, <3>2, <3>3 DEF Parts
  <2> QED BY <1>5, <2>1, <2>4 DEF PartStands, d
<1> QED
  BY <1>3, <1>4, <1>5

LEMMA ReadingStands ==
  ASSUME NEW c, ChainOK(c), NEW part \in Parts
  PROVE  PartStands(part, Reading(part, c).is, c)
<1>1. "bo" \in Users
  BY UsersAreTwo
<1>2. CASE part = "vault"
  <2>1. CollateralValue(c, "bo") = c.shares["bo"]
    BY <1>1, WorthItsShares
  <2>2. Reading(part, c).is = VaultPosition(c)
    BY <1>2 DEF Reading
  <2> QED BY <1>2, <2>1, <2>2 DEF PartStands, VaultPosition
<1>3. CASE part = "atRisk"
  <2>1. PICK row : row = AtRisk(c)
    OBVIOUS
  <2>2. Reading(part, c).is = row
    BY <1>3, <2>1 DEF Reading
  <2>3. ASSUME ActionFor(row) = "liquidate"
        PROVE  HealthFactor(Accrued(Settle(c, "bo")), "bo") < WAD /\ MaxRepay(c, "bo") > 0
    <3>1. row.liquidatable /\ row.profitable
      BY <2>3 DEF ActionFor
    <3>2. /\ HealthFactor(Accrued(c), "bo") < WAD
          /\ row.maxRepay = MaxRepay(c, "bo")
          /\ row.seized > row.maxRepay
          /\ row.maxRepay = 0 => row.seized = 0
      BY <2>1, <3>1 DEF AtRisk
    <3>3. HealthFactor(Accrued(Settle(c, "bo")), "bo") < WAD
      BY <1>1, <3>2, SettledHealth
    <3>4. MaxRepay(c, "bo") \in Nat
      BY <1>1, MaxRepayIsNat
    <3> QED BY <3>2, <3>3, <3>4
  <2>4. ASSUME ActionFor(row) = "writeOff" PROVE LienOf(Accrued(c), "bo") > c.shares["bo"]
    <3>1. row.writeOffCandidate
      BY <2>4 DEF ActionFor
    <3> QED BY <2>1, <3>1 DEF AtRisk
  <2> QED BY <1>3, <2>2, <2>3, <2>4 DEF PartStands, RowStands
<1>4. CASE part \notin {"vault", "atRisk"}
  BY <1>4 DEF PartStands
<1> QED
  BY <1>2, <1>3, <1>4

\* What a job says, field by field.
LEMMA JobFields ==
  ASSUME NEW call, NEW a, NEW approve, NEW shows, NEW t
  PROVE  LET j == Job(call, a, approve, shows)
             k == [j EXCEPT !.of = t] IN
         /\ j.call = call /\ j.amount = a /\ j.of = "none" /\ j.approve = approve /\ ~j.all
         /\ k.call = call /\ k.amount = a /\ k.of = t /\ k.approve = approve /\ ~k.all
<1> DEFINE j == Job(call, a, approve, shows)
           k == [j EXCEPT !.of = t]
<1>1. /\ j.call = call /\ j.amount = a /\ j.of = "none" /\ j.approve = approve
      /\ k.call = call /\ k.amount = a /\ k.of = t /\ k.approve = approve
  BY DEF Job
<1>2. j.all = FALSE /\ k.all = FALSE
  BY DEF Job
<1> QED
  BY <1>1, <1>2, Zenon

\* What the page would ask the allowance to be, or the allowance that will do.
Covered(c, j) ==
  Approves(j) => IF j.approve > 0 THEN j.approve = j.amount ELSE j.amount <= c.allowed[Me][ApprovedTo(j)]

LEMMA ShortCovers ==
  ASSUME NEW c, NEW j, NEW allowance \in Nat, allowance = c.allowed[Me][ApprovedTo(j)], j.amount \in Nat \ {0},
         j.approve = Short(allowance, j.amount)
  PROVE  Covered(c, j)
  BY DEF Covered, Short

\* Every part a page shows stands for the chain as it is.
Stands == \A part \in Reads(page) : PartStands(part, Seen(part), chain)

LEMMA StandingReads ==
  ASSUME Stands, ChainOK(chain)
  PROVE  /\ "vault" \in Reads(page) =>
              /\ Seen("vault").lien = LienOf(chain, "bo") /\ Seen("vault").collateral = chain.shares["bo"]
              /\ Seen("vault").borrowable = MaxBorrowable(chain, "bo")
         /\ "shared" \in Reads(page) => Seen("shared").available = chain.pool.cash
         /\ "mine" \in Reads(page) => Seen("mine") = BalanceOfSupply(chain.pool, Me)
         /\ "wallet" \in Reads(page) => Seen("wallet") = chain.wallet[Me]
         /\ "allowance" \in Reads(page) => Seen("allowance") = chain.allowed[Me][Spender]
         /\ "atRisk" \in Reads(page) => RowStands(Seen("atRisk"), chain)
         /\ "loan" \in Reads(page) => Seen("loan") = StockLoan(chain)
<1>1. /\ "vault" \in Reads(page) =>
              /\ Seen("vault").lien = LienOf(chain, "bo") /\ Seen("vault").collateral = chain.shares["bo"]
              /\ Seen("vault").borrowable = MaxBorrowable(chain, "bo")
      /\ "atRisk" \in Reads(page) => RowStands(Seen("atRisk"), chain)
  BY DEF Stands, PartStands
<1>2. \A part \in Reads(page) : part \notin {"vault", "atRisk"} => Seen(part) = Reading(part, chain).is
  BY DEF Stands, PartStands
<1>3. Reading("shared", chain).is = LendShared(chain) /\ LendShared(chain).available = chain.pool.cash
  BY DEF Reading, LendShared
<1>4. /\ Reading("mine", chain).is = BalanceOfSupply(chain.pool, Me)
      /\ Reading("wallet", chain).is = chain.wallet[Me]
      /\ Reading("allowance", chain).is = chain.allowed[Me][Spender]
      /\ Reading("loan", chain).is = StockLoan(chain)
  BY DEF Reading
<1> QED
  BY <1>1, <1>2, <1>3, <1>4

\* The accounts the forms send from and to.
LEMMA MyNumbers ==
  ASSUME NEW c, ChainOK(c)
  PROVE  /\ c.wallet[Me] \in Nat /\ c.shares["bo"] \in Nat /\ LienOf(c, "bo") \in Nat
         /\ c.pool.cash \in Nat /\ BalanceOfSupply(c.pool, Me) \in Nat
         /\ c.allowed[Me][Spender] \in Nat /\ \A t \in Tokens : c.allowed[Me][t] \in Nat
         /\ \A t \in Tokens : c.stock["bo"][t] \in Nat /\ c.stockWallet[Me][t] \in Nat
<1>1. Me \in Users /\ "bo" \in Users /\ Spender \in Spenders /\ Tokens \subseteq Spenders
  BY MyAccount, UsersAreTwo DEF Spenders
<1>2. BalanceOfSupply(c.pool, Me) \in Nat /\ LienOf(c, "bo") \in Nat /\ c.wallet[Me] \in Nat
  BY <1>1, ChainReads, PoolReads
<1>3. c.shares["bo"] \in Nat /\ c.pool.cash \in Nat
  BY <1>1, ChainReads
<1>4. /\ c.allowed \in [Users -> [Spenders -> Nat]]
      /\ c.stock \in [Users -> [Tokens -> Nat]] /\ c.stockWallet \in [Users -> [Tokens -> Nat]]
  BY DEF ChainOK, ChainType, StockType
<1>5. c.allowed[Me] \in [Spenders -> Nat] /\ c.stock["bo"] \in [Tokens -> Nat] /\ c.stockWallet[Me] \in [Tokens -> Nat]
  BY <1>1, <1>4
<1> QED
  BY <1>1, <1>2, <1>3, <1>5

LEMMA StakeStands ==
  ASSUME page = "stake", ChainOK(chain), Stands, NEW j \in StakeForm, NEW at
  PROVE  JobStands(chain, j, at) /\ Covered(chain, j)
<1> DEFINE p == Seen("vault")
           lien == LienOf(chain, "bo")
<1>1. {"vault", "wallet", "allowance"} \subseteq Reads(page)
  BY DEF Reads, StockPages
<1>2. /\ p.lien = lien /\ p.collateral = chain.shares["bo"]
      /\ Seen("wallet") = chain.wallet[Me] /\ Seen("allowance") = chain.allowed[Me][Spender]
  BY <1>1, StandingReads
<1>3. chain.wallet[Me] \in Nat /\ chain.shares["bo"] \in Nat /\ lien \in Nat /\ chain.allowed[Me][Spender] \in Nat
  BY MyNumbers
<1>4. CASE \E a \in Typed(Seen("wallet")) : j = Job("deposit", a, Short(Seen("allowance"), a), 0)
  <2>1. PICK a \in Typed(Seen("wallet")) : j = Job("deposit", a, Short(Seen("allowance"), a), 0)
    BY <1>4
  <2>2. a \in Nat \ {0} /\ a <= chain.wallet[Me]
    BY <1>2, <1>3, TypedIsPositive
  <2>3. j.call = "deposit" /\ j.amount = a /\ j.of = "none" /\ j.approve = Short(Seen("allowance"), a) /\ ~j.all
    BY <2>1, JobFields
  <2>4. JobStands(chain, j, at)
    BY <2>2, <2>3 DEF JobStands
  <2>5. ApprovedTo(j) = Spender
    BY <2>3 DEF ApprovedTo
  <2> QED BY <1>2, <1>3, <2>2, <2>3, <2>4, <2>5, ShortCovers
<1>5. CASE \E a \in {x \in Typed(p.collateral) : p.lien > 0 => x = p.collateral /\ x >= p.lien} :
             j = Job("withdraw", a, 0, a - p.lien)
  <2>1. PICK a \in Typed(p.collateral) :
          (p.lien > 0 => a = p.collateral /\ a >= p.lien) /\ j = Job("withdraw", a, 0, a - p.lien)
    BY <1>5
  <2>2. a \in Nat \ {0} /\ a <= chain.shares["bo"]
    BY <1>2, <1>3, <2>1, TypedIsPositive
  <2>3. j.call = "withdraw" /\ j.amount = a /\ ~j.all
    BY <2>1, JobFields
  <2>4. lien > 0 => a = chain.shares["bo"] /\ a >= lien
    BY <1>2, <2>1
  <2>5. JobStands(chain, j, at)
    BY <2>2, <2>3, <2>4 DEF JobStands
  <2> QED BY <2>3, <2>5 DEF Covered, Approves
<1> QED
  BY <1>4, <1>5 DEF StakeForm

LEMMA RepayStands ==
  ASSUME page \in {"borrow", "stocks"}, ChainOK(chain), NEW shows, NEW at,
         NEW a \in Nat \ {0}, a <= LienOf(chain, "bo"), a <= chain.wallet[Me],
         NEW j, j = RepayJob(a, LienOf(chain, "bo"), chain.wallet[Me], chain.allowed[Me][Spender], shows)
  PROVE  JobStands(chain, j, at) /\ Covered(chain, j)
<1>1. PICK debt \in Nat : debt = LienOf(chain, "bo")
  BY MyNumbers
<1>2. PICK wallet \in Nat : wallet = chain.wallet[Me]
  BY MyNumbers
<1>3. PICK allowance \in Nat : allowance = chain.allowed[Me][Spender]
  BY MyNumbers
<1>4. PICK send : send = IF a >= debt THEN PayOffAmount(debt, wallet) ELSE a
  OBVIOUS
<1>5. AccrualMargin(debt) \in Nat
  BY MarginIsNat
<1>6. send \in Nat \ {0} /\ send <= wallet
  BY <1>1, <1>2, <1>4, <1>5 DEF PayOffAmount, Lower
<1>7. PICK job : job = Job("repay", send, Short(allowance, send), shows)
  OBVIOUS
<1>8. j = [job EXCEPT !.all = (a >= debt)]
  BY <1>1, <1>2, <1>3, <1>4, <1>7 DEF RepayJob
<1>9. j.call = "repay" /\ j.amount = send /\ j.of = "none" /\ j.approve = Short(allowance, send)
  BY <1>7, <1>8 DEF Job
<1>10. j.all = (a >= debt)
  BY <1>7, <1>8 DEF Job
<1>11. j.all => send = Lower(debt + AccrualMargin(debt), wallet)
  <2>1. a >= debt => send = Lower(debt + AccrualMargin(debt), wallet)
    BY <1>4 DEF PayOffAmount
  <2> QED BY <1>10, <2>1, Zenon
<1>12. JobStands(chain, j, at)
  BY <1>1, <1>2, <1>6, <1>9, <1>11 DEF JobStands
<1>13. ApprovedTo(j) = Spender
  BY <1>9 DEF ApprovedTo
<1> QED
  BY <1>3, <1>6, <1>9, <1>12, <1>13, ShortCovers

LEMMA BorrowStands ==
  ASSUME page = "borrow", ChainOK(chain), Stands, NEW j \in BorrowForm, NEW at
  PROVE  JobStands(chain, j, at) /\ Covered(chain, j)
<1> DEFINE p == Seen("vault")
<1>1. {"vault", "wallet", "allowance"} \subseteq Reads(page)
  BY DEF Reads, StockPages
<1>2. /\ p.lien = LienOf(chain, "bo") /\ p.borrowable = MaxBorrowable(chain, "bo")
      /\ Seen("wallet") = chain.wallet[Me] /\ Seen("allowance") = chain.allowed[Me][Spender]
  BY <1>1, StandingReads
<1>3. PICK lien \in Nat : lien = LienOf(chain, "bo")
  BY MyNumbers
<1>4. PICK shares \in Nat : shares = chain.shares["bo"]
  BY MyNumbers
<1>5. PICK ceiling \in Nat : ceiling = MulDiv(shares, MaxLTV, WAD)
  <2>1. WAD \in Nat /\ WAD > 0 /\ MaxLTV \in Nat
    BY ScalesAreUnits, RatesAreShares
  <2> QED BY <2>1, MulDivIsNat
<1>6. p.borrowable = IF ceiling > lien THEN ceiling - lien ELSE 0
  <2>1. CollateralValue(chain, "bo") = shares
    BY <1>4, UsersAreTwo, WorthItsShares
  <2> QED BY <1>2, <1>3, <1>5, <2>1 DEF MaxBorrowable
<1>7. PICK margin \in Nat : margin = AccrualMargin(lien)
  BY MarginIsNat
<1>8. CASE \E a \in Typed(BorrowHeadroom(p.borrowable, p.lien)) : j = Job("borrow", a, 0, PreviewHealth(p, a))
  <2>1. PICK a \in Typed(BorrowHeadroom(p.borrowable, p.lien)) : j = Job("borrow", a, 0, PreviewHealth(p, a))
    BY <1>8
  <2>2. BorrowHeadroom(p.borrowable, p.lien) = IF p.borrowable > margin THEN p.borrowable - margin ELSE 0
    BY <1>2, <1>3, <1>7 DEF BorrowHeadroom
  <2> HIDE DEF p
  <2>3. BorrowHeadroom(p.borrowable, p.lien) \in Int
    BY <1>3, <1>6, <2>2
  <2>4. a \in Nat \ {0} /\ a <= BorrowHeadroom(p.borrowable, p.lien)
    BY <2>1, <2>3, TypedIsPositive
  <2>5. lien + margin + a <= ceiling
    BY <1>3, <1>6, <2>2, <2>4
  <2>6. j.call = "borrow" /\ j.amount = a /\ ~j.all
    BY <2>1, JobFields
  <2>7. JobStands(chain, j, at)
    BY <1>3, <1>4, <1>5, <1>7, <2>5, <2>6 DEF JobStands
  <2> QED BY <2>6, <2>7 DEF Covered, Approves
<1>9. CASE \E a \in {x \in Typed(p.lien) : x <= Seen("wallet")} :
             j = RepayJob(a, p.lien, Seen("wallet"), Seen("allowance"), PreviewHealth(p, -a))
  <2>1. PICK a \in Typed(p.lien) :
          a <= Seen("wallet") /\ j = RepayJob(a, p.lien, Seen("wallet"), Seen("allowance"), PreviewHealth(p, -a))
    BY <1>9
  <2>2. a \in Nat \ {0} /\ a <= LienOf(chain, "bo") /\ a <= chain.wallet[Me]
    BY <1>2, <1>3, <2>1, TypedIsPositive
  <2> HIDE DEF p
  <2> QED BY <1>2, <2>1, <2>2, RepayStands
<1> QED
  BY <1>8, <1>9 DEF BorrowForm

\* What leaves the pool is within both the balance and the cash.
LEMMA UnsupplyStands ==
  ASSUME ChainOK(chain), NEW a \in Typed(Lower(BalanceOfSupply(chain.pool, Me), chain.pool.cash)),
         NEW shows, NEW j, j = Job("unsupply", a, 0, shows), NEW at
  PROVE  JobStands(chain, j, at) /\ Covered(chain, j)
<1>1. BalanceOfSupply(chain.pool, Me) \in Nat /\ chain.pool.cash \in Nat
  BY MyNumbers
<1>2. Lower(BalanceOfSupply(chain.pool, Me), chain.pool.cash) \in Int
  BY <1>1, LowerIsEither
<1>3. a \in Nat \ {0} /\ a <= Lower(BalanceOfSupply(chain.pool, Me), chain.pool.cash)
  BY <1>2, TypedIsPositive
<1>4. a <= BalanceOfSupply(chain.pool, Me) /\ a <= chain.pool.cash
  BY <1>1, <1>3 DEF Lower
<1>5. j.call = "unsupply" /\ j.amount = a /\ ~j.all
  BY JobFields
<1> QED
  BY <1>4, <1>5 DEF JobStands, Covered, Approves

LEMMA SupplyStands ==
  ASSUME page \in {"lend", "stockLend"}, ChainOK(chain), NEW a \in Typed(chain.wallet[Me]),
         NEW shows, NEW j, j = Job("supply", a, Short(chain.allowed[Me][Spender], a), shows), NEW at
  PROVE  JobStands(chain, j, at) /\ Covered(chain, j)
<1>1. chain.wallet[Me] \in Nat /\ chain.allowed[Me][Spender] \in Nat
  BY MyNumbers
<1>2. a \in Nat \ {0} /\ a <= chain.wallet[Me]
  BY <1>1, TypedIsPositive
<1>3. /\ j.call = "supply" /\ j.amount = a /\ j.of = "none" /\ ~j.all
      /\ j.approve = Short(chain.allowed[Me][Spender], a)
  BY JobFields
<1>4. JobStands(chain, j, at)
  BY <1>2, <1>3 DEF JobStands
<1>5. ApprovedTo(j) = Spender
  BY <1>3 DEF ApprovedTo
<1> QED
  BY <1>1, <1>2, <1>3, <1>4, <1>5, ShortCovers

LEMMA LendStands ==
  ASSUME page = "lend", ChainOK(chain), Stands, NEW j \in LendForm, NEW at
  PROVE  JobStands(chain, j, at) /\ Covered(chain, j)
<1> DEFINE s == Seen("shared")
<1>1. {"shared", "mine", "wallet", "allowance"} \subseteq Reads(page)
  BY DEF Reads, StockPages
<1>2. /\ s.available = chain.pool.cash /\ Seen("mine") = BalanceOfSupply(chain.pool, Me)
      /\ Seen("wallet") = chain.wallet[Me] /\ Seen("allowance") = chain.allowed[Me][Spender]
  BY <1>1, StandingReads
<1>3. CASE \E a \in Typed(Seen("wallet")) :
             j = Job("supply", a, Short(Seen("allowance"), a), UtilizationAfter(s.borrowed, s.available, a))
  <2> HIDE DEF s
  <2> QED BY <1>2, <1>3, SupplyStands
<1>4. CASE \E a \in Typed(MaxWithdraw(Seen("mine"), s.available)) :
             j = Job("unsupply", a, 0, UtilizationAfter(s.borrowed, s.available, -a))
  <2>1. MaxWithdraw(Seen("mine"), s.available) = Lower(BalanceOfSupply(chain.pool, Me), chain.pool.cash)
    BY <1>2 DEF MaxWithdraw
  <2> HIDE DEF s
  <2> QED BY <1>4, <2>1, UnsupplyStands
<1> QED
  BY <1>3, <1>4 DEF LendForm

LEMMA LiquidateStands ==
  ASSUME page = "liquidate", ChainOK(chain), Stands, NEW j \in LiquidateTable, NEW at
  PROVE  JobStands(chain, j, at) /\ Covered(chain, j)
<1>1. PICK row : row = Seen("atRisk")
  OBVIOUS
<1>2. "atRisk" \in Reads(page)
  BY DEF Reads, StockPages
<1>3. RowStands(row, chain)
  BY <1>1, <1>2, StandingReads
<1>4. PICK shows : j = Job(ActionFor(row), 1, 0, shows) /\ ActionFor(row) # "watch"
  BY <1>1 DEF LiquidateTable
<1>5. j.call = ActionFor(row) /\ ~j.all
  BY <1>4, JobFields
<1>6. ActionFor(row) \in {"liquidate", "writeOff"}
  BY <1>4 DEF ActionFor
<1>7. JobStands(chain, j, at)
  BY <1>3, <1>5, <1>6 DEF JobStands, RowStands
<1> QED
  BY <1>5, <1>6, <1>7 DEF Covered, Approves

LEMMA StockLendStands ==
  ASSUME page = "stockLend", ChainOK(chain), Stands, NEW j \in StockLendPanel, NEW at
  PROVE  JobStands(chain, j, at) /\ Covered(chain, j)
<1>1. PICK l : l = Seen("loan")
  OBVIOUS
<1>2. "loan" \in Reads(page)
  BY DEF Reads, StockPages
<1>3. l = StockLoan(chain)
  BY <1>1, <1>2, StandingReads
<1>4. /\ l.wallet = chain.wallet[Me] /\ l.allowance = chain.allowed[Me][Spender]
      /\ l.supplied = BalanceOfSupply(chain.pool, Me) /\ l.liquidity = chain.pool.cash
  BY <1>3 DEF StockLoan
<1>5. CASE \E a \in Typed(l.wallet) : j = Job("supply", a, Short(l.allowance, a), 0)
  BY <1>4, <1>5, SupplyStands
<1>6. CASE \E a \in Typed(Lower(l.supplied, l.liquidity)) : j = Job("unsupply", a, 0, 0)
  BY <1>4, <1>6, UnsupplyStands
<1> QED
  BY <1>1, <1>5, <1>6 DEF StockLendPanel

LEMMA FaucetStands ==
  ASSUME NEW j \in Faucet, NEW at
  PROVE  JobStands(chain, j, at) /\ Covered(chain, j)
<1>1. j.call = "mint" /\ ~j.all
  BY JobFields DEF Faucet
<1> QED
  BY <1>1 DEF JobStands, Covered, Approves

-----------------------------------------------------------------------------
(* The stock page's limits, by the worth of one token it read. *)

\* A token's part of the line, by the worth read, is never above the vault's.
LEMMA TokenLineIsLow ==
  ASSUME NEW c, ChainOK(c), NEW t \in Tokens, NEW a \in Nat, NEW ratio \in Nat
  PROVE  LET shown == MulDiv(MulDiv(a, ValueOf(c, t, TokenUnit), TokenUnit), ratio, WAD)
             line == MulDiv(ValueOf(c, t, a), ratio, WAD) IN
         shown \in Nat /\ line \in Nat /\ shown <= line
<1>1. PICK price \in Nat : price = c.feed[t].price
  BY DEF ChainOK, ChainType
<1>2. TokenUnit \in Nat /\ TokenUnit > 0 /\ FeedScale \in Nat /\ FeedScale > 0 /\ WAD \in Nat /\ WAD > 0
  BY TokensAreListed, ScalesAreUnits
<1>3. PICK worth : worth = MulDiv(TokenUnit, price, TokenUnit * FeedScale)
  OBVIOUS
<1>4. /\ MulDiv(a, worth, TokenUnit) \in Nat /\ MulDiv(a, price, TokenUnit * FeedScale) \in Nat
      /\ MulDiv(a, worth, TokenUnit) <= MulDiv(a, price, TokenUnit * FeedScale)
  BY <1>2, <1>3, WorthRoundsDown
<1>5. ValueOf(c, t, TokenUnit) = worth /\ ValueOf(c, t, a) = MulDiv(a, price, TokenUnit * FeedScale)
  BY <1>1, <1>3 DEF ValueOf
<1>6. PICK x \in Nat : x = MulDiv(a, worth, TokenUnit)
  BY <1>4
<1>7. PICK y \in Nat : y = MulDiv(a, price, TokenUnit * FeedScale) /\ x <= y
  BY <1>4, <1>6
<1>8. MulDiv(x, ratio, WAD) \in Nat /\ MulDiv(y, ratio, WAD) \in Nat /\ MulDiv(x, ratio, WAD) <= MulDiv(y, ratio, WAD)
  <2>1. ratio <= ratio
    OBVIOUS
  <2>2. MulDiv(x, ratio, WAD) \in Nat /\ MulDiv(y, ratio, WAD) \in Nat
    BY <1>2, MulDivIsNat
  <2> QED BY <1>2, <1>7, <2>1, <2>2, MulDivGrows
<1> QED
  BY <1>5, <1>6, <1>7, <1>8

\* Taking out what the room is worth costs the line the room, and one for the rounding.
LEMMA WithdrawalRounds ==
  ASSUME NEW held \in Nat, NEW a \in Nat, a <= held, NEW worth \in Nat, NEW unit \in Nat, unit > 0,
         NEW ratio \in Nat, ratio > 0, NEW wad \in Nat, ratio < wad, NEW room \in Nat,
         a * (worth * ratio) <= (room * wad) * unit
  PROVE  MulDiv(MulDiv(held, worth, unit), ratio, wad) <= MulDiv(MulDiv(held - a, worth, unit), ratio, wad) + room + 1
<1>1. held - a \in Nat /\ wad > 0
  OBVIOUS
<1>2. PICK v \in Nat : v = MulDiv(held, worth, unit) /\ v * unit <= held * worth
  BY ScaledDown
<1>3. PICK w \in Nat : w = MulDiv(held - a, worth, unit) /\ (held - a) * worth <= w * unit + unit
  BY <1>1, ScaledDown
<1>4. PICK g \in Nat : g = MulDiv(v, ratio, wad) /\ g * wad <= v * ratio
  BY <1>1, ScaledDown
<1>5. PICK h \in Nat : h = MulDiv(w, ratio, wad) /\ w * ratio < (h + 1) * wad
  <2>1. w * ratio \in Nat
    BY MulIsNat
  <2> QED BY <1>1, <2>1, DivBounds DEF MulDiv
\* By contradiction: v * unit exceeds what a and the rest are worth.
<1>6. SUFFICES ASSUME g >= h + room + 2 PROVE FALSE
  BY <1>2, <1>3, <1>4, <1>5
<1>7. (h + room + 2) * wad <= v * ratio
  <2>1. wad * (h + room + 2) <= wad * g
    BY <1>6, MulMonotone
  <2>2. wad * (h + room + 2) = (h + room + 2) * wad /\ wad * g = g * wad
    OBVIOUS
  <2>3. g * wad \in Nat /\ v * ratio \in Nat /\ (h + room + 2) * wad \in Nat
    BY MulIsNat
  <2> QED BY <1>4, <2>1, <2>2, <2>3
<1>8. w * ratio + room * wad + ratio < v * ratio
  <2>1. (h + room + 2) * wad = (h + 1) * wad + room * wad + wad
    OBVIOUS
  <2>2. w * ratio \in Nat /\ v * ratio \in Nat /\ room * wad \in Nat /\ (h + 1) * wad \in Nat /\ (h + room + 2) * wad \in Nat
    BY MulIsNat
  <2> QED BY <1>5, <1>7, <2>1, <2>2
<1>9. v > w + 1
  <2>1. (w + 1) * ratio = w * ratio + ratio /\ w * ratio \in Nat /\ room * wad \in Nat /\ v * ratio \in Nat
        /\ (w + 1) * ratio \in Nat
    BY MulIsNat
  <2>2. (w + 1) * ratio < v * ratio
    BY <1>8, <2>1
  <2> QED BY <2>2, LessCancels
<1>10. PICK n \in Nat : n = v - w - 1 /\ n > 0
  BY <1>9
<1>11. room * wad < n * ratio
  <2>1. v * ratio = n * ratio + w * ratio + ratio
    BY <1>10
  <2>2. w * ratio \in Nat /\ v * ratio \in Nat /\ room * wad \in Nat /\ n * ratio \in Nat
    BY MulIsNat
  <2> QED BY <1>8, <2>1, <2>2
<1>12. n * unit <= a * worth
  <2>1. held * worth = (held - a) * worth + a * worth
    <3>1. PICK rest \in Nat : rest = held - a
      BY <1>1
    <3>2. held = rest + a
      BY <3>1
    <3> QED BY <3>1, <3>2
  <2>2. v * unit = n * unit + w * unit + unit
    BY <1>10
  <2>3. /\ held * worth \in Nat /\ (held - a) * worth \in Nat /\ a * worth \in Nat
        /\ v * unit \in Nat /\ n * unit \in Nat /\ w * unit \in Nat
    BY <1>1, MulIsNat
  <2> QED BY <1>2, <1>3, <2>1, <2>2, <2>3
<1>13. (n * unit) * ratio <= (a * worth) * ratio
  <2>1. n * unit \in Nat /\ a * worth \in Nat
    BY MulIsNat
  <2>2. ratio * (n * unit) <= ratio * (a * worth)
    BY <1>12, <2>1, MulMonotone
  <2>3. ratio * (n * unit) = (n * unit) * ratio /\ ratio * (a * worth) = (a * worth) * ratio
    BY <2>1
  <2> QED BY <2>2, <2>3
<1>14. (n * unit) * ratio = (n * ratio) * unit /\ (a * worth) * ratio = a * (worth * ratio)
  OBVIOUS
<1>15. /\ (n * ratio) * unit <= (room * wad) * unit
       /\ (n * ratio) \in Nat /\ (room * wad) \in Nat
  <2>1. n * ratio \in Nat /\ room * wad \in Nat /\ worth * ratio \in Nat
    BY MulIsNat
  <2>2. (n * ratio) * unit \in Nat /\ (room * wad) * unit \in Nat /\ a * (worth * ratio) \in Nat
    BY <2>1, MulIsNat
  <2> QED BY <1>13, <1>14, <2>1, <2>2
<1>16. unit * (room * wad + 1) <= unit * (n * ratio)
  BY <1>11, <1>15, MulMonotone
<1>17. unit * (room * wad + 1) = (room * wad) * unit + unit /\ unit * (n * ratio) = (n * ratio) * unit
  BY <1>15
<1>18. (n * ratio) * unit \in Nat /\ (room * wad) * unit \in Nat
  BY <1>15, MulIsNat
<1> QED
  BY <1>15, <1>16, <1>17, <1>18

\* What a stock account may take out by the page leaves the line one short at most.
LEMMA StockExitStands ==
  ASSUME page = "stocks", ChainOK(chain), NEW t \in Tokens, NEW a \in Typed(StockMaxWithdraw(StockLoan(chain), t))
  PROVE  /\ a \in Nat \ {0} /\ a <= chain.stock["bo"][t]
         /\ LienOf(chain, "bo") > 0 => LienOf(chain, "bo") <= StockLine(Without(chain, t, a), "bo", MaxLTV) + 1
<1> DEFINE l == StockLoan(chain)
           most == StockMaxWithdraw(l, t)
           left == Without(chain, t, a)
           f == [x \in Held(chain, "bo") |-> MulDiv(ValueOfAmount(l, x, l.deposited[x]), MaxLTV, WAD)]
           g == [x \in Held(chain, "bo") |-> MulDiv(ValueOf(left, x, left.stock["bo"][x]), MaxLTV, WAD)]
           h == [x \in Held(left, "bo") |-> MulDiv(ValueOf(left, x, left.stock["bo"][x]), MaxLTV, WAD)]
<1>1. Me = "bo" /\ "bo" \in Users /\ "loan" \in Parts
  BY UsersAreTwo DEF Me, Parts
<1>2. /\ l.deposited = chain.stock["bo"] /\ l.worth = [x \in Tokens |-> ValueOf(chain, x, TokenUnit)]
      /\ l.debt = LienOf(chain, "bo")
  BY <1>1 DEF StockLoan
<1>3. ReadOK("loan", l)
  <2>1. Reading("loan", chain).is = l
    BY DEF Reading
  <2> HIDE DEF l
  <2> QED BY <1>1, <2>1, ReadingOK
<1>4. PICK room \in Int : room = Summarise(l, MaxLTV) - l.debt
  <2>1. Summarise(l, MaxLTV) \in Nat /\ l.debt \in Nat
    <3> HIDE DEF l
    <3> QED BY <1>3, LimitsAreInt, RatesAreShares DEF ReadOK
  <2> QED BY <2>1
<1>5. PICK stock \in Nat : stock = chain.stock["bo"][t]
  BY MyNumbers
<1>6. PICK worth \in Nat : worth = ValueOf(chain, t, TokenUnit)
  BY <1>1, ValuesAreNat, TokensAreListed
<1>7. /\ WAD \in Nat /\ WAD > 0 /\ TokenUnit \in Nat /\ TokenUnit > 0 /\ MaxLTV \in Nat /\ MaxLTV > 0
      /\ MaxLTV < WAD
  <2>1. LiquidationThreshold \in Nat /\ MaxLTV < LiquidationThreshold /\ LiquidationThreshold < WAD
    BY RatesAreShares, RiskIsValid
  <2> QED BY <2>1, ScalesAreUnits, TokensAreListed, RatesAreShares, RiskIsValid
<1> DEFINE by == (room * WAD * TokenUnit) \div (worth * MaxLTV)
<1>8. most = IF l.debt = 0 THEN stock ELSE IF worth = 0 \/ room <= 0 THEN 0 ELSE Lower(stock, by)
  BY <1>2, <1>4, <1>5, <1>6 DEF StockMaxWithdraw
<1>9. most \in Int
  <2> HIDE DEF l
  <2> QED BY <1>3, LimitsAreInt
<1> HIDE DEF most
<1>10. a \in Nat \ {0} /\ a <= most
  BY <1>9, TypedIsPositive DEF most
<1>11. l.debt # 0 => worth > 0 /\ room > 0 /\ a <= by /\ by \in Nat
  <2> SUFFICES ASSUME l.debt # 0 PROVE worth > 0 /\ room > 0 /\ a <= by /\ by \in Nat
    OBVIOUS
  <2> HIDE DEF l
  <2>1. worth > 0 /\ room > 0
    BY <1>6, <1>4, <1>8, <1>10
  <2>2. by \in Nat
    <3>1. room * WAD * TokenUnit \in Nat
      <4>1. room * WAD \in Nat
        BY <1>4, <1>7, <2>1
      <4> QED BY <1>7, <4>1
    <3>2. worth * MaxLTV \in Nat /\ worth * MaxLTV > 0
      BY <1>7, <2>1
    <3> QED BY <3>1, <3>2, FloorIsNat
  <2> HIDE DEF by
  <2>3. most = Lower(stock, by)
    BY <1>8, <2>1
  <2> QED BY <1>10, <2>1, <2>2, <2>3, LowerIsEither
<1>12. a <= stock
  <2> HIDE DEF l
  <2>1. CASE l.debt = 0
    BY <1>8, <1>10, <2>1
  <2>2. CASE l.debt # 0
    <3> HIDE DEF by
    <3>1. most = Lower(stock, by)
      BY <1>4, <1>8, <1>11, <2>2
    <3>2. Lower(stock, by) <= stock
      BY <1>11, <2>2, LowerIsEither
    <3> QED BY <1>9, <1>10, <3>1, <3>2
  <2> QED BY <2>1, <2>2
<1>13. SUFFICES ASSUME l.debt # 0 PROVE l.debt <= StockLine(left, "bo", MaxLTV) + 1
  <2>1. LienOf(chain, "bo") > 0 => l.debt # 0
    BY <1>2
  <2> QED BY <1>2, <1>5, <1>10, <1>12, <2>1
<1>14. room \in Nat /\ a * (worth * MaxLTV) <= (room * WAD) * TokenUnit
  <2>1. room \in Nat /\ worth * MaxLTV \in Nat /\ worth * MaxLTV > 0
    BY <1>4, <1>7, <1>11, <1>13
  <2>2. PICK m \in Nat : m = (room * WAD) * TokenUnit
    <3>1. room * WAD \in Nat
      BY <1>7, <2>1, MulIsNat
    <3> QED BY <1>7, <3>1, MulIsNat
  <2>3. PICK k \in Nat : k = worth * MaxLTV /\ k > 0
    BY <2>1
  <2>4. by = m \div k /\ a <= m \div k /\ m \div k \in Nat
    BY <1>11, <1>13, <2>2, <2>3
  <2>5. (m \div k) * k <= m
    BY <2>3, DivBounds
  <2>6. k * a <= k * (m \div k)
    BY <1>10, <2>3, <2>4, MulMonotone
  <2>7. k * a = a * k /\ k * (m \div k) = (m \div k) * k
    BY <1>10, <2>4
  <2>8. a * k \in Nat /\ (m \div k) * k \in Nat
    BY <1>10, <2>4, MulIsNat
  <2>9. a * k <= m
    BY <2>5, <2>6, <2>7, <2>8
  <2> QED BY <2>1, <2>2, <2>3, <2>9
<1>15. /\ left.feed = chain.feed /\ left.stock["bo"][t] = stock - a
       /\ \A x \in Tokens : x # t => left.stock["bo"][x] = chain.stock["bo"][x]
  BY <1>1, <1>5 DEF Without, ChainOK, ChainType, StockType
<1>16. \A x, n : ValueOf(left, x, n) = ValueOf(chain, x, n)
  BY <1>15 DEF ValueOf
<1>17. IsFiniteSet(Held(chain, "bo")) /\ Held(chain, "bo") \subseteq Tokens /\ t \in Held(chain, "bo")
  <2>1. t \in Held(chain, "bo")
    BY <1>5, <1>10, <1>12 DEF Held
  <2> QED BY <2>1, TokensAreListed, FS_Subset DEF Held
<1> HIDE DEF left
<1>18. Summarise(l, MaxLTV) = SumFunctionOnSet(f, Held(chain, "bo"))
  BY <1>2 DEF Summarise, Held, SumFunction
<1>19. StockLine(left, "bo", MaxLTV) = SumFunctionOnSet(h, Held(left, "bo"))
  BY DEF StockLine, SumFunction
<1>20. /\ f[t] = MulDiv(MulDiv(stock, worth, TokenUnit), MaxLTV, WAD)
       /\ g[t] = MulDiv(ValueOf(chain, t, stock - a), MaxLTV, WAD)
  BY <1>2, <1>5, <1>6, <1>15, <1>16, <1>17 DEF ValueOfAmount
<1>21. \A x \in Held(chain, "bo") : x # t =>
         /\ f[x] = MulDiv(MulDiv(chain.stock["bo"][x], ValueOf(chain, x, TokenUnit), TokenUnit), MaxLTV, WAD)
         /\ g[x] = MulDiv(ValueOf(chain, x, chain.stock["bo"][x]), MaxLTV, WAD)
  BY <1>2, <1>15, <1>16, <1>17 DEF ValueOfAmount
<1>22. \A x \in Held(left, "bo") : h[x] = g[x] /\ x \in Held(chain, "bo")
  <2> SUFFICES ASSUME NEW x \in Held(left, "bo") PROVE h[x] = g[x] /\ x \in Held(chain, "bo")
    OBVIOUS
  <2>1. x \in Held(chain, "bo")
    BY <1>15, <1>17 DEF Held
  <2> QED BY <2>1
<1>23. Held(chain, "bo") \ {t} \subseteq Held(left, "bo")
  BY <1>15, <1>17 DEF Held
<1>24. t \notin Held(left, "bo") => stock - a = 0
  BY <1>5, <1>12, <1>10, <1>15 DEF Held
<1> HIDE DEF f, g, h
\* Each token's part, as a number.
<1>25. f[t] \in Nat /\ g[t] \in Nat /\ f[t] <= g[t] + room + 1
  <2>1. PICK rest \in Nat : rest = stock - a
    BY <1>10, <1>12
  <2>2. PICK low \in Nat : low = MulDiv(MulDiv(rest, worth, TokenUnit), MaxLTV, WAD) /\ g[t] \in Nat /\ low <= g[t]
    BY <1>6, <1>7, <1>20, <2>1, TokenLineIsLow
  <2>3. f[t] \in Nat
    BY <1>5, <1>6, <1>7, <1>20, TokenLineIsLow
  <2>4. f[t] <= low + room + 1
    <3>1. PICK x \in Nat : x = a
      BY <1>10
    <3>2. /\ x <= stock /\ x * (worth * MaxLTV) <= (room * WAD) * TokenUnit
          /\ TokenUnit \in Nat /\ TokenUnit > 0 /\ WAD \in Nat /\ MaxLTV \in Nat /\ MaxLTV > 0
          /\ MaxLTV < WAD /\ room \in Nat
      BY <1>7, <1>12, <1>14, <3>1
    <3>3. MulDiv(MulDiv(stock, worth, TokenUnit), MaxLTV, WAD)
            <= MulDiv(MulDiv(stock - x, worth, TokenUnit), MaxLTV, WAD) + room + 1
      BY <3>2, WithdrawalRounds
    <3> QED BY <1>20, <2>1, <2>2, <3>1, <3>3
  <2> QED BY <1>14, <2>2, <2>3, <2>4
<1>26. \A x \in Held(chain, "bo") : f[x] \in Nat /\ g[x] \in Nat /\ (x # t => f[x] <= g[x])
  <2> SUFFICES ASSUME NEW x \in Held(chain, "bo"), x # t PROVE f[x] \in Nat /\ g[x] \in Nat /\ f[x] <= g[x]
    BY <1>25
  <2>1. x \in Tokens /\ chain.stock["bo"][x] \in Nat
    BY <1>17, MyNumbers
  <2> QED BY <1>7, <1>21, <2>1, TokenLineIsLow
<1> DEFINE others == Held(chain, "bo") \ {t}
<1>27. /\ SumFunctionOnSet(f, Held(chain, "bo")) = f[t] + SumFunctionOnSet(f, others)
       /\ SumFunctionOnSet(g, Held(chain, "bo")) = g[t] + SumFunctionOnSet(g, others)
  <2>1. IntOn(f, Held(chain, "bo")) /\ IntOn(g, Held(chain, "bo"))
    BY <1>26 DEF IntOn
  <2> QED BY <1>17, <2>1, SumRemoves
<1>28. /\ SumFunctionOnSet(f, others) \in Nat /\ SumFunctionOnSet(g, others) \in Nat
       /\ SumFunctionOnSet(f, others) <= SumFunctionOnSet(g, others)
  <2>1. IsFiniteSet(others) /\ \A x \in others : f[x] \in Nat /\ g[x] \in Nat /\ f[x] <= g[x]
    BY <1>17, <1>26, FS_RemoveElement
  <2> HIDE DEF others
  <2> QED BY <2>1, SumGrows, SumIsNat
<1>29. SumFunctionOnSet(h, Held(left, "bo")) = SumFunctionOnSet(g, Held(chain, "bo"))
  <2>1. IsFiniteSet(Held(left, "bo"))
    BY <1>17, <1>22, FS_Subset
  <2>2. SumFunctionOnSet(h, Held(left, "bo")) = SumFunctionOnSet(g, Held(left, "bo"))
    BY <1>22, <2>1, SumSame
  <2>3. CASE t \in Held(left, "bo")
    <3>1. Held(left, "bo") = Held(chain, "bo")
      BY <1>17, <1>22, <1>23, <2>3
    <3> QED BY <2>2, <3>1
  <2>4. CASE t \notin Held(left, "bo")
    <3>1. Held(left, "bo") = others
      BY <1>22, <1>23, <2>4
    <3>2. g[t] = 0
      <4>1. ValueOf(chain, t, 0) = 0
        <5>1. chain.feed[t].price \in Nat /\ TokenUnit * FeedScale \in Nat /\ TokenUnit * FeedScale > 0
          BY TokensAreListed DEF ChainOK, ChainType
        <5> QED BY <5>1, MulDivOfNothing DEF ValueOf
      <4>2. stock - a = 0
        BY <1>24, <2>4
      <4> QED BY <1>7, <1>20, <4>1, <4>2, MulDivOfNothing
    <3> QED BY <1>27, <1>28, <2>2, <3>1, <3>2
  <2> QED BY <2>3, <2>4
<1>30. l.debt \in Nat
  <2> HIDE DEF l
  <2> QED BY <1>3 DEF ReadOK
<1> HIDE DEF l, others
<1>31. l.debt <= SumFunctionOnSet(g, Held(chain, "bo")) + 1
  BY <1>4, <1>14, <1>18, <1>25, <1>27, <1>28, <1>30
<1> QED
  BY <1>19, <1>29, <1>31

\* The largest borrowing the page offers fits, fee and all.
LEMMA MaxBorrowFits ==
  ASSUME NEW limit \in Nat, NEW debt \in Nat, NEW a \in Nat \ {0}, a <= MaxBorrow(limit, debt)
  PROVE  debt + a + FeeOn(a) <= limit
<1>1. PICK room \in Int : room = limit - debt
  OBVIOUS
<1>2. /\ WAD \in Nat /\ WAD > 0 /\ OriginationFee \in Nat
      /\ WAD + OriginationFee \in Nat /\ WAD + OriginationFee > 0
  BY ScalesAreUnits, RatesAreShares
<1>3. room > 0
  BY <1>1 DEF MaxBorrow
<1>4. PICK x \in Nat : x = MulDiv(room, WAD, WAD + OriginationFee) /\ x * (WAD + OriginationFee) <= room * WAD
  <2>1. room \in Nat
    BY <1>3
  <2> QED BY <1>2, <2>1, ScaledDown
<1>5. MaxBorrow(limit, debt) = IF x + OriginationFeeOn(x) > room THEN x - 1 ELSE x
  BY <1>1, <1>3, <1>4 DEF MaxBorrow
<1>6. FeeOn(x) = OriginationFeeOn(x) /\ FeeOn(x) \in Nat /\ FeeOn(a) \in Nat
  BY FeeIsNat DEF FeeOn, OriginationFeeOn
<1>7. CASE x + FeeOn(x) <= room
  <2>1. a <= x
    BY <1>1, <1>5, <1>6, <1>7
  <2>2. FeeOn(a) <= FeeOn(x)
    <3>1. OriginationFee * a <= OriginationFee * x
      BY <1>2, <2>1, MulMonotone
    <3>2. OriginationFee * a = a * OriginationFee /\ OriginationFee * x = x * OriginationFee
      BY <1>2
    <3>3. a * OriginationFee \in Nat /\ x * OriginationFee \in Nat
      BY <1>2, MulIsNat
    <3>4. /\ a * OriginationFee + WAD - 1 \in Nat /\ x * OriginationFee + WAD - 1 \in Nat
          /\ a * OriginationFee + WAD - 1 <= x * OriginationFee + WAD - 1
      BY <1>2, <3>1, <3>2, <3>3
    <3> QED BY <1>2, <3>4, FloorGrows DEF FeeOn, MulDivUp
  <2> QED BY <1>1, <1>6, <1>7, <2>1, <2>2
<1>8. CASE x + FeeOn(x) > room
  <2>1. a + 1 <= x
    BY <1>5, <1>6, <1>8
  <2>2. FeeOn(a) * WAD <= a * OriginationFee + WAD
    BY <1>2, ScaledUp DEF FeeOn
  <2>3. (a + FeeOn(a)) * WAD < (room + 1) * WAD
    <3>1. PICK fee \in Nat : fee = FeeOn(a)
      BY <1>6
    <3>2. (a + fee) * WAD = a * WAD + fee * WAD /\ (room + 1) * WAD = room * WAD + WAD
      BY <1>2
    <3>3. WAD * (a + 1) <= WAD * x /\ OriginationFee * a <= OriginationFee * x
      BY <1>2, <2>1, MulMonotone
    <3>4. /\ WAD * (a + 1) = a * WAD + WAD /\ WAD * x = x * WAD
          /\ OriginationFee * a = a * OriginationFee /\ OriginationFee * x = x * OriginationFee
          /\ x * (WAD + OriginationFee) = x * WAD + x * OriginationFee
      BY <1>2
    <3>5. /\ a * WAD \in Nat /\ fee * WAD \in Nat /\ x * WAD \in Nat /\ a * OriginationFee \in Nat
          /\ x * OriginationFee \in Nat /\ room * WAD \in Int
      BY <1>2, MulIsNat
    <3> QED BY <1>2, <1>4, <2>2, <3>1, <3>2, <3>3, <3>4, <3>5
  <2>4. a + FeeOn(a) < room + 1
    <3>1. a + FeeOn(a) \in Nat /\ room + 1 \in Nat
      BY <1>3, <1>6
    <3> QED BY <1>2, <2>3, <3>1, LessCancels
  <2> QED BY <1>1, <1>6, <2>4
<1> QED
  BY <1>6, <1>7, <1>8

\* No price of what is held is stale by the page's clock.
LEMMA FreshPrices ==
  ASSUME page = "stocks", ChainOK(chain), StalePrices(StockLoan(chain), chain.now) = {}
  PROVE  \A t \in Held(chain, "bo") : chain.now - chain.feed[t].at <= MaxAge
<1> SUFFICES ASSUME NEW t \in Held(chain, "bo") PROVE chain.now - chain.feed[t].at <= MaxAge
  OBVIOUS
<1>1. PICK l : l = StockLoan(chain)
  OBVIOUS
<1>2. l.deposited = chain.stock["bo"] /\ l.updatedAt = [x \in Tokens |-> chain.feed[x].at]
  BY <1>1 DEF StockLoan, Me
<1>3. t \in Tokens /\ l.deposited[t] > 0
  BY <1>2 DEF Held
<1>4. ~(chain.now - l.updatedAt[t] > MaxAge)
  BY <1>1, <1>3 DEF StalePrices
<1>5. chain.now \in Nat /\ chain.feed[t].at \in Nat /\ MaxAge \in Nat /\ l.updatedAt[t] = chain.feed[t].at
  BY <1>2, <1>3, AgesAreOrdered DEF ChainOK, ChainType
<1> QED
  BY <1>4, <1>5

LEMMA CollateralStands ==
  ASSUME page = "stocks", ChainOK(chain), Stands, NEW j \in CollateralPanel
  PROVE  JobStands(chain, j, chain.now) /\ Covered(chain, j)
<1> DEFINE l == StockLoan(chain)
           In(t) == {[Job("depositStock", a, Short(l.approved[t], a), 0) EXCEPT !.of = t] : a \in Typed(l.held[t])}
           Out(t) == {[Job("withdrawStock", a, 0, 0) EXCEPT !.of = t] :
                        a \in {x \in Typed(StockMaxWithdraw(l, t)) : l.debt > 0 => StalePrices(l, chain.now) = {}}}
<1>1. "loan" \in Reads(page)
  BY DEF Reads, StockPages
<1>2. Seen("loan") = l
  BY <1>1, StandingReads
<1>3. j \in UNION {In(t) \cup Out(t) : t \in Tokens}
  BY <1>2 DEF CollateralPanel
<1>4. \A t \in Tokens : l.held[t] = chain.stockWallet[Me][t] /\ l.approved[t] = chain.allowed[Me][t]
  BY DEF StockLoan
<1> HIDE DEF l
<1>5. ASSUME NEW t \in Tokens, NEW a \in Typed(l.held[t]),
             j = [Job("depositStock", a, Short(l.approved[t], a), 0) EXCEPT !.of = t]
      PROVE  JobStands(chain, j, chain.now) /\ Covered(chain, j)
  <2>1. chain.stockWallet[Me][t] \in Nat /\ chain.allowed[Me][t] \in Nat
    BY MyNumbers
  <2>2. a \in Nat \ {0} /\ a <= chain.stockWallet[Me][t]
    BY <1>4, <2>1, TypedIsPositive
  <2>3. /\ j.call = "depositStock" /\ j.amount = a /\ j.of = t /\ ~j.all
        /\ j.approve = Short(l.approved[t], a)
    BY <1>5, JobFields
  <2>4. JobStands(chain, j, chain.now)
    BY <2>2, <2>3 DEF JobStands
  <2>5. ApprovedTo(j) = t
    BY <2>3, TokensAreNamed DEF ApprovedTo
  <2> QED BY <1>4, <2>1, <2>2, <2>3, <2>4, <2>5, ShortCovers
<1>6. ASSUME NEW t \in Tokens, NEW a \in Typed(StockMaxWithdraw(l, t)), j = [Job("withdrawStock", a, 0, 0) EXCEPT !.of = t],
             l.debt > 0 => StalePrices(l, chain.now) = {}
      PROVE  JobStands(chain, j, chain.now) /\ Covered(chain, j)
  <2>1. j.call = "withdrawStock" /\ j.amount = a /\ j.of = t /\ ~j.all
    BY <1>6, JobFields
  <2>2. /\ a <= chain.stock["bo"][t]
        /\ LienOf(chain, "bo") > 0 => LienOf(chain, "bo") <= StockLine(Without(chain, t, a), "bo", MaxLTV) + 1
    BY <1>6, StockExitStands DEF l
  <2>3. l.debt = LienOf(chain, "bo")
    BY DEF l, StockLoan, Me
  <2>4. LienOf(chain, "bo") > 0 => \A x \in Held(chain, "bo") : chain.now - chain.feed[x].at <= MaxAge
    BY <1>6, <2>3, FreshPrices DEF l
  <2>5. JobStands(chain, j, chain.now)
    BY <2>1, <2>2, <2>4 DEF JobStands
  <2> QED BY <2>1, <2>5 DEF Covered, Approves
<1>7. \A t \in Tokens : j \in In(t) \cup Out(t) => JobStands(chain, j, chain.now) /\ Covered(chain, j)
  BY <1>5, <1>6
<1> HIDE DEF In, Out
<1> QED
  BY <1>3, <1>7

LEMMA LoanStands ==
  ASSUME page = "stocks", ChainOK(chain), Stands, NEW j \in LoanPanel
  PROVE  JobStands(chain, j, chain.now) /\ Covered(chain, j)
<1>1. PICK l : l = StockLoan(chain)
  OBVIOUS
<1>2. "loan" \in Reads(page) /\ Me = "bo" /\ "loan" \in Parts
  BY DEF Reads, StockPages, Me, Parts
<1>3. Seen("loan") = l
  BY <1>1, <1>2, StandingReads
<1>4. PICK line : line = Summarise(l, LiquidationThreshold)
  OBVIOUS
<1>5. PICK most : most = Lower(MaxBorrow(Summarise(l, MaxLTV), l.debt + AccrualMargin(l.debt)), l.liquidity)
  OBVIOUS
<1>6. /\ l.debt = LienOf(chain, "bo") /\ l.liquidity = chain.pool.cash /\ l.wallet = chain.wallet[Me]
      /\ l.allowance = chain.allowed[Me][Spender] /\ l.deposited = chain.stock["bo"]
      /\ l.updatedAt = [t \in Tokens |-> chain.feed[t].at]
  BY <1>1, <1>2 DEF StockLoan
<1>7. l.debt \in Nat /\ l.liquidity \in Nat
  BY <1>6, MyNumbers
<1>8. ASSUME NEW a \in Typed(most), NEW shows, StalePrices(l, chain.now) = {}, j = Job("borrowStock", a, 0, shows)
      PROVE  JobStands(chain, j, chain.now) /\ Covered(chain, j)
  <2>1. PICK limit \in Nat : limit = Summarise(l, MaxLTV) /\ limit <= StockLine(chain, "bo", MaxLTV)
    BY <1>1, LineShownIsLow, RatesAreShares
  <2>2. PICK debt \in Nat : debt = l.debt + AccrualMargin(l.debt)
    BY <1>7, MarginIsNat
  <2>3. MaxBorrow(limit, debt) \in Int
    <3>1. ReadOK("loan", l)
      <4>1. Reading("loan", chain).is = l
        BY <1>1 DEF Reading
      <4> QED BY <1>2, <4>1, ReadingOK
    <3> QED BY <3>1, LimitsAreInt
  <2>4. most \in Int /\ most <= MaxBorrow(limit, debt)
    BY <1>5, <1>7, <2>1, <2>2, <2>3, LowerIsEither
  <2>5. a \in Nat \ {0} /\ a <= MaxBorrow(limit, debt)
    BY <2>3, <2>4, TypedIsPositive
  <2>6. debt + a + FeeOn(a) <= limit
    BY <2>5, MaxBorrowFits
  <2>7. FeeOn(a) \in Nat /\ StockLine(chain, "bo", MaxLTV) \in Nat
    BY <2>5, FeeIsNat, LineShownIsLow, RatesAreShares
  <2>8. l.debt + AccrualMargin(l.debt) + a + FeeOn(a) <= StockLine(chain, "bo", MaxLTV)
    BY <2>1, <2>2, <2>5, <2>6, <2>7
  <2>9. \A t \in Held(chain, "bo") : chain.now - chain.feed[t].at <= MaxAge
    BY <1>1, <1>8, FreshPrices
  <2>10. j.call = "borrowStock" /\ j.amount = a /\ ~j.all
    BY <1>8, JobFields
  <2>11. JobStands(chain, j, chain.now)
    BY <1>6, <2>8, <2>9, <2>10 DEF JobStands
  <2> QED BY <2>10, <2>11 DEF Covered, Approves
<1>9. ASSUME NEW a \in Typed(l.debt), NEW shows, a <= l.wallet, j = RepayJob(a, l.debt, l.wallet, l.allowance, shows)
      PROVE  JobStands(chain, j, chain.now) /\ Covered(chain, j)
  <2>1. a \in Nat \ {0} /\ a <= l.debt
    BY <1>7, TypedIsPositive
  <2> QED BY <1>6, <1>9, <2>1, RepayStands
<1>10. \/ \E a \in Typed(most) : /\ StalePrices(l, chain.now) = {}
                                 /\ j = Job("borrowStock", a, 0, HealthAfter(line, l.debt + a + OriginationFeeOn(a)))
       \/ \E a \in Typed(l.debt) : /\ a <= l.wallet
                                   /\ j = RepayJob(a, l.debt, l.wallet, l.allowance, HealthAfter(line, l.debt - a))
  BY <1>3, <1>4, <1>5 DEF LoanPanel
<1> QED
  BY <1>8, <1>9, <1>10

\* Whatever a form lets through, of what stands, stands.
LEMMA OffersStand ==
  ASSUME page \in Pages, ChainOK(chain), Stands, NEW form \in Forms(page), NEW j \in Offers(form)
  PROVE  JobStands(chain, j, chain.now) /\ Covered(chain, j)
<1>1. \/ form = "faucet"
      \/ page = "stake" /\ form = "stakeForm"
      \/ page = "borrow" /\ form = "borrowForm"
      \/ page = "lend" /\ form = "lendForm"
      \/ page = "liquidate" /\ form = "row"
      \/ page = "stocks" /\ form = "collateral"
      \/ page = "stocks" /\ form = "loan"
      \/ page = "stockLend" /\ form = "lendPanel"
  <2>1. page \in {"stake", "borrow", "portfolio", "lend", "liquidate", "stocks", "stockLend"}
    BY PagesAreTheApps
  <2> QED BY <2>1 DEF Forms
<1>2. CASE form = "faucet"
  BY <1>2, FaucetStands DEF Offers
<1>3. CASE page = "stake" /\ form = "stakeForm"
  BY <1>3, StakeStands DEF Offers
<1>4. CASE page = "borrow" /\ form = "borrowForm"
  BY <1>4, BorrowStands DEF Offers
<1>5. CASE page = "lend" /\ form = "lendForm"
  BY <1>5, LendStands DEF Offers
<1>6. CASE page = "liquidate" /\ form = "row"
  BY <1>6, LiquidateStands DEF Offers
<1>7. CASE page = "stocks" /\ form = "collateral"
  BY <1>7, CollateralStands DEF Offers
<1>8. CASE page = "stocks" /\ form = "loan"
  BY <1>8, LoanStands DEF Offers
<1>9. CASE page = "stockLend" /\ form = "lendPanel"
  BY <1>9, StockLendStands DEF Offers
<1> QED
  BY <1>1, <1>2, <1>3, <1>4, <1>5, <1>6, <1>7, <1>8, <1>9

-----------------------------------------------------------------------------
(* What stands, and is not excused, the contracts accept. *)

LEMMA LineIsNat ==
  ASSUME NEW c, ChainOK(c), NEW u \in Users, NEW ratio \in Nat
  PROVE  StockLine(c, u, ratio) \in Nat
<1> DEFINE line == [t \in Held(c, u) |-> MulDiv(ValueOf(c, t, c.stock[u][t]), ratio, WAD)]
<1>1. IsFiniteSet(Held(c, u)) /\ Held(c, u) \subseteq Tokens
  BY TokensAreListed, FS_Subset DEF Held
<1>2. ASSUME NEW t \in Held(c, u) PROVE line[t] \in Nat
  <2>1. c.stock[u][t] \in Nat
    BY <1>1 DEF ChainOK, ChainType, StockType
  <2> QED BY <1>1, <2>1, TokenLineIsLow
<1>3. DOMAIN line = Held(c, u) /\ StockLine(c, u, ratio) = SumFunction(line)
  BY DEF StockLine
<1> HIDE DEF line
<1> QED
  BY <1>1, <1>2, <1>3, SumIsNat DEF SumFunction

LEMMA WithoutKeepsChain ==
  ASSUME NEW c, ChainOK(c), NEW t \in Tokens, NEW a \in Nat, a <= c.stock["bo"][t]
  PROVE  /\ ChainOK(Without(c, t, a)) /\ Without(c, t, a).pool = c.pool
         /\ Without(c, t, a).now = c.now /\ Without(c, t, a).feed = c.feed
         /\ Held(Without(c, t, a), "bo") \subseteq Held(c, "bo")
<1> DEFINE d == Without(c, t, a)
           stock == [c.stock EXCEPT !["bo"][t] = c.stock["bo"][t] - a]
<1>1. "bo" \in Users /\ c.stock \in StockType
  BY UsersAreTwo DEF ChainOK, ChainType
<1>2. c.stock["bo"][t] - a \in Nat /\ \A x \in Tokens : c.stock["bo"][x] \in Nat
  BY <1>1 DEF StockType
<1>3. stock \in StockType
  BY <1>1, <1>2, HoldingSet
<1>4. \A x \in Tokens : stock["bo"][x] <= c.stock["bo"][x]
  BY <1>1, <1>2 DEF StockType
<1>5. d = [c EXCEPT !.stock = stock]
  BY DEF Without
<1> HIDE DEF stock, d
<1>6. d \in ChainType
  BY <1>3, <1>5 DEF ChainOK, ChainType
<1>7. /\ d.pool = c.pool /\ d.position = c.position /\ d.shares = c.shares /\ d.now = c.now
      /\ d.stock = stock /\ d.feed = c.feed
  BY <1>5 DEF ChainOK, ChainType
<1>8. ChainOK(d)
  BY <1>6, <1>7, OthersKeepChain
<1>9. Held(d, "bo") \subseteq Held(c, "bo")
  <2>1. \A x \in Tokens : stock["bo"][x] \in Nat
    BY <1>1, <1>3 DEF StockType
  <2> QED BY <1>2, <1>4, <1>7, <2>1 DEF Held
<1> QED
  BY <1>7, <1>8, <1>9 DEF d

\* Prices fresh when the button was pressed are fresh now, or the call is excused.
LEMMA PricesStayFresh ==
  ASSUME NEW c, ChainOK(c), NEW s, s.job.call \in {"withdrawStock", "borrowStock"}, s.at \in Nat, ~Excused(c, s),
         \A t \in Held(c, "bo") : s.at - c.feed[t].at <= MaxAge
  PROVE  AllPriced(c, "bo", MaxAge)
<1>1. ~(c.now > s.at /\ ~AllPriced(c, "bo", MaxAge)) /\ ~(\E t \in Held(c, "bo") : c.feed[t].price = 0)
  BY DEF Excused
<1>2. CASE c.now > s.at
  BY <1>1, <1>2
<1>3. CASE ~(c.now > s.at)
  <2>1. c.now \in Nat /\ c.now <= s.at /\ MaxAge \in Nat
    BY <1>3, AgesAreOrdered DEF ChainOK, ChainType
  <2>2. ASSUME NEW t \in Held(c, "bo") PROVE Priced(c, t, MaxAge)
    <3>1. t \in Tokens
      BY DEF Held
    <3>2. c.feed[t].price \in Nat /\ c.feed[t].at \in Nat
      BY <3>1 DEF ChainOK, ChainType
    <3>3. c.feed[t].price # 0 /\ s.at - c.feed[t].at <= MaxAge
      BY <1>1
    <3> QED BY <2>1, <3>2, <3>3 DEF Priced, PriceAge
  <2> QED BY <2>2 DEF AllPriced
<1> QED
  BY <1>2, <1>3

\* What is held and priced does not depend on the pool.
LEMMA AccruedPrices ==
  ASSUME NEW c, ChainOK(c), NEW ratio
  PROVE  /\ AllPriced(c, "bo", MaxAge) => AllPriced(Accrued(c), "bo", MaxAge)
         /\ StockLine(Accrued(c), "bo", ratio) = StockLine(c, "bo", ratio)
<1>1. Accrued(c).stock = c.stock /\ Accrued(c).feed = c.feed /\ Accrued(c).now = c.now
  BY AccruedKeepsChain
<1>2. /\ StockLine(Accrued(c), "bo", ratio) = StockLine(c, "bo", ratio)
      /\ Held(Accrued(c), "bo") = Held(c, "bo")
  BY <1>1, SameLine
<1> QED
  BY <1>1, <1>2 DEF AllPriced, Priced, PriceAge

LEMMA StockExitAccepted ==
  ASSUME NEW c, ChainOK(c), NEW s, JobOK(s.job), s.job.call = "withdrawStock", s.at \in Nat,
         JobStands(c, s.job, s.at), ~Excused(c, s)
  PROVE  Accepts(c, s.job)
<1>1. PICK t \in Tokens : t = s.job.of
  BY DEF JobOK
<1>2. PICK a \in Nat \ {0} : a = s.job.amount
  BY DEF JobOK
<1>3. PICK debt \in Nat : debt = LienOf(c, "bo")
  BY MyNumbers
<1>4. /\ page = "stocks" /\ a <= c.stock["bo"][t]
      /\ debt > 0 => /\ debt <= StockLine(Without(c, t, a), "bo", MaxLTV) + 1
                     /\ \A x \in Held(c, "bo") : s.at - c.feed[x].at <= MaxAge
  BY <1>1, <1>2, <1>3 DEF JobStands
<1>5. Me = "bo" /\ "bo" \in Users
  BY <1>4, UsersAreTwo DEF Me
<1> DEFINE d == Without(Accrued(c), t, a)
<1>6. /\ ChainOK(Accrued(c)) /\ Accrued(c).stock = c.stock /\ Accrued(c).feed = c.feed /\ Accrued(c).now = c.now
  BY AccruedKeepsChain
<1>7. PICK due \in Nat : due = LienOf(Accrued(c), "bo") /\ (debt = 0 => due = 0)
  BY <1>3, <1>5, LienGrows
<1>8. /\ ChainOK(d) /\ LienOf(d, "bo") = due /\ d.now = c.now /\ d.feed = c.feed
      /\ Held(d, "bo") \subseteq Held(c, "bo")
  <2>1. /\ ChainOK(d) /\ d.pool = Accrued(c).pool /\ d.now = Accrued(c).now /\ d.feed = Accrued(c).feed
        /\ Held(d, "bo") \subseteq Held(Accrued(c), "bo")
    BY <1>4, <1>6, WithoutKeepsChain
  <2>2. Held(Accrued(c), "bo") = Held(c, "bo")
    BY <1>6 DEF Held
  <2> HIDE DEF d
  <2> QED BY <1>6, <1>7, <2>1, <2>2 DEF LienOf
<1>9. PICK left \in Nat : left = StockLine(Without(c, t, a), "bo", MaxLTV)
  <2>1. ChainOK(Without(c, t, a))
    BY <1>4, WithoutKeepsChain
  <2>2. MaxLTV \in Nat
    BY RatesAreShares
  <2> QED BY <1>5, <2>1, <2>2, LineIsNat
<1>10. StockLine(d, "bo", MaxLTV) = left
  BY <1>6, <1>9, WithoutStock
<1> HIDE DEF d
<1>11. ASSUME due > 0 PROVE AllPriced(d, "bo", MaxAge) /\ due <= left
  <2>1. debt > 0
    BY <1>7, <1>11
  <2>2. ~(debt \in 1..left + 1 /\ due > left)
    BY <1>1, <1>2, <1>3, <1>7, <1>9 DEF Excused, Without
  <2>3. AllPriced(c, "bo", MaxAge)
    BY <1>4, <2>1, PricesStayFresh
  <2>4. AllPriced(d, "bo", MaxAge)
    BY <1>8, <2>3 DEF AllPriced, Priced, PriceAge
  <2> QED BY <1>4, <1>9, <2>1, <2>2, <2>4
<1>12. CanStockWithdraw(c, "bo", t, a)
  BY <1>2, <1>4, <1>8, <1>10, <1>11 DEF CanStockWithdraw, Without, d
<1> QED
  BY <1>1, <1>2, <1>5, <1>12 DEF Accepts

\* Interest beyond the margin apart, a borrowing that fitted fits.
LEMMA RoomRemains ==
  ASSUME NEW c, ChainOK(c), NEW s, s.job.call \in {"borrow", "borrowStock"}, ~Excused(c, s)
  PROVE  LienOf(Accrued(c), "bo") <= LienOf(c, "bo") + AccrualMargin(LienOf(c, "bo"))
<1>1. LienOf(c, "bo") \in Nat /\ LienOf(Accrued(c), "bo") \in Nat
  BY LienGrows, UsersAreTwo
<1>2. AccrualMargin(LienOf(c, "bo")) \in Nat
  BY <1>1, MarginIsNat
<1>3. ~(Pending(c) > AccrualMargin(LienOf(c, "bo")))
  BY DEF Excused
<1> QED
  BY <1>1, <1>2, <1>3 DEF Pending

\* No page reads the pool's pause: a call it would refuse is excused, and interest leaves it alone.
LEMMA EntriesAreOpen ==
  ASSUME NEW c, ChainOK(c), NEW s, s.job.call \in {"supply", "borrow", "borrowStock"}, ~Excused(c, s)
  PROVE  c.pool.entries = "open" /\ Accrued(c).pool.entries = "open"
<1>1. PoolOK(c.pool) /\ c.pool.accruedAt <= c.now /\ c.now \in Nat
  BY UsersAreTwo, ChainReads
<1>2. ~(c.pool.entries = "paused")
  BY DEF Excused
<1>3. c.pool.entries \in {"open", "paused"}
  BY <1>1 DEF PoolOK, PoolType
<1>4. Accrued(c).pool = Accrue(c.pool, c.now)
  BY AccruedKeepsChain
<1> QED
  BY <1>1, <1>2, <1>3, <1>4, AccrueKeepsBooks

LEMMA BorrowAccepted ==
  ASSUME NEW c, ChainOK(c), NEW s, JobOK(s.job), s.job.call = "borrow", JobStands(c, s.job, s.at), ~Excused(c, s)
  PROVE  Accepts(c, s.job)
<1>1. PICK a \in Nat \ {0} : a = s.job.amount
  BY DEF JobOK
<1>2. PICK debt \in Nat : debt = LienOf(c, "bo")
  BY MyNumbers
<1>3. page = "borrow" /\ debt + AccrualMargin(debt) + a <= MulDiv(c.shares["bo"], MaxLTV, WAD)
  BY <1>1, <1>2 DEF JobStands
<1>4. Me = "bo" /\ "bo" \in Users
  BY <1>3, UsersAreTwo DEF Me
<1>5. PICK due \in Nat : due = LienOf(Accrued(c), "bo") /\ due <= debt + AccrualMargin(debt)
  BY <1>2, <1>4, LienGrows, RoomRemains
<1>6. AccrualMargin(debt) \in Nat
  BY MarginIsNat
<1>7. PICK ceiling \in Nat : ceiling = MulDiv(c.shares["bo"], MaxLTV, WAD)
  <2>1. WAD \in Nat /\ WAD > 0 /\ MaxLTV \in Nat /\ c.shares["bo"] \in Nat
    BY ScalesAreUnits, RatesAreShares, MyNumbers
  <2> QED BY <2>1, MulDivIsNat
<1>8. c.pool.cash \in Nat /\ a <= c.pool.cash
  <2>1. ~(a > c.pool.cash)
    BY <1>1 DEF Excused
  <2> QED BY <2>1, MyNumbers
<1>9. ~c.paused
  BY Zenon DEF Excused
<1> DEFINE d == Accrued(Settle(c, "bo"))
<1>10. LienOf(d, "bo") = due /\ CollateralValue(d, "bo") = c.shares["bo"] /\ d.pool.cash = c.pool.cash
       /\ d.pool.entries = "open"
  <2>1. Accrued(c).pool.cash = c.pool.cash /\ Accrued(c).pool.entries = "open"
    BY <1>4, LienGrows, EntriesAreOpen
  <2>2. /\ LienOf(d, "bo") = due /\ CollateralValue(d, "bo") = c.shares["bo"] /\ d.pool = Accrued(c).pool
    BY <1>4, <1>5, SettledHealth
  <2> HIDE DEF d
  <2> QED BY <2>1, <2>2
<1> HIDE DEF d
<1>11. due + a <= ceiling
  BY <1>3, <1>5, <1>6, <1>7
<1>12. LienOf(d, "bo") + a <= MulDiv(CollateralValue(d, "bo"), MaxLTV, WAD) /\ CanBorrow(d.pool, a)
  BY <1>7, <1>8, <1>10, <1>11 DEF CanBorrow
<1>13. CanVaultBorrow(c, "bo", a)
  BY <1>9, <1>12, Zenon DEF CanVaultBorrow, d
<1> QED
  BY <1>1, <1>4, <1>13 DEF Accepts

LEMMA StockBorrowAccepted ==
  ASSUME NEW c, ChainOK(c), NEW s, JobOK(s.job), s.job.call = "borrowStock", s.at \in Nat,
         JobStands(c, s.job, s.at), ~Excused(c, s)
  PROVE  Accepts(c, s.job)
<1>1. PICK a \in Nat \ {0} : a = s.job.amount
  BY DEF JobOK
<1>2. PICK debt \in Nat : debt = LienOf(c, "bo")
  BY MyNumbers
<1>3. PICK fee \in Nat : fee = FeeOn(a)
  BY FeeIsNat
<1>4. /\ page = "stocks" /\ debt + AccrualMargin(debt) + a + fee <= StockLine(c, "bo", MaxLTV)
      /\ \A t \in Held(c, "bo") : s.at - c.feed[t].at <= MaxAge
  BY <1>1, <1>2, <1>3 DEF JobStands
<1>5. Me = "bo" /\ "bo" \in Users
  BY <1>4, UsersAreTwo DEF Me
<1>6. PICK due \in Nat : due = LienOf(Accrued(c), "bo") /\ due <= debt + AccrualMargin(debt)
  BY <1>2, <1>5, LienGrows, RoomRemains
<1>7. AccrualMargin(debt) \in Nat
  BY MarginIsNat
<1>8. PICK line \in Nat : line = StockLine(c, "bo", MaxLTV)
  BY <1>5, LineIsNat, RatesAreShares
<1>9. c.pool.cash \in Nat /\ a + fee <= c.pool.cash /\ Accrued(c).pool.cash = c.pool.cash
  <2>1. ~(a + fee > c.pool.cash)
    BY <1>1, <1>3 DEF Excused
  <2> QED BY <1>5, <2>1, MyNumbers, LienGrows
<1>10. ~c.paused
  BY Zenon DEF Excused
<1> DEFINE d == Accrued(c)
<1>11. AllPriced(d, "bo", MaxAge) /\ StockLine(d, "bo", MaxLTV) = line
  BY <1>4, <1>8, PricesStayFresh, AccruedPrices
<1>12. LienOf(d, "bo") = due /\ d.pool.cash = c.pool.cash /\ d.pool.entries = "open"
  BY <1>6, <1>9, EntriesAreOpen
<1> HIDE DEF d
<1>13. /\ a > 0 /\ LienOf(d, "bo") + a + FeeOn(a) <= StockLine(d, "bo", MaxLTV) /\ CanBorrow(d.pool, a + FeeOn(a))
  BY <1>3, <1>4, <1>6, <1>7, <1>8, <1>9, <1>11, <1>12 DEF CanBorrow
<1>14. CanStockBorrow(c, "bo", a)
  BY <1>10, <1>11, <1>13, Zenon DEF CanStockBorrow, d
<1> QED
  BY <1>1, <1>5, <1>14 DEF Accepts

\* A repayment: no more than the wallet holds and the allowance covers, of what is owed.
LEMMA RepayAccepted ==
  ASSUME NEW c, ChainOK(c), NEW s, JobOK(s.job), s.job.call = "repay", s.step = "call",
         JobStands(c, s.job, s.at), AllowanceStands(c, s)
  PROVE  Accepts(c, s.job)
<1>1. PICK a \in Nat \ {0} : a = s.job.amount
  BY DEF JobOK
<1>2. PICK debt \in Nat : debt = LienOf(c, "bo")
  BY MyNumbers
<1>3. s.job.of = "none" /\ a <= c.wallet[Me] /\ page \in {"borrow", "stocks"} /\ debt > 0
  BY <1>1, <1>2 DEF JobStands
<1>4. Me = "bo" /\ Spender = "vault" /\ "bo" \in Users
  BY <1>3, UsersAreTwo DEF Me, Spender
<1>5. a <= c.allowed[Me]["vault"]
  <2>1. Approves(s.job) /\ ApprovedTo(s.job) = "vault"
    BY <1>3, <1>4 DEF Approves, ApprovedTo
  <2> QED BY <1>1, <2>1 DEF AllowanceStands
<1>6. PICK due \in Nat : due = LienOf(Accrued(c), "bo") /\ due >= debt
  BY <1>2, <1>4, LienGrows
<1>7. c.wallet["bo"] \in Nat /\ c.allowed["bo"]["vault"] \in Nat
  BY <1>4, MyNumbers
<1>8. PICK paid \in Nat : paid = Due(c, "bo", a) /\ paid > 0 /\ paid <= a
  BY <1>3, <1>6 DEF Due, Lower
<1>9. CanLoanRepay(c, "bo", a)
  BY <1>3, <1>4, <1>5, <1>7, <1>8 DEF CanLoanRepay, CanPull
<1> QED
  BY <1>1, <1>4, <1>9 DEF Accepts

LEMMA DepositAccepted ==
  ASSUME NEW c, ChainOK(c), NEW s, JobOK(s.job), s.job.call \in {"deposit", "supply", "depositStock"}, s.step = "call",
         JobStands(c, s.job, s.at), AllowanceStands(c, s), ~Excused(c, s)
  PROVE  Accepts(c, s.job)
<1>1. PICK a \in Nat \ {0} : a = s.job.amount
  BY DEF JobOK
<1>2. a <= c.allowed[Me][ApprovedTo(s.job)]
  BY <1>1 DEF AllowanceStands, Approves
<1>3. s.job.call \in {"deposit", "depositStock"} => ~c.paused
  <2>1. ~(c.paused /\ s.job.call \in {"deposit", "borrow", "depositStock", "borrowStock"})
    BY DEF Excused
  <2> QED BY <2>1, Zenon
<1>4. CASE s.job.call = "deposit"
  <2>1. s.job.of = "none" /\ a <= c.wallet[Me] /\ page = "stake"
    BY <1>1, <1>4 DEF JobStands
  <2>2. ApprovedTo(s.job) = "vault"
    BY <2>1 DEF ApprovedTo, Spender
  <2>3. CanPull(c, Me, "vault", a) /\ ~c.paused
    BY <1>2, <1>3, <1>4, <2>1, <2>2 DEF CanPull
  <2>4. CanDeposit(c, Me, a)
    BY <2>3, Zenon DEF CanDeposit
  <2> QED BY <1>1, <1>4, <2>4 DEF Accepts
<1>5. CASE s.job.call = "supply"
  <2>1. s.job.of = "none" /\ a <= c.wallet[Me] /\ page \in {"lend", "stockLend"}
    BY <1>1, <1>5 DEF JobStands
  <2>2. ApprovedTo(s.job) = "pool"
    BY <2>1 DEF ApprovedTo, Spender
  <2>3. CanPoolSupply(c, Me, a)
    BY <1>2, <1>5, <2>1, <2>2, EntriesAreOpen DEF CanPull, CanSupply, CanPoolSupply
  <2> QED BY <1>1, <1>5, <2>3 DEF Accepts
<1>6. CASE s.job.call = "depositStock"
  <2>1. s.job.of \in Tokens /\ a <= c.stockWallet[Me][s.job.of]
    BY <1>1, <1>6 DEF JobStands, JobOK
  <2>2. ApprovedTo(s.job) = s.job.of
    BY <2>1, TokensAreNamed DEF ApprovedTo
  <2>3. a > 0 /\ a <= c.stockWallet[Me][s.job.of] /\ a <= c.allowed[Me][s.job.of]
    BY <1>2, <2>1, <2>2
  <2>4. ~c.paused
    BY <1>3, <1>6
  <2>5. CanStockDeposit(c, Me, s.job.of, a)
    BY <2>3, <2>4, Zenon DEF CanStockDeposit
  <2> QED BY <1>1, <1>6, <2>5 DEF Accepts
<1> QED
  BY <1>4, <1>5, <1>6

LEMMA ExitAccepted ==
  ASSUME NEW c, ChainOK(c), NEW s, JobOK(s.job), s.job.call \in {"withdraw", "unsupply"},
         JobStands(c, s.job, s.at), ~Excused(c, s)
  PROVE  Accepts(c, s.job)
<1>1. PICK a \in Nat \ {0} : a = s.job.amount
  BY DEF JobOK
<1>2. Me \in Users /\ "bo" \in Users
  BY MyAccount, UsersAreTwo
<1>3. CASE s.job.call = "withdraw"
  <2>1. PICK debt \in Nat : debt = LienOf(c, "bo")
    BY MyNumbers
  <2>2. page = "stake" /\ a <= c.shares["bo"] /\ (debt > 0 => a = c.shares["bo"] /\ a >= debt)
    BY <1>1, <1>3, <2>1 DEF JobStands
  <2>3. Me = "bo"
    BY <2>2 DEF Me
  <2>4. PICK due \in Nat : due = LienOf(Accrued(c), "bo") /\ due >= debt /\ (debt = 0 => due = 0)
    BY <1>2, <2>1, LienGrows
  <2>5. ~(due - debt > 0 /\ a < due)
    BY <1>1, <1>3, <2>1, <2>4 DEF Excused, Pending
  <2>6. due > 0 => a = c.shares["bo"] /\ a >= due
    BY <2>1, <2>2, <2>4, <2>5
  <2>7. CanVaultWithdraw(c, "bo", a)
    BY <2>2, <2>4, <2>6 DEF CanVaultWithdraw
  <2> QED BY <1>1, <1>3, <2>3, <2>7 DEF Accepts
<1>4. CASE s.job.call = "unsupply"
  <2>1. a <= BalanceOfSupply(c.pool, Me) /\ a <= c.pool.cash
    BY <1>1, <1>4 DEF JobStands
  <2>2. /\ BalanceOfSupply(c.pool, Me) <= BalanceOfSupply(Accrued(c).pool, Me)
        /\ BalanceOfSupply(c.pool, Me) \in Nat /\ BalanceOfSupply(Accrued(c).pool, Me) \in Nat
        /\ Accrued(c).pool.cash = c.pool.cash
    BY <1>2, LienGrows
  <2>3. CanWithdraw(Accrued(c).pool, Me, a)
    BY <2>1, <2>2 DEF CanWithdraw
  <2> QED BY <1>1, <1>4, <2>3 DEF Accepts
<1> QED
  BY <1>3, <1>4

LEMMA LiquidationAccepted ==
  ASSUME NEW c, ChainOK(c), NEW s, s.job.call \in {"liquidate", "writeOff"},
         JobStands(c, s.job, s.at), ~Excused(c, s)
  PROVE  Accepts(c, s.job)
<1>1. Me \in Users /\ "bo" \in Users
  BY MyAccount, UsersAreTwo
<1>2. CASE s.job.call = "liquidate"
  <2>1. HealthFactor(Accrued(Settle(c, "bo")), "bo") < WAD /\ MaxRepay(c, "bo") > 0
    BY <1>2 DEF JobStands
  <2>2. ~(MaxRepay(c, "bo") > c.wallet[Me])
    BY <1>2 DEF Excused
  <2>3. MaxRepay(c, "bo") \in Nat /\ c.wallet[Me] \in Nat
    BY <1>1, MaxRepayIsNat, MyNumbers
  <2>4. CanLiquidate(c, Me, "bo")
    BY <2>1, <2>2, <2>3 DEF CanLiquidate
  <2> QED BY <1>2, <2>4 DEF Accepts
<1>3. CASE s.job.call = "writeOff"
  <2>1. CanWriteOff(c, "bo")
    BY <1>3 DEF JobStands, CanWriteOff
  <2> QED BY <1>3, <2>1 DEF Accepts
<1> QED
  BY <1>2, <1>3

LEMMA CallAccepted ==
  ASSUME NEW c, ChainOK(c), NEW s, JobOK(s.job), s.step = "call", s.at \in Nat,
         JobStands(c, s.job, s.at), AllowanceStands(c, s), ~Excused(c, s)
  PROVE  Accepts(c, s.job)
<1>1. s.job.call \in Calls
  BY DEF JobOK
<1>2. CASE s.job.call \in {"deposit", "supply", "depositStock"}
  BY <1>2, DepositAccepted
<1>3. CASE s.job.call \in {"withdraw", "unsupply"}
  BY <1>3, ExitAccepted
<1>4. CASE s.job.call \in {"liquidate", "writeOff"}
  BY <1>4, LiquidationAccepted
<1>5. CASE s.job.call = "repay"
  BY <1>5, RepayAccepted
<1>6. CASE s.job.call = "borrow"
  BY <1>6, BorrowAccepted
<1>7. CASE s.job.call = "withdrawStock"
  BY <1>7, StockExitAccepted
<1>8. CASE s.job.call = "borrowStock"
  BY <1>8, StockBorrowAccepted
<1>9. CASE s.job.call = "mint"
  BY <1>9 DEF Accepts
<1> QED
  BY <1>1, <1>2, <1>3, <1>4, <1>5, <1>6, <1>7, <1>8, <1>9 DEF Calls

-----------------------------------------------------------------------------
(* A repayment of everything. *)

LEMMA RepaidPosition ==
  ASSUME NEW c, ChainOK(c), NEW a \in Nat, CanLoanRepay(c, "bo", a)
  PROVE  /\ LoanRepay(c, "bo", a).wallet["bo"] = c.wallet["bo"] - Due(c, "bo", a)
         /\ a >= LienOf(Accrued(c), "bo") => LienOf(LoanRepay(c, "bo", a), "bo") = 0
<1>1. "bo" \in Users
  BY UsersAreTwo
<1>2. PICK b : b = Accrued(c)
  OBVIOUS
<1>3. ChainOK(b) /\ b.wallet = c.wallet /\ b.allowed = c.allowed
  BY <1>2, AccruedKeepsChain
<1>4. PICK owed \in Nat : owed = LienOf(b, "bo")
  BY <1>1, <1>3, ChainReads
<1>5. PICK due \in Nat : due = Due(c, "bo", a) /\ (a >= owed => due = owed)
  BY <1>2, <1>4 DEF Due, Lower
<1> DEFINE pool == Repay(b.pool, "bo", due)
           d == [[b EXCEPT !.wallet["bo"] = b.wallet["bo"] - due, !.allowed["bo"]["vault"] = b.allowed["bo"]["vault"] - due]
                   EXCEPT !.pool = pool]
<1>6. LoanRepay(c, "bo", a) = d
  BY <1>2, <1>5 DEF LoanRepay, Pull
<1>7. PoolOK(b.pool)
  BY <1>1, <1>3, ChainReads
<1>8. PoolOK(pool) /\ (due = owed => pool.debt["bo"] = 0)
  BY <1>1, <1>4, <1>7, RepayKeepsBooks DEF LienOf
<1> HIDE DEF pool
<1>9. d.pool = pool /\ d.wallet["bo"] = b.wallet["bo"] - due
  BY <1>1, <1>3 DEF ChainOK, ChainType
<1> HIDE DEF d
<1>10. due = owed => LienOf(d, "bo") = 0
  <2>1. pool.borrowIndex \in Nat /\ RAY \in Nat /\ RAY > 0
    BY <1>1, <1>8, PoolNumbers
  <2> QED BY <1>8, <1>9, <2>1, MulDivOfNothing DEF LienOf, BalanceOfDebt
<1> QED
  BY <1>2, <1>3, <1>4, <1>5, <1>6, <1>9, <1>10

\* What is sent for all of a debt clears it, or is the whole wallet, or less than the
\* interest that came since.
LEMMA AllIsRepaid ==
  ASSUME NEW c, ChainOK(c), NEW j, JobOK(j), NEW at, JobStands(c, j, at), j.all, Accepts(c, j)
  PROVE  \/ LienOf(Applied(c, j), "bo") = 0
         \/ Pending(c) > AccrualMargin(LienOf(c, "bo"))
         \/ Applied(c, j).wallet["bo"] = 0
<1>1. PICK a \in Nat \ {0} : a = j.amount
  BY DEF JobOK
<1>2. PICK debt \in Nat : debt = LienOf(c, "bo")
  BY MyNumbers
<1>3. PICK wallet \in Nat : wallet = c.wallet[Me]
  BY MyNumbers
<1>4. j.call = "repay" /\ a = Lower(debt + AccrualMargin(debt), wallet)
  BY <1>1, <1>2, <1>3 DEF JobStands
<1>5. page \in {"borrow", "stocks"}
  BY <1>4 DEF JobStands
<1>6. Me = "bo" /\ "bo" \in Users
  BY <1>5, UsersAreTwo DEF Me
<1>7. CanLoanRepay(c, "bo", a) /\ Applied(c, j) = LoanRepay(c, "bo", a)
  BY <1>1, <1>4, <1>6 DEF Accepts, Applied
<1>8. /\ LoanRepay(c, "bo", a).wallet["bo"] = c.wallet["bo"] - Due(c, "bo", a)
      /\ a >= LienOf(Accrued(c), "bo") => LienOf(LoanRepay(c, "bo", a), "bo") = 0
  BY <1>7, RepaidPosition
<1>9. PICK owed \in Nat : owed = LienOf(Accrued(c), "bo")
  BY <1>6, LienGrows
<1>10. PICK margin \in Nat : margin = AccrualMargin(debt)
  BY MarginIsNat
<1>11. CASE a >= owed
  BY <1>7, <1>8, <1>9, <1>11
<1>12. CASE a < owed
  <2>1. Due(c, "bo", a) = a
    BY <1>9, <1>12 DEF Due, Lower
  <2>2. a = wallet \/ a = debt + margin
    BY <1>4, <1>10 DEF Lower
  <2>3. CASE a = wallet
    <3>1. LoanRepay(c, "bo", a).wallet["bo"] = wallet - wallet
      BY <1>3, <1>6, <1>8, <2>1, <2>3
    <3> QED BY <1>7, <3>1
  <2>4. CASE a = debt + margin
    <3>1. owed - debt > margin
      BY <1>12, <2>4
    <3> QED BY <1>2, <1>9, <1>10, <3>1 DEF Pending
  <2> QED BY <2>2, <2>3, <2>4
<1> QED
  BY <1>9, <1>11, <1>12

-----------------------------------------------------------------------------
(* The invariant: it holds from the start and every step keeps it. *)

LEMMA ReadNext ==
  ASSUME page' = page, NEW part, ReadStands(part, seen'[part], chain')
  PROVE  ReadStands(part, seen[part], chain)'
<1>1. Reading(part, chain)'.is = Reading(part, chain').is
  BY DEF Reading, StockLoan, Me, Spender
<1> QED
  BY <1>1 DEF ReadStands, PartStands

LEMMA SendNext ==
  ASSUME page' = page, NEW f, SendStands(sent'[f], chain')
  PROVE  SendStands(sent[f], chain)'
  BY DEF SendStands, JobStands, AllowanceStands, Approves, ApprovedTo, Me, Spender

\* What was read or sent before the last mined transaction rests on nothing any more.
LEMMA MinedSince ==
  ASSUME NEW c, ChainOK(c), NEW d, d.height = c.height + 1
  PROVE  /\ \A part, r : ReadStands(part, r, c) => ReadStands(part, r, d)
         /\ \A s : SendStands(s, c) => SendStands(s, d)
<1>1. c.height \in Nat
  BY DEF ChainOK, ChainType
<1>2. ASSUME NEW part, NEW r, ReadStands(part, r, c) PROVE ReadStands(part, r, d)
  BY <1>1, <1>2 DEF ReadStands
<1>3. ASSUME NEW s, SendStands(s, c) PROVE SendStands(s, d)
  BY <1>1, <1>3 DEF SendStands
<1> QED
  BY <1>2, <1>3

\* Time undoes nothing of it.
LEMMA TimeStands ==
  ASSUME NEW c, ChainOK(c)
  PROVE  /\ \A part \in Parts : \A r : ReadStands(part, r, c) => ReadStands(part, r, Later(c))
         /\ \A s : SendStands(s, c) => SendStands(s, Later(c))
<1>1. Later(c).height = c.height /\ Later(c).allowed = c.allowed
  BY LaterKeepsChain
<1>2. ASSUME NEW part \in Parts, NEW r, ReadStands(part, r, c) PROVE ReadStands(part, r, Later(c))
  BY <1>1, <1>2, PartStaysLater DEF ReadStands
<1>3. ASSUME NEW s, SendStands(s, c) PROVE SendStands(s, Later(c))
  <2>1. ASSUME JobStands(c, s.job, s.at) PROVE JobStands(Later(c), s.job, s.at)
    BY <2>1, JobStaysLater
  <2>2. ASSUME AllowanceStands(c, s) PROVE AllowanceStands(Later(c), s)
    BY <1>1, <2>2 DEF AllowanceStands
  <2> QED BY <1>1, <1>3, <2>1, <2>2 DEF SendStands
<1> QED
  BY <1>2, <1>3

LEMMA FreshReadStands ==
  ASSUME NEW c, ChainOK(c), NEW part \in Parts
  PROVE  ReadStands(part, Reading(part, c), c)
<1>1. c.height \in Nat /\ Reading(part, c).height = c.height
  BY DEF ChainOK, ChainType, Reading
<1>2. PartStands(part, Reading(part, c).is, c)
  BY ReadingStands
<1> QED
  BY <1>1, <1>2 DEF ReadStands

\* The least of some heights is one of them.
LEMMA LeastIsThere ==
  ASSUME NEW T \in SUBSET Nat, T # {}
  PROVE  Min(T) \in T /\ \A y \in T : Min(T) <= y
<1> DEFINE Good == {k \in Nat : \A U \in SUBSET Nat : (\E y \in U : y <= k) => \E x \in U : \A y \in U : x <= y}
<1>1. 0 \in Good
  OBVIOUS
<1>2. ASSUME NEW k \in Nat, k \in Good PROVE k + 1 \in Good
  <2>1. ASSUME NEW U \in SUBSET Nat, NEW z \in U, z <= k + 1 PROVE \E x \in U : \A y \in U : x <= y
    <3>1. CASE \E y \in U : y <= k
      BY <1>2, <3>1
    <3>2. CASE ~\E y \in U : y <= k
      BY <2>1, <3>2
    <3> QED BY <3>1, <3>2
  <2> QED BY <2>1
<1>3. PICK z \in T : TRUE
  OBVIOUS
<1>4. z \in Nat
  BY <1>3
<1> HIDE DEF Good
<1>5. z \in Good
  BY <1>1, <1>2, <1>4, NatSetInduction
<1>6. \E x \in T : \A y \in T : x <= y
  <2>1. z <= z
    BY <1>4
  <2> QED BY <1>3, <1>5, <2>1 DEF Good
<1> QED
  BY <1>6 DEF Min

\* A send rests on the oldest of the page's reads.
LEMMA SubmitStands ==
  ASSUME UntouchedInv, NEW form \in Forms(page), NEW j \in Offers(form), NEW s,
         s = [step |-> IF j.approve > 0 THEN "approve" ELSE "call", job |-> j,
              height |-> Min({seen[part].height : part \in Reads(page)}), at |-> chain.now]
  PROVE  SendStands(s, chain)
<1>1. page \in Pages /\ ChainOK(chain)
  BY DEF UntouchedInv, LendingInv
<1>2. \A part \in Reads(page) : ReadStands(part, seen[part], chain)
  BY DEF UntouchedInv
<1>3. PICK T : T = {seen[part].height : part \in Reads(page)}
  OBVIOUS
<1>4. chain.height \in Nat /\ chain.now \in Nat
  BY <1>1 DEF ChainOK, ChainType
<1>5. T \in SUBSET Nat /\ \A h \in T : h <= chain.height
  BY <1>2, <1>3 DEF ReadStands
<1>6. T # {}
  <2>1. page \in {"stake", "borrow", "portfolio", "lend", "liquidate", "stocks", "stockLend"}
    BY <1>1, PagesAreTheApps
  <2>2. Reads(page) # {}
    BY <2>1 DEF Reads, StockPages
  <2> QED BY <1>3, <2>2
<1>7. Min(T) \in T /\ \A h \in T : Min(T) <= h
  BY <1>5, <1>6, LeastIsThere
<1>8. s.height = Min(T) /\ s.at = chain.now /\ s.job = j /\ s.step = IF j.approve > 0 THEN "approve" ELSE "call"
  BY <1>3
<1>9. ASSUME Min(T) = chain.height PROVE JobStands(chain, j, chain.now) /\ Covered(chain, j)
  <2>1. \A part \in Reads(page) : seen[part].height = chain.height
    BY <1>3, <1>4, <1>5, <1>7, <1>9
  <2>2. Stands
    BY <1>2, <2>1 DEF Stands, ReadStands, Seen
  <2> QED BY <1>1, <2>2, OffersStand
<1>10. ASSUME Covered(chain, j) PROVE AllowanceStands(chain, s)
  BY <1>8, <1>10 DEF Covered, AllowanceStands
<1> QED
  BY <1>4, <1>5, <1>7, <1>8, <1>9, <1>10 DEF SendStands

\* An approval is mined: the call it was for still rests on what it did.
LEMMA ApprovalStands ==
  ASSUME NEW c, ChainOK(c), NEW d, ChainOK(d), NEW s, SendOK(s), s.step = "approve", SendStands(s, c),
         d = [[c EXCEPT !.allowed[Me][ApprovedTo(s.job)] = s.job.approve] EXCEPT !.height = c.height + 1],
         NEW h, h = (IF s.height = c.height THEN c.height + 1 ELSE s.height),
         NEW r, r = [step |-> "call", job |-> s.job, height |-> h, at |-> s.at]
  PROVE  SendStands(r, d)
<1>1. PICK j : j = s.job /\ JobOK(j)
  BY DEF SendOK, Idle
<1>2. Me \in Users /\ ApprovedTo(j) \in Spenders /\ "bo" \in Users
  BY <1>1, MyAccount, UsersAreTwo DEF ApprovedTo, JobOK, Spenders
<1>3. /\ c.height \in Nat /\ s.height \in Nat /\ s.height <= c.height /\ s.at \in Nat
      /\ s.height = c.height => JobStands(c, j, s.at) /\ AllowanceStands(c, s)
  BY <1>1 DEF SendStands, ChainOK, ChainType
<1>4. r.step = "call" /\ r.job = j /\ r.at = s.at /\ r.height = h
  BY <1>1
<1>5. /\ d.pool = c.pool /\ d.shares = c.shares /\ d.wallet = c.wallet /\ d.stock = c.stock
      /\ d.stockWallet = c.stockWallet /\ d.feed = c.feed /\ d.now = c.now /\ d.height = c.height + 1
      /\ d.allowed[Me][ApprovedTo(j)] = j.approve
  BY <1>1, <1>2 DEF ChainOK, ChainType
<1>6. ASSUME s.height = c.height PROVE JobStands(d, j, s.at) /\ AllowanceStands(d, r)
  <2>1. JobStands(c, j, s.at) /\ AllowanceStands(c, s)
    BY <1>3, <1>6
  <2>2. AllowanceStands(d, r)
    <3>1. Approves(j) => j.approve = j.amount
      BY <1>1, <2>1 DEF AllowanceStands
    <3>2. j.amount \in Nat
      BY <1>1 DEF JobOK
    <3> QED BY <1>4, <1>5, <3>1, <3>2 DEF AllowanceStands
  <2>3. LienOf(Accrued(d), "bo") = LienOf(Accrued(c), "bo")
    <3>1. Accrued(d).pool = Accrue(d.pool, d.now) /\ Accrued(c).pool = Accrue(c.pool, c.now)
      BY AccruedKeepsChain
    <3> QED BY <1>5, <3>1 DEF LienOf
  <2>4. HealthFactor(Accrued(Settle(d, "bo")), "bo") = HealthFactor(Accrued(Settle(c, "bo")), "bo")
    <3>1. PICK due : due = LienOf(Accrued(c), "bo")
      OBVIOUS
    <3>2. PICK line : line = c.shares["bo"]
      OBVIOUS
    <3>3. HealthFactor(Accrued(Settle(c, "bo")), "bo") = IF due = 0 THEN NoDebt ELSE MulDiv(line, LiquidationThreshold, due)
      BY <1>2, <3>1, <3>2, SettledHealth
    <3>4. HealthFactor(Accrued(Settle(d, "bo")), "bo") =
            IF LienOf(Accrued(d), "bo") = 0 THEN NoDebt
            ELSE MulDiv(d.shares["bo"], LiquidationThreshold, LienOf(Accrued(d), "bo"))
      BY <1>2, SettledHealth
    <3>5. LienOf(Accrued(d), "bo") = due /\ d.shares["bo"] = line
      BY <1>5, <2>3, <3>1, <3>2
    <3> QED BY <3>3, <3>4, <3>5
  <2>5. LienOf(Accrued(Settle(d, "bo")), "bo") = LienOf(Accrued(Settle(c, "bo")), "bo")
    BY <1>2, <2>3, SettledHealth
  <2>6. MaxRepay(d, "bo") = MaxRepay(c, "bo")
    BY <2>4, <2>5 DEF MaxRepay
  <2>7. j.call = "liquidate" => HealthFactor(Accrued(Settle(d, "bo")), "bo") < WAD /\ MaxRepay(d, "bo") > 0
    BY <2>1, <2>4, <2>6 DEF JobStands
  <2>8. j.call = "writeOff" => LienOf(Accrued(d), "bo") > d.shares["bo"]
    BY <1>5, <2>1, <2>3 DEF JobStands
  <2> QED BY <1>5, <2>1, <2>2, <2>7, <2>8, JobCarries
<1> QED
  BY <1>3, <1>4, <1>5, <1>6 DEF SendStands

LEMMA InitEstablishesUntouched == Init => UntouchedInv
<1> SUFFICES ASSUME Init PROVE UntouchedInv
  OBVIOUS
<1>1. LendingInv
  BY InitEstablishesLending
<1>2. page \in Pages /\ ChainOK(chain) /\ Reads(page) \subseteq Parts
  BY <1>1, PageParts DEF LendingInv
<1>3. seen = [part \in Reads(page) |-> Reading(part, chain)] /\ sent = [f \in Forms(page) |-> Idle]
  BY DEF Init
<1>4. \A part \in Reads(page) : ReadStands(part, seen[part], chain)
  BY <1>2, <1>3, FreshReadStands
<1>5. \A f \in Forms(page) : SendStands(sent[f], chain)
  BY <1>3 DEF SendStands, Idle
<1> QED
  BY <1>1, <1>4, <1>5 DEF UntouchedInv

LEMMA StepKeepsUntouched == UntouchedInv /\ [Next]_vars => UntouchedInv'
<1> SUFFICES ASSUME UntouchedInv, [Next]_vars PROVE UntouchedInv'
  OBVIOUS
<1>1. LendingInv /\ LendingInv'
  BY StepKeepsLending DEF UntouchedInv
<1>2. /\ page \in Pages /\ ChainOK(chain) /\ SeenOK /\ SentOK /\ ChainOK(chain')
      /\ Reads(page) \subseteq Parts
  BY <1>1, PageParts DEF LendingInv
<1>3. page' = page
  BY DEF Next, vars, Tick, OthersAct, Refetch, Submit, ApprovalMined, CallMined, CallRefused, Declined
<1>4. /\ \A part \in Reads(page) : ReadStands(part, seen[part], chain)
      /\ \A f \in Forms(page) : SendStands(sent[f], chain)
  BY DEF UntouchedInv
<1>5. ASSUME \A part \in Reads(page) : ReadStands(part, seen'[part], chain'),
             \A f \in Forms(page) : SendStands(sent'[f], chain')
      PROVE  UntouchedInv'
  <2>1. ASSUME NEW part \in Reads(page) PROVE ReadStands(part, seen[part], chain)'
    BY <1>3, <1>5, ReadNext
  <2>2. ASSUME NEW f \in Forms(page) PROVE SendStands(sent[f], chain)'
    BY <1>3, <1>5, SendNext
  <2> QED BY <1>1, <1>3, <2>1, <2>2 DEF UntouchedInv
\* What one form's send becomes leaves the others.
<1>6. ASSUME NEW form \in Forms(page), NEW s, sent' = [sent EXCEPT ![form] = s], SendStands(s, chain'),
             \A f \in Forms(page) : f # form => SendStands(sent[f], chain')
      PROVE  \A f \in Forms(page) : SendStands(sent'[f], chain')
  <2>1. sent'[form] = s /\ \A f \in Forms(page) : f # form => sent'[f] = sent[f]
    BY <1>2, <1>6 DEF SentOK
  <2> QED BY <1>6, <2>1
\* A mined transaction leaves the reads and sends before it with nothing to answer for.
<1>7. ASSUME chain'.height = chain.height + 1
      PROVE  /\ \A part \in Reads(page) : ReadStands(part, seen[part], chain')
             /\ \A f \in Forms(page) : SendStands(sent[f], chain')
  BY <1>2, <1>4, <1>7, MinedSince
<1>8. chain.height + 1 \in Nat
  BY <1>2 DEF ChainOK, ChainType
<1>9. CASE UNCHANGED vars
  BY <1>4, <1>5, <1>9 DEF vars
<1>10. CASE Tick
  <2>1. chain' = Later(chain) /\ seen' = seen /\ sent' = sent
    BY <1>10 DEF Tick, Later
  <2> QED BY <1>2, <1>4, <1>5, <2>1, TimeStands
<1>11. CASE OthersAct
  <2>1. PICK c \in OwnerCalls(chain) \cup (IF page \in StockPages THEN OthersInStocks(chain) ELSE OthersInVault(chain)) :
          chain' = [c EXCEPT !.height = chain.height + 1]
    BY <1>11 DEF OthersAct
  <2>2. ChainOK(c)
    BY <1>2, <2>1, OwnerKeepsChain, OthersInStocksKeepChain, OthersInVaultKeepChain
  <2>3. chain'.height = chain.height + 1
    BY <1>8, <2>1, <2>2, MinedKeepsChain
  <2>4. seen' = seen /\ sent' = sent
    BY <1>11 DEF OthersAct
  <2> QED BY <1>5, <1>7, <2>3, <2>4
<1>12. ASSUME NEW part \in Reads(page), Refetch(part) PROVE UntouchedInv'
  <2>1. seen' = [seen EXCEPT ![part] = Reading(part, chain)] /\ chain' = chain /\ sent' = sent
    BY <1>12 DEF Refetch
  <2>2. seen'[part] = Reading(part, chain) /\ \A x \in Reads(page) : x # part => seen'[x] = seen[x]
    BY <1>2, <2>1 DEF SeenOK
  <2>3. ReadStands(part, Reading(part, chain), chain)
    BY <1>2, FreshReadStands
  <2> QED BY <1>4, <1>5, <2>1, <2>2, <2>3
<1>13. ASSUME NEW form \in Forms(page), Submit(form) PROVE UntouchedInv'
  <2>1. PICK j \in Offers(form) :
          sent' = [sent EXCEPT ![form] = [step |-> IF j.approve > 0 THEN "approve" ELSE "call", job |-> j,
                                          height |-> Min({seen[part].height : part \in Reads(page)}), at |-> chain.now]]
    BY <1>13 DEF Submit
  <2>2. PICK s : s = [step |-> IF j.approve > 0 THEN "approve" ELSE "call", job |-> j,
                      height |-> Min({seen[part].height : part \in Reads(page)}), at |-> chain.now]
    OBVIOUS
  <2>3. SendStands(s, chain)
    BY <2>2, SubmitStands
  <2>4. sent' = [sent EXCEPT ![form] = s]
    BY <2>1, <2>2
  <2>5. chain' = chain /\ seen' = seen
    BY <1>13 DEF Submit
  <2>6. \A f \in Forms(page) : SendStands(sent'[f], chain')
    BY <1>4, <1>6, <2>3, <2>4, <2>5
  <2> QED BY <1>4, <1>5, <2>5, <2>6
<1>14. ASSUME NEW form \in Forms(page), ApprovalMined(form) PROVE UntouchedInv'
  <2>1. PICK s : s = sent[form] /\ s.step = "approve" /\ SendOK(s) /\ SendStands(s, chain)
    BY <1>2, <1>4, <1>14 DEF ApprovalMined, SentOK
  <2>2. chain' = [[chain EXCEPT !.allowed[Me][ApprovedTo(s.job)] = s.job.approve] EXCEPT !.height = chain.height + 1]
    BY <1>14, <2>1 DEF ApprovalMined, ApprovedTo
  <2>3. s = [step |-> s.step, job |-> s.job, height |-> s.height, at |-> s.at]
    BY <2>1 DEF SendOK, Idle
  <2>4. PICK h : h = IF s.height = chain.height THEN chain.height + 1 ELSE s.height
    OBVIOUS
  <2>5. PICK r : r = [step |-> "call", job |-> s.job, height |-> h, at |-> s.at]
    OBVIOUS
  <2>6. sent' = [sent EXCEPT ![form] = r]
    <3>1. sent' = [sent EXCEPT ![form] = [s EXCEPT !.step = "call", !.height = h]]
      BY <1>2, <1>14, <2>1, <2>4 DEF ApprovalMined, SentOK
    <3>2. PICK b : b = [s EXCEPT !.step = "call", !.height = h]
      OBVIOUS
    <3>3. b = [step |-> "call", job |-> s.job, height |-> h, at |-> s.at]
      BY <2>3, <3>2
    <3> QED BY <2>5, <3>1, <3>2, <3>3
  <2>7. chain'.height = chain.height + 1
    BY <1>2, <2>2 DEF ChainOK, ChainType
  <2>8. SendStands(r, chain')
    BY <1>2, <2>1, <2>2, <2>4, <2>5, ApprovalStands
  <2>9. \A f \in Forms(page) : SendStands(sent'[f], chain')
    BY <1>6, <1>7, <2>6, <2>7, <2>8
  <2>10. \A part \in Reads(page) : ReadStands(part, seen'[part], chain')
    <3>1. CASE "allowance" \in Reads(page)
      <4>1. seen' = [seen EXCEPT !["allowance"] = Reading("allowance", chain')]
        BY <1>14, <3>1 DEF ApprovalMined
      <4>2. /\ seen'["allowance"] = Reading("allowance", chain')
            /\ \A x \in Reads(page) : x # "allowance" => seen'[x] = seen[x]
        BY <1>2, <3>1, <4>1 DEF SeenOK
      <4>3. ReadStands("allowance", Reading("allowance", chain'), chain')
        BY <1>2, FreshReadStands DEF Parts
      <4> QED BY <1>7, <2>7, <4>2, <4>3
    <3>2. CASE "allowance" \notin Reads(page)
      BY <1>7, <1>14, <2>7, <3>2 DEF ApprovalMined
    <3> QED BY <3>1, <3>2
  <2> QED BY <1>5, <2>9, <2>10
<1>15. ASSUME NEW form \in Forms(page), CallMined(form) PROVE UntouchedInv'
  <2>1. JobOK(sent[form].job) /\ Accepts(chain, sent[form].job)
    BY <1>2, <1>15 DEF CallMined, SentOK, SendOK, Idle
  <2>2. PICK c : c = Applied(chain, sent[form].job) /\ ChainOK(c)
    BY <1>2, <2>1, CallKeepsChain
  <2>3. chain' = [c EXCEPT !.height = chain.height + 1] /\ seen' = seen /\ sent' = [sent EXCEPT ![form] = Idle]
    BY <1>15, <2>2 DEF CallMined
  <2>4. chain'.height = chain.height + 1
    BY <1>8, <2>2, <2>3, MinedKeepsChain
  <2>5. SendStands(Idle, chain')
    BY DEF SendStands, Idle
  <2>6. \A f \in Forms(page) : SendStands(sent'[f], chain')
    BY <1>6, <1>7, <2>3, <2>4, <2>5
  <2> QED BY <1>5, <1>7, <2>3, <2>4, <2>6
<1>16. ASSUME NEW form \in Forms(page), CallRefused(form) PROVE UntouchedInv'
  <2>1. PICK s : s = [sent[form] EXCEPT !.step = "refused"]
    OBVIOUS
  <2>2. sent' = [sent EXCEPT ![form] = s] /\ chain' = chain /\ seen' = seen
    BY <1>16, <2>1 DEF CallRefused
  <2>3. s.step = "refused"
    <3>1. sent[form] = [step |-> sent[form].step, job |-> sent[form].job, height |-> sent[form].height, at |-> sent[form].at]
      BY <1>2, <1>16 DEF CallRefused, SentOK, SendOK, Idle
    <3> QED BY <2>1, <3>1
  <2>4. SendStands(s, chain')
    BY <2>3 DEF SendStands
  <2>5. \A f \in Forms(page) : SendStands(sent'[f], chain')
    BY <1>4, <1>6, <2>2, <2>4
  <2> QED BY <1>4, <1>5, <2>2, <2>5
<1>17. ASSUME NEW form \in Forms(page), Declined(form) PROVE UntouchedInv'
  <2>1. sent' = [sent EXCEPT ![form] = Idle] /\ chain' = chain /\ seen' = seen
    BY <1>17 DEF Declined
  <2>2. SendStands(Idle, chain')
    BY DEF SendStands, Idle
  <2>3. \A f \in Forms(page) : SendStands(sent'[f], chain')
    BY <1>4, <1>6, <2>1, <2>2
  <2> QED BY <1>4, <1>5, <2>1, <2>3
<1> QED
  BY <1>9, <1>10, <1>11, <1>12, <1>13, <1>14, <1>15, <1>16, <1>17 DEF Next

\* What a page read, and why a form let a call through, still stands for as long as
\* nothing but the call's own approval is mined: UntouchedInv is inductive.
THEOREM UntouchedInvariance == Spec => []UntouchedInv
<1>1. Init => UntouchedInv
  BY InitEstablishesUntouched
<1>2. UntouchedInv /\ [Next]_vars => UntouchedInv'
  BY StepKeepsUntouched
<1> QED BY <1>1, <1>2, PTL DEF Spec

\* One form's send, at one step.
CallDoesItsJob(f) ==
  LET s == sent[f] IN
  s.step = "call" /\ s.height = chain.height /\ sent'[f] # s =>
    /\ sent'[f].step = "refused" => Excused(chain, s)
    /\ chain' # chain /\ s.job.all =>
         \/ LienOf(chain', "bo") = 0
         \/ Pending(chain) > AccrualMargin(LienOf(chain, "bo"))
         \/ chain'.wallet["bo"] = 0

LEMMA StepDoesItsJob ==
  ASSUME UntouchedInv, Next, NEW f \in Forms(page)
  PROVE  CallDoesItsJob(f)
<1> SUFFICES ASSUME sent[f].step = "call", sent[f].height = chain.height, sent'[f] # sent[f]
             PROVE  /\ sent'[f].step = "refused" => Excused(chain, sent[f])
                    /\ chain' # chain /\ sent[f].job.all =>
                         \/ LienOf(chain', "bo") = 0
                         \/ Pending(chain) > AccrualMargin(LienOf(chain, "bo"))
                         \/ chain'.wallet["bo"] = 0
  BY Zenon DEF CallDoesItsJob
<1>1. ChainOK(chain) /\ SentOK
  BY DEF UntouchedInv, LendingInv
<1>2. PICK s : s = sent[f]
  OBVIOUS
<1>3. /\ s.step = "call" /\ s.at \in Nat /\ JobStands(chain, s.job, s.at) /\ AllowanceStands(chain, s)
  BY <1>2 DEF UntouchedInv, SendStands
<1>4. JobOK(s.job)
  BY <1>1, <1>2, <1>3 DEF SentOK, SendOK, Idle
\* Only the call itself or its refusal, or the wallet, ends a send.
<1>5. CallMined(f) \/ CallRefused(f) \/ Declined(f)
  <2>1. ASSUME NEW g \in Forms(page), NEW x, sent' = [sent EXCEPT ![g] = x] PROVE g = f
    BY <1>1, <2>1 DEF SentOK
  <2>2. ~Tick /\ ~OthersAct /\ ~\E part \in Reads(page) : Refetch(part)
    BY DEF Tick, OthersAct, Refetch
  <2>3. PICK g \in Forms(page) : Submit(g) \/ ApprovalMined(g) \/ CallMined(g) \/ CallRefused(g) \/ Declined(g)
    BY <2>2 DEF Next
  <2>4. \E x : sent' = [sent EXCEPT ![g] = x]
    <3>1. CASE Submit(g)
      BY <3>1 DEF Submit
    <3>2. CASE ApprovalMined(g)
      BY <3>2 DEF ApprovalMined
    <3>3. CASE CallMined(g)
      BY <3>3 DEF CallMined
    <3>4. CASE CallRefused(g)
      BY <3>4 DEF CallRefused
    <3>5. CASE Declined(g)
      BY <3>5 DEF Declined
    <3> QED BY <2>3, <3>1, <3>2, <3>3, <3>4, <3>5
  <2>5. g = f
    BY <2>1, <2>4
  <2>6. ~Submit(f) /\ ~ApprovalMined(f)
    BY DEF Submit, ApprovalMined
  <2> QED BY <2>3, <2>5, <2>6
<1>6. CASE CallMined(f)
  <2>1. PICK d : d = Applied(chain, s.job)
    OBVIOUS
  <2>2. Accepts(chain, s.job) /\ chain' = [d EXCEPT !.height = chain.height + 1] /\ sent' = [sent EXCEPT ![f] = Idle]
    BY <1>2, <1>6, <2>1 DEF CallMined
  <2>3. ChainOK(d)
    BY <1>1, <1>4, <2>1, <2>2, CallKeepsChain
  <2>4. chain'.pool = d.pool /\ chain'.wallet = d.wallet
    BY <2>2, <2>3 DEF ChainOK, ChainType
  <2>5. sent'[f].step = "idle"
    BY <1>1, <2>2 DEF SentOK, Idle
  <2>6. ASSUME s.job.all
        PROVE  \/ LienOf(chain', "bo") = 0
               \/ Pending(chain) > AccrualMargin(LienOf(chain, "bo"))
               \/ chain'.wallet["bo"] = 0
    <3>1. \/ LienOf(d, "bo") = 0
          \/ Pending(chain) > AccrualMargin(LienOf(chain, "bo"))
          \/ d.wallet["bo"] = 0
      BY <1>1, <1>3, <1>4, <2>1, <2>2, <2>6, AllIsRepaid
    <3>2. LienOf(chain', "bo") = LienOf(d, "bo")
      BY <2>4 DEF LienOf
    <3> QED BY <2>4, <3>1, <3>2
  <2> QED BY <1>2, <2>5, <2>6
<1>7. CASE CallRefused(f)
  <2>1. ~Accepts(chain, s.job) /\ chain' = chain
    BY <1>2, <1>7 DEF CallRefused
  <2>2. Excused(chain, s)
    BY <1>1, <1>3, <1>4, <2>1, CallAccepted
  <2> QED BY <1>2, <2>1, <2>2
<1>8. CASE Declined(f)
  <2>1. sent' = [sent EXCEPT ![f] = Idle] /\ chain' = chain
    BY <1>8 DEF Declined
  <2>2. sent'[f].step = "idle"
    BY <1>1, <2>1 DEF SentOK, Idle
  <2> QED BY <2>1, <2>2
<1> QED
  BY <1>5, <1>6, <1>7, <1>8

(***************************************************************************)
(* A call one of the lending pages let through, when nothing but its own   *)
(* approval was mined since the page's reads, is accepted by the vault or  *)
(* the pool, the causes Excused names apart; and a repayment of everything *)
(* leaves no debt, unless the wallet is empty or the interest outran the   *)
(* margin (lib/accrual, useApproveAndCall, the pages' forms).              *)
(***************************************************************************)
THEOREM UntouchedCallsAreAccepted == Spec => UntouchedCallDoesItsJob
<1>1. UntouchedInv /\ [Next]_vars => [\A f \in Forms(page) : CallDoesItsJob(f)]_vars
  <2> SUFFICES ASSUME UntouchedInv, Next PROVE \A f \in Forms(page) : CallDoesItsJob(f)
    OBVIOUS
  <2> QED BY StepDoesItsJob
<1>2. [\A f \in Forms(page) : CallDoesItsJob(f)]_vars =>
        [\A f \in Forms(page) :
           LET s == sent[f] IN
           s.step = "call" /\ s.height = chain.height /\ sent'[f] # s =>
             /\ sent'[f].step = "refused" => Excused(chain, s)
             /\ chain' # chain /\ s.job.all =>
                  \/ LienOf(chain', "bo") = 0
                  \/ Pending(chain) > AccrualMargin(LienOf(chain, "bo"))
                  \/ chain'.wallet["bo"] = 0]_vars
  BY DEF CallDoesItsJob
<1> QED BY <1>1, <1>2, UntouchedInvariance, PTL DEF Spec, UntouchedCallDoesItsJob

=============================================================================
