--------------------------- MODULE MarketDeskProofs ---------------------------
(***************************************************************************)
(* MarketDesk for every schedule, feed history, stake and order of reads:  *)
(* a button that was live does not revert, no due round goes unoffered,    *)
(* and the card tells the round the contract keeps.                        *)
(***************************************************************************)
EXTENDS MarketDesk, PriceMarketProofs

LEMMA DeskNats ==
  /\ MaxTime \in Nat /\ EntryCutoff \in Nat /\ LockWindow \in Nat
  /\ ResolveDeadline \in Nat /\ WAD \in Nat /\ WAD > 0 /\ Rake \in Nat
  /\ MinSidePool \in Nat /\ MinSidePool > 0
  BY MaxTimeIsNat, ConstructorAccepts

LEMMA RoundOneExists == 1 \in RoundIds
  BY DeskInputs, InputsAreNaturals DEF RoundIds

LEMMA TimeIsNat == ASSUME NEW t \in Times PROVE t \in Nat /\ t <= MaxTime
  BY MaxTimeIsNat DEF Times

LEMMA FeedFacts ==
  ASSUME OracleTypeOK
  PROVE  /\ latestRoundId \in Nat /\ latestRoundId <= MaxFeedId
         /\ \A f \in FeedIds : /\ f \in Nat /\ f > 0
                               /\ feedRounds[f].updatedAt \in Nat
                               /\ feedRounds[f].answer \in Int
<1>1. latestRoundId \in 0..MaxFeedId
  BY DEF OracleTypeOK
<1>2. \A f \in FeedIds : feedRounds[f].updatedAt \in Nat /\ feedRounds[f].answer \in Int
  BY TimesAreNats DEF OracleTypeOK, FeedRound
<1>3. \A f \in FeedIds : f \in Nat /\ f > 0
  BY ScaleFacts DEF FeedIds
<1> QED
  BY <1>1, <1>2, <1>3, ScaleFacts

-----------------------------------------------------------------------------
(***************************************************************************)
(* The search.  Its loop is a recursive function of the turn, which exists *)
(* because its first k turns do, for every k.                              *)
(***************************************************************************)
Ranges == [lo: 0..MaxFeedId, hi: 0..MaxFeedId]

Turn(g, turn, at) ==
  IF turn = 0 THEN [lo |-> 0, hi |-> latestRoundId] ELSE Halve(g[turn - 1], at)

Turns(g, at) == g = [turn \in 0..MaxFeedId |-> Turn(g, turn, at)]

LEMMA TurnsExist == ASSUME NEW at PROVE \E g : Turns(g, at)
<1> DEFINE Begins(g, k) == DOMAIN g = 0..k /\ \A turn \in 0..k : g[turn] = Turn(g, turn, at)
           Good == {k \in Nat : \E g : Begins(g, k)}
<1>1. 0 \in Good
  <2> DEFINE g == [turn \in 0..0 |-> [lo |-> 0, hi |-> latestRoundId]]
  <2>1. Begins(g, 0)
    BY DEF Turn
  <2> QED BY <2>1
<1>2. ASSUME NEW k \in Nat, k \in Good PROVE k + 1 \in Good
  <2>1. PICK g : Begins(g, k)
    BY <1>2
  <2> DEFINE h == [turn \in 0..(k + 1) |-> Turn(g, turn, at)]
  <2>2. ASSUME NEW turn \in 0..(k + 1) PROVE h[turn] = Turn(h, turn, at)
    <3>1. CASE turn = 0
      BY <3>1 DEF Turn
    <3>2. CASE turn # 0
      <4>1. turn - 1 \in 0..k /\ turn - 1 \in 0..(k + 1)
        BY <3>2
      <4>2. h[turn - 1] = g[turn - 1]
        BY <2>1, <4>1
      <4> QED BY <3>2, <4>2 DEF Turn
    <3> QED BY <3>1, <3>2
  <2>3. Begins(h, k + 1)
    BY <2>2
  <2> HIDE DEF h, Begins
  <2> QED BY <2>3
<1>3. MaxFeedId \in Good
  <2> HIDE DEF Good
  <2> QED BY <1>1, <1>2, ScaleFacts, NatSetInduction
<1>4. PICK g : Begins(g, MaxFeedId)
  BY <1>3
<1>5. \A turn \in 0..MaxFeedId : g[turn] = Turn(g, turn, at)
  BY <1>4
<1>6. PICK h : h = [turn \in 0..MaxFeedId |-> Turn(g, turn, at)]
  OBVIOUS
<1>7. \A turn \in 0..MaxFeedId : Turn(h, turn, at) = Turn(g, turn, at)
  <2> TAKE turn \in 0..MaxFeedId
  <2>1. CASE turn = 0
    BY <2>1 DEF Turn
  <2>2. CASE turn # 0
    <3>1. turn - 1 \in 0..MaxFeedId
      BY <2>2, ScaleFacts
    <3>2. h[turn - 1] = g[turn - 1]
      BY <1>5, <1>6, <3>1
    <3> QED BY <2>2, <3>2 DEF Turn
  <2> QED BY <2>1, <2>2
<1> QED
  BY <1>6, <1>7 DEF Turns

SearchTurns(at) == CHOOSE g : Turns(g, at)

LastOf(at) == SearchTurns(at)[MaxFeedId].lo

LEMMA SearchUnfolds ==
  ASSUME NEW at
  PROVE  FindCloseRound(at) =
           IF latestRoundId = 0 \/ HoldsAt(latestRoundId, at) \/ LastOf(at) = 0 \/ ~HasData(LastOf(at))
             THEN 0 ELSE LastOf(at)
  BY DEF FindCloseRound, LastOf, SearchTurns, Turns, Turn

LEMMA SearchRuns ==
  ASSUME NEW at
  PROVE  \A turn \in 0..MaxFeedId :
           SearchTurns(at)[turn] = Turn(SearchTurns(at), turn, at)
<1> DEFINE g == SearchTurns(at)
<1>1. Turns(g, at)
  BY TurnsExist DEF SearchTurns
<1> HIDE DEF g
<1>2. \A turn \in 0..MaxFeedId : g[turn] = Turn(g, turn, at)
  BY <1>1 DEF Turns
<1> QED
  BY <1>2 DEF g

\* A range that is not down to one id yet loses at least one, and keeps its ends apart.
LEMMA HalveNarrows ==
  ASSUME NEW ids \in Ranges, NEW at, ids.lo < ids.hi
  PROVE  LET half == Halve(ids, at) IN
         /\ half \in Ranges
         /\ half.lo < half.hi
         /\ half.hi - half.lo <= 1 \/ half.hi - half.lo < ids.hi - ids.lo
         /\ ids.lo <= half.lo /\ half.hi <= ids.hi
         /\ half.lo = ids.lo \/ (half.lo > 0 /\ HoldsAt(half.lo, at))
         /\ half.hi = ids.hi \/ (half.hi > 0 /\ ~HoldsAt(half.hi, at))
<1> DEFINE mid == ids.lo + (ids.hi - ids.lo) \div 2
<1>1. /\ ids.lo \in Nat /\ ids.hi \in Nat /\ ids.hi <= MaxFeedId /\ MaxFeedId \in Nat
      /\ ids = [lo |-> ids.lo, hi |-> ids.hi]
  BY ScaleFacts DEF Ranges
<1>2. CASE ids.hi - ids.lo <= 1
  BY <1>1, <1>2 DEF Halve
<1>3. CASE ids.hi - ids.lo > 1
  <2>1. mid \in Nat /\ ids.lo < mid /\ mid < ids.hi
    BY <1>1, <1>3
  <2>2. ~(ids.hi - ids.lo <= 1)
    BY <1>1, <1>3
  <2> HIDE DEF mid
  <2>3. CASE HoldsAt(mid, at)
    <3>1. Halve(ids, at) = [lo |-> mid, hi |-> ids.hi]
      BY <1>1, <2>2, <2>3 DEF Halve, mid
    <3> QED BY <1>1, <2>1, <2>3, <3>1 DEF Ranges
  <2>4. CASE ~HoldsAt(mid, at)
    <3>1. Halve(ids, at) = [lo |-> ids.lo, hi |-> mid]
      BY <1>1, <2>2, <2>4 DEF Halve, mid
    <3> QED BY <1>1, <2>1, <2>4, <3>1 DEF Ranges
  <2> QED BY <2>3, <2>4
<1> QED
  BY <1>1, <1>2, <1>3

\* What the loop keeps: the ends straddle the first id at which HoldsAt fails.
Straddles(ids, at, turn) ==
  /\ ids \in Ranges
  /\ ids.lo < ids.hi
  /\ ids.hi <= latestRoundId
  /\ ids.hi - ids.lo <= 1 \/ ids.hi - ids.lo <= latestRoundId - turn
  /\ ids.lo = 0 \/ (ids.lo > 0 /\ HoldsAt(ids.lo, at))
  /\ ids.hi = latestRoundId \/ (ids.hi > 0 /\ ~HoldsAt(ids.hi, at))

LEMMA LoopKeeps ==
  ASSUME OracleTypeOK, latestRoundId # 0, NEW at, NEW n \in 0..MaxFeedId
  PROVE  Straddles(SearchTurns(at)[n], at, n)
<1> DEFINE g == SearchTurns(at)
           Good == {k \in Nat : k <= MaxFeedId => Straddles(g[k], at, k)}
<1>1. /\ latestRoundId \in Nat /\ latestRoundId <= MaxFeedId /\ MaxFeedId \in Nat
  BY FeedFacts, ScaleFacts
<1>2. \A turn \in 0..MaxFeedId : g[turn] = Turn(g, turn, at)
  BY SearchRuns
<1> HIDE DEF g
<1>3. 0 \in Good
  <2>1. g[0] = [lo |-> 0, hi |-> latestRoundId]
    BY <1>1, <1>2 DEF Turn
  <2> QED BY <1>1, <2>1 DEF Straddles, Ranges
<1>4. ASSUME NEW k \in Nat, k \in Good PROVE k + 1 \in Good
  <2> SUFFICES ASSUME k + 1 <= MaxFeedId PROVE Straddles(g[k + 1], at, k + 1)
    OBVIOUS
  <2> DEFINE ids == g[k]
             half == g[k + 1]
  <2>1. Straddles(ids, at, k)
    BY <1>1, <1>4
  <2>2. half = Halve(ids, at)
    BY <1>1, <1>2 DEF Turn
  <2> HIDE DEF ids, half
  <2>3. /\ ids \in Ranges /\ ids.lo < ids.hi /\ ids.hi <= latestRoundId
    BY <2>1 DEF Straddles
  <2>4. /\ half \in Ranges
        /\ half.lo < half.hi
        /\ half.hi - half.lo <= 1 \/ half.hi - half.lo < ids.hi - ids.lo
        /\ ids.lo <= half.lo /\ half.hi <= ids.hi
        /\ half.lo = ids.lo \/ (half.lo > 0 /\ HoldsAt(half.lo, at))
        /\ half.hi = ids.hi \/ (half.hi > 0 /\ ~HoldsAt(half.hi, at))
    BY <2>2, <2>3, HalveNarrows
  <2>5. /\ ids.lo \in Nat /\ ids.hi \in Nat /\ half.lo \in Nat /\ half.hi \in Nat
    BY <1>1, <2>3, <2>4 DEF Ranges
  <2>6. half.hi - half.lo <= 1 \/ half.hi - half.lo <= latestRoundId - (k + 1)
    BY <1>1, <2>1, <2>4, <2>5 DEF Straddles
  <2>7. half.lo = 0 \/ (half.lo > 0 /\ HoldsAt(half.lo, at))
    BY <2>1, <2>4 DEF Straddles
  <2>8. half.hi = latestRoundId \/ (half.hi > 0 /\ ~HoldsAt(half.hi, at))
    BY <2>1, <2>4 DEF Straddles
  <2>9. half.hi <= latestRoundId
    BY <1>1, <2>3, <2>4, <2>5
  <2>10. Straddles(half, at, k + 1)
    BY <2>4, <2>6, <2>7, <2>8, <2>9 DEF Straddles
  <2> QED BY <2>10 DEF half
<1>5. n \in Good
  <2> HIDE DEF Good
  <2>1. n \in Nat
    BY <1>1
  <2> QED BY <1>3, <1>4, <2>1, NatSetInduction
<1> QED
  BY <1>1, <1>5 DEF g

(***************************************************************************)
(* Where the search ends: next to the first id at which HoldsAt fails, if  *)
(* it fails at the newest (findCloseRound, "Invariant: P(lo) is true,      *)
(* P(hi) is false").                                                       *)
(***************************************************************************)
LEMMA SearchEnds ==
  ASSUME OracleTypeOK, latestRoundId # 0, NEW at, ~HoldsAt(latestRoundId, at)
  PROVE  /\ LastOf(at) \in 0..(latestRoundId - 1)
         /\ LastOf(at) = 0 \/ HoldsAt(LastOf(at), at)
         /\ ~HoldsAt(LastOf(at) + 1, at)
<1> DEFINE ids == SearchTurns(at)[MaxFeedId]
<1>1. latestRoundId \in Nat /\ latestRoundId <= MaxFeedId /\ MaxFeedId \in Nat
  BY FeedFacts, ScaleFacts
<1>2. Straddles(ids, at, MaxFeedId)
  BY <1>1, LoopKeeps
<1>3. LastOf(at) = ids.lo
  BY DEF LastOf
<1> HIDE DEF ids
<1>4. /\ ids.lo \in Nat /\ ids.hi \in Nat /\ ids.lo < ids.hi /\ ids.hi <= latestRoundId
      /\ ids.hi - ids.lo <= 1 \/ ids.hi - ids.lo <= latestRoundId - MaxFeedId
  BY <1>1, <1>2 DEF Straddles, Ranges
<1>5. ids.hi = ids.lo + 1
  BY <1>1, <1>4
<1>6. ~HoldsAt(ids.hi, at)
  BY <1>2 DEF Straddles
<1>7. ids.lo = 0 \/ HoldsAt(ids.lo, at)
  BY <1>2 DEF Straddles
<1> QED
  BY <1>1, <1>3, <1>4, <1>5, <1>6, <1>7

LEMMA FoundIsTyped ==
  ASSUME OracleTypeOK, NEW at
  PROVE  FindCloseRound(at) \in {0} \cup FeedIds
<1>1. CASE latestRoundId = 0 \/ HoldsAt(latestRoundId, at) \/ LastOf(at) = 0 \/ ~HasData(LastOf(at))
  BY <1>1, SearchUnfolds
<1>2. CASE ~(latestRoundId = 0 \/ HoldsAt(latestRoundId, at) \/ LastOf(at) = 0 \/ ~HasData(LastOf(at)))
  <2>1. LastOf(at) \in 0..(latestRoundId - 1) /\ LastOf(at) # 0
    BY <1>2, SearchEnds
  <2>2. LastOf(at) \in FeedIds
    BY <2>1, FeedFacts, ScaleFacts DEF FeedIds
  <2> QED BY <1>2, <2>2, SearchUnfolds
<1> QED
  BY <1>1, <1>2

(***************************************************************************)
(* On a feed without a gap after the closeTime the search returns the one  *)
(* feed round readAt accepts (findCloseRound).                             *)
(***************************************************************************)
LEMMA SearchIsRight ==
  ASSUME OracleTypeOK, FeedInOrder, NEW at \in Times, UnbrokenAfter(at),
         NEW f \in FeedIds, Readable(f, at)
  PROVE  FindCloseRound(at) = f
<1>1. /\ latestRoundId \in Nat /\ latestRoundId <= MaxFeedId
      /\ \A g \in FeedIds : g \in Nat /\ g > 0 /\ feedRounds[g].updatedAt \in Nat
  BY FeedFacts
<1>2. at \in Nat /\ MaxFeedId \in Nat
  BY TimeIsNat, ScaleFacts
<1>3. /\ feedRounds[f].updatedAt # 0 /\ feedRounds[f].updatedAt <= at
      /\ f # MaxFeedId /\ feedRounds[f + 1].updatedAt > at
  BY DEF Readable, Covers, AnswerUsableAt
<1>4. f + 1 \in FeedIds
  BY <1>3, ScaleFacts DEF FeedIds
<1>5. f + 1 <= latestRoundId
  <2>1. ~(f + 1 > latestRoundId)
    BY <1>1, <1>2, <1>3, <1>4 DEF FeedInOrder
  <2> QED BY <1>1, <1>4, <2>1
<1>6. \A g \in 1..latestRoundId : g \in FeedIds
  BY <1>1, <1>2 DEF FeedIds
<1>7. ASSUME NEW g \in 1..latestRoundId, g > f PROVE ~HoldsAt(g, at)
  <2>1. CASE g = f + 1
    <3>1. feedRounds[f + 1].updatedAt # 0 /\ ~(feedRounds[f + 1].updatedAt <= at)
      BY <1>1, <1>2, <1>3, <1>4
    <3> QED BY <2>1, <3>1 DEF HoldsAt, HasData
  <2>2. CASE g # f + 1
    <3>1. f + 1 < g /\ f + 1 \in 1..latestRoundId /\ g \in FeedIds
      BY <1>1, <1>5, <1>6, <1>7, <2>2
    <3>2. HasData(g)
      BY <1>3, <3>1 DEF UnbrokenAfter
    <3>3. feedRounds[f + 1].updatedAt <= feedRounds[g].updatedAt
      BY <1>4, <3>1, <3>2 DEF FeedInOrder, HasData
    <3>4. ~(feedRounds[g].updatedAt <= at)
      BY <1>1, <1>2, <1>3, <1>4, <3>1, <3>3
    <3> QED BY <3>2, <3>4 DEF HoldsAt
  <2> QED BY <2>1, <2>2
<1>8. ASSUME NEW g \in 1..latestRoundId, g <= f PROVE HoldsAt(g, at)
  <2>1. g \in FeedIds
    BY <1>6
  <2>2. CASE g = f
    BY <1>3, <2>2 DEF HoldsAt
  <2>3. CASE g # f
    <3>1. g < f
      BY <1>1, <1>8, <2>1, <2>3
    <3>2. feedRounds[g].updatedAt <= feedRounds[f].updatedAt
      BY <1>3, <2>1, <3>1 DEF FeedInOrder
    <3>3. feedRounds[g].updatedAt <= at
      BY <1>1, <1>2, <1>3, <2>1, <3>2
    <3> QED BY <3>3 DEF HoldsAt
  <2> QED BY <2>2, <2>3
<1>9. latestRoundId # 0 /\ ~HoldsAt(latestRoundId, at)
  BY <1>1, <1>5, <1>7
<1>10. /\ LastOf(at) \in 0..(latestRoundId - 1)
       /\ LastOf(at) = 0 \/ HoldsAt(LastOf(at), at)
       /\ ~HoldsAt(LastOf(at) + 1, at)
  BY <1>9, SearchEnds
<1>11. LastOf(at) = f
  <2>1. ~(LastOf(at) < f)
    BY <1>1, <1>5, <1>8, <1>10
  <2>2. ~(LastOf(at) > f)
    BY <1>1, <1>7, <1>10
  <2> QED BY <1>1, <1>10, <2>1, <2>2
<1> QED
  BY <1>1, <1>3, <1>9, <1>11, SearchUnfolds DEF HasData

-----------------------------------------------------------------------------
(***************************************************************************)
(* Under the screens runs a price market: every step of the desk is a step *)
(* of it or leaves it alone, so what is proved of the market holds here.   *)
(***************************************************************************)
CallTyped(q) ==
  /\ q[1] = "openRound" => /\ q[2] \in Times /\ q[3] \in Times /\ q[4] \in Times
                           /\ q[5] \in Strikes
  /\ q[1] = "resolveRound" => q[2] \in FeedIds
  /\ q[1] = "withdrawFees" => q[2] \in Nat
  /\ q[1] = "push" => q[2] \in Answers

MarketSteps == MarketNext /\ UNCHANGED <<entriesPaused, sequencer>>

LEMMA WithdrawIsStep ==
  ASSUME TypeOK, NEW amount \in Nat, withdrawFees(amount), UNCHANGED feedVars
  PROVE  MarketSteps
<1>1. balance[Market] \in Nat /\ amount <= balance[Market]
  BY AddressesAreDistinct DEF TypeOK, withdrawFees, CanWithdrawFees, CanTransfer
<1>2. amount \in 0..balance[Market]
  BY <1>1
<1>3. MarketNext
  BY <1>2 DEF MarketNext, NextButResolve, Administration
<1> QED
  BY <1>3 DEF MarketSteps, withdrawFees, pauseVars, feedVars

LEMMA PushIsStep ==
  ASSUME NEW price \in Answers, push(price), UNCHANGED vars
  PROVE  MarketSteps
<1>1. MarketNext
  BY DEF MarketNext, OracleNext
<1> QED
  BY <1>1 DEF MarketSteps, push, pushAt, Publish, vars, pauseVars

LEMMA PerformIsStep ==
  ASSUME TypeOK, NEW q, CallTyped(q), Perform(q)
  PROVE  MarketSteps
<1> USE RoundOneExists
<1>1. CASE q[1] = "openRound" /\ openRound(q[2], q[3], q[4], q[5]) /\ UNCHANGED feedVars
  <2>1. MarketNext
    BY <1>1 DEF CallTyped, MarketNext, NextButResolve, Entries, openRound, CanOpen
  <2> QED BY <1>1, <2>1 DEF MarketSteps, openRound, pauseVars, feedVars
<1>2. CASE lockRound(1) /\ UNCHANGED feedVars
  <2>1. MarketNext
    BY <1>2 DEF MarketNext, NextButResolve, Exits
  <2> QED BY <1>2, <2>1 DEF MarketSteps, lockRound, SettlesNothingElse, pauseVars, feedVars
<1>3. CASE (voidUnlockedRound(1) \/ voidUnsettledRound(1)) /\ UNCHANGED feedVars
  <2>1. MarketNext
    BY <1>3 DEF MarketNext, NextButResolve, Exits
  <2> QED
    BY <1>3, <2>1 DEF MarketSteps, voidUnlockedRound, voidUnsettledRound, VoidRound,
                      SettlesNothingElse, pauseVars, feedVars
<1>4. CASE q[1] = "resolveRound" /\ resolveWith(1, q[2]) /\ UNCHANGED feedVars
  <2>1. MarketNext
    BY <1>4 DEF CallTyped, MarketNext
  <2> QED
    BY <1>4, <2>1 DEF MarketSteps, resolveWith, resolveRound, SettlesNothingElse, pauseVars, feedVars
<1>5. CASE q[1] = "withdrawFees" /\ withdrawFees(q[2]) /\ UNCHANGED feedVars
  BY <1>5, WithdrawIsStep DEF CallTyped
<1>6. CASE q[1] = "push" /\ push(q[2]) /\ UNCHANGED vars
  BY <1>6, PushIsStep DEF CallTyped
<1> QED
  BY <1>1, <1>2, <1>3, <1>4, <1>5, <1>6 DEF Perform

LEMMA OpenOffersTyped ==
  ASSUME now \in Times, NEW q \in OpenOffers
  PROVE  /\ CallTyped(q) /\ q[1] = "openRound"
         /\ q[3] > q[2] + EntryCutoff /\ q[4] > q[3]
         /\ q[4] + ResolveDeadline < MaxTime
<1>1. PICK s \in Schedules, strike \in Strikes :
        /\ s.closeTime + ResolveDeadline < MaxTime
        /\ q = <<"openRound", s.openTime, s.lockTime, s.closeTime, strike>>
  BY DEF OpenOffers
<1>2. PICK l \in Leads, e \in Windows, o \in Windows : s = ScheduleFrom(l, e, o)
  BY DEF Schedules
<1>3. Acceptable(s)
  BY DEF Schedules
<1>4. now \in Nat /\ l \in Nat /\ e \in Nat /\ o \in Nat
  BY TimeIsNat, DeskInputs
<1>5. s.openTime \in Nat /\ s.lockTime \in Nat /\ s.closeTime \in Nat
  BY <1>2, <1>4 DEF ScheduleFrom
<1>6. s.openTime <= MaxTime /\ s.lockTime <= MaxTime /\ s.closeTime <= MaxTime
  BY <1>1, <1>3, <1>5, DeskNats DEF Acceptable
<1>7. s.openTime \in Times /\ s.lockTime \in Times /\ s.closeTime \in Times
  BY <1>5, <1>6, DeskNats DEF Times
<1> QED
  BY <1>1, <1>3, <1>7 DEF CallTyped, Acceptable

LEMMA RoundCallsTyped == \A q \in RoundCalls : CallTyped(q)
  BY DEF RoundCalls, CallTyped

LEMMA OthersStep ==
  ASSUME TypeOK, OracleTypeOK, Others
  PROVE  MarketSteps
<1>1. ASSUME NEW q \in OpenOffers \cup RoundCalls, Perform(q) PROVE MarketSteps
  <2>1. CallTyped(q)
    BY OpenOffersTyped, RoundCallsTyped DEF TypeOK
  <2> QED BY <1>1, <2>1, PerformIsStep
<1>2. CASE withdrawFees(protocolFees) /\ UNCHANGED feedVars
  BY <1>2, WithdrawIsStep DEF TypeOK
<1>3. CASE Tick /\ UNCHANGED <<pauseVars, treasury, roundVars, feedVars>>
  <2>1. MarketNext
    BY <1>3 DEF MarketNext, NextButResolve
  <2> QED BY <1>3, <2>1 DEF MarketSteps, pauseVars, feedVars
<1>4. ASSUME NEW side \in Sides, NEW amount \in Amounts, takePosition(Me, 1, side, amount),
             UNCHANGED feedVars
      PROVE  MarketSteps
  <2>1. MarketNext
    BY <1>4, RoundOneExists, DeskInputs DEF MarketNext, NextButResolve, Entries
  <2> QED BY <1>4, <2>1 DEF MarketSteps, takePosition, TakePosition, pauseVars, feedVars
<1>5. ASSUME NEW answer \in Answers, push(answer), UNCHANGED vars PROVE MarketSteps
  BY <1>5, PushIsStep
<1>6. ASSUME NEW answer \in Answers, NEW skipped \in Skips, transmit(answer, skipped), UNCHANGED vars
      PROVE  MarketSteps
  <2>1. MarketNext
    BY <1>6 DEF MarketNext, OracleNext
  <2> QED BY <1>6, <2>1 DEF MarketSteps, transmit, Publish, vars, pauseVars
<1>7. CASE setFeedPaused(~feedPaused) /\ UNCHANGED vars
  <2>1. MarketNext
    BY <1>7 DEF MarketNext, OracleNext
  <2> QED BY <1>7, <2>1 DEF MarketSteps, setFeedPaused, vars, pauseVars
<1>8. 0 \in Skips
  BY AdapterAccepts
<1> QED
  BY <1>1, <1>2, <1>3, <1>4, <1>5, <1>6, <1>7, <1>8 DEF Others

LEMMA DeskStepIsMarketStep ==
  ASSUME TypeOK, OracleTypeOK, request # NoRequest => CallTyped(request), [DeskNext]_deskVars
  PROVE  [MarketNext]_marketVars /\ UNCHANGED <<entriesPaused, sequencer>>
<1>1. UNCHANGED marketVars => UNCHANGED <<entriesPaused, sequencer>>
  BY DEF marketVars, vars, pauseVars, feedVars
<1>2. CASE UNCHANGED deskVars
  BY <1>1, <1>2 DEF deskVars
<1>3. CASE Others
  BY <1>3, OthersStep DEF MarketSteps
<1>4. CASE Mined
  BY <1>1, <1>4, PerformIsStep DEF Mined, MarketSteps
<1>5. CASE RoundsPoll \/ FeesPoll \/ SpotPoll \/ PrintPoll \/ Find \/ Press
  BY <1>1, <1>5 DEF RoundsPoll, FeesPoll, SpotPoll, PrintPoll, Find, Press
<1> QED
  BY <1>2, <1>3, <1>4, <1>5 DEF DeskNext

-----------------------------------------------------------------------------
(***************************************************************************)
(* What time does to the console's round and to the feed.                  *)
(***************************************************************************)
SameTerms(r, s) ==
  /\ r.openTime = s.openTime /\ r.lockTime = s.lockTime
  /\ r.closeTime = s.closeTime /\ r.lockPrice = s.lockPrice

\* Once a round is open its terms stand, and it does not open again.
LEMMA TermsKept ==
  ASSUME TypeOK, ScheduledInOrder, [Step]_vars, NEW id \in RoundIds,
         rounds[id].status # "None"
  PROVE  /\ SameTerms(rounds'[id], rounds[id])
         /\ rounds'[id].status # "None"
         /\ rounds'[id].status = "Open" => rounds[id].status = "Open"
<1>1. CASE Untouched(id)
  BY <1>1 DEF Untouched, SameTerms
<1>2. CASE Opened(id)
  <2>1. id > roundCount
    BY <1>2, InputsAreNaturals DEF Opened, TypeOK
  <2> QED BY <2>1 DEF ScheduledInOrder
<1>3. CASE Staked(id)
  BY <1>3, StakeEffect
     DEF Staked, takePosition, takePositionFor, TakePosition, TypeOK, Round, SameTerms
<1>4. CASE lockRound(id)
  BY <1>4 DEF lockRound, TypeOK, Round, SameTerms
<1>5. CASE Voided(id)
  BY <1>5 DEF Voided, VoidRound, TypeOK, Round, SameTerms
<1>6. ASSUME NEW read \in OracleReads, resolveRound(id, read)
      PROVE  SameTerms(rounds'[id], rounds[id]) /\ rounds'[id].status \in {"Void", "Resolved"}
  <2>1. CASE read.price = rounds[id].lockPrice
    BY <1>6, <2>1 DEF resolveRound, TypeOK, Round, SameTerms
  <2>2. CASE read.price # rounds[id].lockPrice
    BY <1>6, <2>2 DEF resolveRound, TypeOK, Round, SameTerms
  <2> QED BY <2>1, <2>2
<1> QED
  BY <1>1, <1>2, <1>3, <1>4, <1>5, <1>6, RoundEvolves DEF Resolved

\* A round stays open until its lock time.
LEMMA LeavesOpenOnTime ==
  ASSUME TypeOK, [Step]_vars, NEW id \in RoundIds,
         rounds[id].status = "Open", rounds'[id].status # "Open"
  PROVE  now >= rounds[id].lockTime
<1>1. CASE lockRound(id)
  BY <1>1 DEF lockRound, CanLock
<1>2. CASE Voided(id)
  <2>1. now > rounds[id].lockTime + LockWindow
    BY <1>2 DEF Voided, CanVoidUnsettled, CanVoidUnlocked
  <2>2. now \in Nat /\ rounds[id].lockTime \in Nat /\ LockWindow \in Nat
    BY TimeIsNat, DeskNats DEF TypeOK, Round
  <2> QED BY <2>1, <2>2
<1>3. CASE Resolved(id)
  BY <1>3 DEF Resolved, resolveRound, CanResolve
<1> QED
  BY <1>1, <1>2, <1>3, RoundEvolves, StakeEffect DEF Untouched, Opened

\* The clock, as the market's steps move it.
LEMMA ClockAdvances ==
  ASSUME TypeOK, OracleTypeOK, [MarketNext]_marketVars
  PROVE  now \in Nat /\ now' \in Nat /\ now <= now'
<1>1. now \in Nat
  BY TimeIsNat DEF TypeOK
<1>2. now' \in {now, now + 1}
  BY MarketStepIsStep, TimeAdvances
<1> QED
  BY <1>1, <1>2

\* What the feed has published it keeps.
LEMMA FeedKept ==
  ASSUME now \in Times, OracleTypeOK, FeedInOrder, [MarketNext]_marketVars,
         NEW f \in FeedIds, feedRounds[f].updatedAt # 0
  PROVE  feedRounds'[f] = feedRounds[f]
<1>1. ASSUME NEW id, NEW at, Appends(id, at) PROVE feedRounds'[f] = feedRounds[f]
  <2>1. f # id
    BY <1>1 DEF Appends, FeedInOrder
  <2> QED BY <1>1, <2>1 DEF Appends
<1> QED
  BY <1>1, FeedOrderStep

LEMMA PublisherKept == ASSUME [MarketNext]_marketVars PROVE publisher' = publisher
<1>1. CASE UNCHANGED feedVars
  BY <1>1 DEF feedVars
<1>2. CASE OracleNext
  BY <1>2 DEF OracleNext, push, pushAt, transmit, Publish, setFeedPaused, sequencerReports
<1> QED
  BY <1>1, <1>2 DEF MarketNext, marketVars

LEMMA CoversKept ==
  ASSUME now \in Times, OracleTypeOK, FeedInOrder, [MarketNext]_marketVars,
         NEW at \in Times, NEW f \in FeedIds, Covers(f, at)
  PROVE  Covers(f, at)'
<1>1. /\ feedRounds[f].updatedAt # 0 /\ f # MaxFeedId /\ feedRounds[f + 1].updatedAt > at
  BY DEF Covers, AnswerUsableAt
<1>2. f + 1 \in FeedIds
  BY <1>1, ScaleFacts DEF FeedIds
<1>3. feedRounds[f + 1].updatedAt # 0
  <2>1. at \in Nat /\ feedRounds[f + 1].updatedAt \in Nat
    BY <1>2, TimeIsNat, FeedFacts
  <2> QED BY <1>1, <2>1
<1>4. feedRounds'[f] = feedRounds[f] /\ feedRounds'[f + 1] = feedRounds[f + 1]
  BY <1>1, <1>2, <1>3, FeedKept
<1> QED
  BY <1>4 DEF Covers, AnswerUsableAt

-----------------------------------------------------------------------------
(***************************************************************************)
(* What the screens hold is the past of what the chain holds.              *)
(***************************************************************************)

\* What a live button was drawn from and time cannot undo.
Standing(q) ==
  \/ /\ q[1] = "openRound"
     /\ q[2] \in Times /\ q[3] \in Times /\ q[4] \in Times /\ q[5] \in Strikes
     /\ q[3] > q[2] + EntryCutoff /\ q[4] > q[3]
     /\ q[4] + ResolveDeadline < MaxTime
  \/ q[1] = "lockRound" /\ rounds[1].status # "None" /\ now >= rounds[1].lockTime
  \/ /\ q[1] = "voidUnlockedRound"
     /\ rounds[1].status # "None" /\ now > rounds[1].lockTime + LockWindow
  \/ q[1] = "voidUnsettledRound" /\ rounds[1].status # "None" /\ PastResolveDeadline(1)
  \/ /\ q[1] = "resolveRound"
     /\ rounds[1].status # "None" /\ now >= rounds[1].closeTime
     /\ q[2] \in FeedIds /\ Covers(q[2], rounds[1].closeTime)
  \/ q[1] = "withdrawFees" /\ q[2] \in Nat /\ q[2] # 0
  \/ q[1] = "push" /\ publisher = "demo" /\ q[2] \in Answers /\ q[2] > 0

Backed(q) == Standing(q) /\ (IsOwnerOnly(q[1]) => operator = Owner)

RequestIsBacked == request # NoRequest => Backed(request)

\* A round leaves the entry phase no earlier than its lock time.
LocksOnTime == rounds[1].status \notin {"None", "Open"} => now >= rounds[1].lockTime

SeenIsPast ==
  /\ seen.round.status # "None" =>
       rounds[1].status # "None" /\ SameTerms(seen.round, rounds[1])
  /\ seen.round.status \in Terminal => seen.round = rounds[1]
  /\ seen.phase = "Open" => seen.round.status = "Open" /\ seen.round.openTime <= now

SpotIsRead ==
  spot # NoSpot =>
    /\ spot.id \in FeedIds
    /\ feedRounds[spot.id].updatedAt # 0
    /\ spot.price = feedRounds[spot.id].answer * ScaleUp

FoundIsAnswerable ==
  found # 0 =>
    /\ rounds[1].status # "None"
    /\ found \in FeedIds
    /\ Covers(found, rounds[1].closeTime)

CardHasARound == page = "card" => rounds[1].status # "None" /\ seen.round.status # "None"

Chain == MarketIInv /\ MoneyInv /\ ~entriesPaused /\ sequencer.status = "none" /\ LocksOnTime

\* The inductive invariant.
ScreensInv ==
  /\ Chain
  /\ SeenIsPast
  /\ seenFees \in Nat
  /\ SpotIsRead
  /\ FoundIsAnswerable
  /\ CardHasARound
  /\ RequestIsBacked

LEMMA ChainTypes ==
  ASSUME Chain
  PROVE  /\ TypeOK /\ OracleTypeOK /\ FeedInOrder /\ ScheduledInOrder /\ now \in Times
         /\ rounds[1] \in Round
         /\ now \in Nat /\ rounds[1].openTime \in Nat /\ rounds[1].lockTime \in Nat
         /\ rounds[1].closeTime \in Nat /\ rounds[1].closeTime \in Times
         /\ rounds[1].lockPrice \in Nat /\ rounds[1].pool \in [Sides -> Nat]
<1>1. TypeOK /\ OracleTypeOK /\ FeedInOrder /\ ScheduledInOrder
  BY DEF Chain, MarketIInv, IInv
<1>2. now \in Times /\ rounds[1] \in Round
  BY <1>1, RoundOneExists DEF TypeOK
<1>3. rounds[1].openTime \in Times /\ rounds[1].lockTime \in Times /\ rounds[1].closeTime \in Times
  BY <1>2 DEF Round
<1>4. rounds[1].lockPrice \in Nat /\ rounds[1].pool \in [Sides -> Nat]
  BY <1>2 DEF Round
<1> QED
  BY <1>1, <1>2, <1>3, <1>4, TimeIsNat

\* A step leaves the terms of the round standing, if there is one.
LEMMA RoundOneKept ==
  ASSUME Chain, [MarketNext]_marketVars, rounds[1].status # "None"
  PROVE  /\ SameTerms(rounds'[1], rounds[1])
         /\ rounds'[1].status # "None"
         /\ rounds'[1].status = "Open" => rounds[1].status = "Open"
         /\ rounds[1].status \in Terminal => rounds'[1] = rounds[1]
         /\ now \in Nat /\ now' \in Nat /\ now <= now'
<1>1. TypeOK /\ OracleTypeOK /\ ScheduledInOrder
  BY ChainTypes
<1>2. [Step]_vars
  BY <1>1, MarketStepIsStep
<1>3. now \in Nat /\ now' \in Nat /\ now <= now'
  BY <1>1, ClockAdvances
<1>4. rounds[1].status \in Terminal => rounds'[1] = rounds[1]
  BY <1>1, <1>2, RoundOneExists, FrozenStep DEF Chain, MarketIInv
<1> QED
  BY <1>1, <1>2, <1>3, <1>4, RoundOneExists, TermsKept

LEMMA LocksOnTimeStep ==
  ASSUME Chain, [MarketNext]_marketVars
  PROVE  LocksOnTime'
<1>1. TypeOK /\ OracleTypeOK /\ ScheduledInOrder /\ rounds[1].lockTime \in Nat
  BY ChainTypes
<1>2. [Step]_vars
  BY <1>1, MarketStepIsStep
<1>3. CASE rounds[1].status = "None"
  <2>1. rounds'[1].status \in {"None", "Open"}
    BY <1>1, <1>2, <1>3, RoundOneExists, RoundEvolves, StakeEffect
       DEF Untouched, Opened, lockRound, CanLock, Voided, Resolved, resolveRound, CanResolve
  <2> QED BY <2>1 DEF LocksOnTime
<1>4. CASE rounds[1].status # "None"
  <2>1. /\ SameTerms(rounds'[1], rounds[1])
        /\ now \in Nat /\ now' \in Nat /\ now <= now'
    BY <1>4, RoundOneKept
  <2>2. rounds'[1].status # "Open" => now >= rounds[1].lockTime
    BY <1>1, <1>2, <1>4, RoundOneExists, LeavesOpenOnTime DEF Chain, LocksOnTime
  <2> QED BY <1>1, <2>1, <2>2 DEF LocksOnTime, SameTerms
<1> QED
  BY <1>3, <1>4

LEMMA ChainStep ==
  ASSUME Chain, [MarketNext]_marketVars, UNCHANGED <<entriesPaused, sequencer>>
  PROVE  Chain'
<1>1. MarketIInv'
  BY MarketStepIInv DEF Chain
<1>2. MoneyInv'
  BY ChainTypes, MarketStepIsStep, StepMoney DEF Chain
<1> QED
  BY <1>1, <1>2, LocksOnTimeStep DEF Chain

-----------------------------------------------------------------------------
(***************************************************************************)
(* What a button was drawn from stands until it is mined.                  *)
(***************************************************************************)
LEMMA StandingKept ==
  ASSUME Chain, [MarketNext]_marketVars, NEW q, Standing(q)
  PROVE  Standing(q)'
<1>1. /\ OracleTypeOK /\ FeedInOrder /\ now \in Times
      /\ rounds[1].lockTime \in Nat
      /\ rounds[1].closeTime \in Nat /\ rounds[1].closeTime \in Times
  BY ChainTypes
<1>2. CASE q[1] \in {"openRound", "withdrawFees"}
  BY <1>2 DEF Standing
<1>3. CASE q[1] = "push"
  BY <1>3, PublisherKept DEF Standing
<1>4. ASSUME rounds[1].status # "None"
      PROVE  /\ rounds'[1].lockTime = rounds[1].lockTime
             /\ rounds'[1].closeTime = rounds[1].closeTime
             /\ rounds'[1].status # "None"
             /\ now \in Nat /\ now' \in Nat /\ now <= now'
  BY <1>4, RoundOneKept DEF SameTerms
<1>5. CASE q[1] = "lockRound"
  BY <1>1, <1>4, <1>5 DEF Standing
<1>6. CASE q[1] = "voidUnlockedRound"
  BY <1>1, <1>4, <1>6, DeskNats DEF Standing
<1>7. CASE q[1] = "voidUnsettledRound"
  BY <1>1, <1>4, <1>7, DeskNats DEF Standing, PastResolveDeadline
<1>8. CASE q[1] = "resolveRound"
  <2>1. rounds[1].status # "None" /\ now >= rounds[1].closeTime /\ q[2] \in FeedIds
        /\ Covers(q[2], rounds[1].closeTime)
    BY <1>8 DEF Standing
  <2>2. rounds'[1].closeTime = rounds[1].closeTime /\ rounds'[1].status # "None"
        /\ now' >= rounds[1].closeTime
    BY <1>1, <1>4, <2>1
  <2>3. \E at \in Times : at = rounds[1].closeTime
    BY <1>1
  <2>4. PICK at \in Times : at = rounds[1].closeTime
    BY <2>3
  <2>5. Covers(q[2], at)'
    BY <1>1, <2>1, <2>4, CoversKept
  <2>6. Covers(q[2], rounds[1].closeTime)'
    BY <2>2, <2>4, <2>5
  <2> QED BY <1>8, <2>1, <2>2, <2>6 DEF Standing
<1> QED
  BY <1>2, <1>3, <1>5, <1>6, <1>7, <1>8 DEF Standing

LEMMA StandingIsTyped == ASSUME NEW q, Standing(q) PROVE CallTyped(q)
  BY DEF Standing, CallTyped

\* A live button of a round was drawn from a read of it that still tells its terms.
LEMMA RowOffersStand ==
  ASSUME ScreensInv, NEW q \in RowOffers(found)
  PROVE  Standing(q)
<1> DEFINE r == seen.round
<1>1. /\ rounds[1].lockTime \in Nat /\ rounds[1].closeTime \in Nat /\ now \in Nat
  BY ChainTypes DEF ScreensInv
<1>2. ASSUME r.status # "None"
      PROVE  /\ rounds[1].status # "None"
             /\ r.lockTime = rounds[1].lockTime /\ r.closeTime = rounds[1].closeTime
  BY <1>2 DEF ScreensInv, SeenIsPast, SameTerms
<1> HIDE DEF r
<1>3. CASE r.status = "Open" /\ now >= r.lockTime /\ now > r.lockTime + LockWindow
  <2>1. q = <<"voidUnlockedRound">>
    BY <1>3 DEF RowOffers, ActionFor, r
  <2> QED BY <1>2, <1>3, <2>1 DEF Standing
<1>4. CASE r.status = "Open" /\ now >= r.lockTime /\ ~(now > r.lockTime + LockWindow)
  <2>1. q = <<"lockRound">>
    BY <1>4 DEF RowOffers, ActionFor, r
  <2> QED BY <1>2, <1>4, <2>1 DEF Standing
<1>5. CASE r.status = "Locked" /\ now >= r.closeTime /\ now > r.closeTime + ResolveDeadline
  <2>1. q = <<"voidUnsettledRound">>
    BY <1>5 DEF RowOffers, ActionFor, r
  <2> QED BY <1>2, <1>5, <2>1 DEF Standing, PastResolveDeadline
<1>6. CASE r.status = "Locked" /\ now >= r.closeTime /\ ~(now > r.closeTime + ResolveDeadline)
  <2>1. q = <<"resolveRound", found>> /\ found # 0
    BY <1>6 DEF RowOffers, ActionFor, r
  <2>2. found \in FeedIds /\ Covers(found, rounds[1].closeTime)
    BY <2>1 DEF ScreensInv, FoundIsAnswerable
  <2> QED BY <1>2, <1>6, <2>1, <2>2 DEF Standing
<1>7. CASE ~(r.status = "Open" /\ now >= r.lockTime) /\ ~(r.status = "Locked" /\ now >= r.closeTime)
  BY <1>7 DEF RowOffers, ActionFor, r
<1> QED
  BY <1>3, <1>4, <1>5, <1>6, <1>7

LEMMA OffersAreBacked ==
  ASSUME ScreensInv, NEW q \in Offers
  PROVE  Backed(q)
<1>1. IsOwnerOnly(q[1]) => operator = Owner
  BY DEF Offers
<1>2. CASE q \in RowOffers(found)
  BY <1>1, <1>2, RowOffersStand DEF Backed
<1>3. CASE q \in OpenOffers
  <2>1. now \in Times
    BY ChainTypes DEF ScreensInv
  <2>2. /\ CallTyped(q) /\ q[1] = "openRound"
        /\ q[3] > q[2] + EntryCutoff /\ q[4] > q[3]
        /\ q[4] + ResolveDeadline < MaxTime
    BY <1>3, <2>1, OpenOffersTyped
  <2> QED BY <1>1, <2>2 DEF Backed, Standing, CallTyped
<1>4. CASE q \in FeeOffers
  <2>1. PICK amount \in 1..seenFees : q = <<"withdrawFees", amount>>
    BY <1>4 DEF FeeOffers
  <2>2. amount \in Nat /\ amount # 0
    BY <2>1 DEF ScreensInv
  <2> QED BY <1>1, <2>1, <2>2 DEF Backed, Standing
<1>5. CASE q \in PushOffers
  <2>1. publisher = "demo" /\ \E price \in Answers : price > 0 /\ q = <<"push", price>>
    BY <1>5 DEF PushOffers
  <2> QED BY <1>1, <2>1 DEF Backed, Standing
<1> QED
  BY <1>2, <1>3, <1>4, <1>5 DEF Offers

-----------------------------------------------------------------------------
(***************************************************************************)
(* One lemma per thing a screen holds: the chain moves on under it, or its *)
(* own poll replaces it.                                                   *)
(***************************************************************************)
LEMMA SeenStays ==
  ASSUME Chain, SeenIsPast, [MarketNext]_marketVars, UNCHANGED seen
  PROVE  SeenIsPast'
<1>1. CASE rounds[1].status = "None"
  <2>1. seen.round.status = "None"
    BY <1>1 DEF SeenIsPast
  <2> QED BY <2>1 DEF SeenIsPast, Terminal
<1>2. CASE rounds[1].status # "None"
  <2>1. /\ SameTerms(rounds'[1], rounds[1])
        /\ rounds'[1].status # "None"
        /\ rounds[1].status \in Terminal => rounds'[1] = rounds[1]
        /\ now \in Nat /\ now' \in Nat /\ now <= now'
    BY <1>2, RoundOneKept
  <2>2. rounds[1].openTime \in Nat
    BY ChainTypes
  <2>3. seen.phase = "Open" => seen.round.status = "Open" /\ seen.round.openTime <= now'
    <3> SUFFICES ASSUME seen.phase = "Open"
                 PROVE  seen.round.status = "Open" /\ seen.round.openTime <= now'
      OBVIOUS
    <3>1. seen.round.status = "Open" /\ seen.round.openTime <= now
      BY DEF SeenIsPast
    <3>2. seen.round.openTime \in Nat
      BY <2>2, <3>1 DEF SeenIsPast, SameTerms
    <3> QED BY <2>1, <3>1, <3>2
  <2>4. seen.round.status # "None" => SameTerms(seen.round, rounds'[1])
    BY <2>1 DEF SeenIsPast, SameTerms
  <2>5. seen.round.status \in Terminal => seen.round = rounds'[1]
    BY <2>1 DEF SeenIsPast
  <2> QED BY <2>1, <2>3, <2>4, <2>5 DEF SeenIsPast
<1> QED
  BY <1>1, <1>2

\* Only an open round that takes entries is read as one.
LEMMA OpenPhaseIsOpen ==
  ASSUME NEW id, phaseOf(id) = "Open"
  PROVE  rounds[id].status = "Open" /\ rounds[id].openTime <= now
<1>1. CASE rounds[id].status = "Open"
  <2>1. entryIsOpen(id)
    BY <1>1 DEF phaseOf
  <2> QED BY <1>1, <2>1 DEF entryIsOpen
<1>2. CASE rounds[id].status = "Locked"
  BY <1>2 DEF phaseOf
<1>3. CASE rounds[id].status # "Open" /\ rounds[id].status # "Locked"
  BY <1>3 DEF phaseOf
<1> QED
  BY <1>1, <1>2, <1>3

NowIsSeen == seen.round = rounds[1] /\ seen.phase = phaseOf(1)

LEMMA FreshReadIsPast == NowIsSeen => SeenIsPast
  BY OpenPhaseIsOpen DEF NowIsSeen, SeenIsPast, SameTerms

LEMMA ReadIsFresh ==
  ASSUME RoundsPoll
  PROVE  SeenIsPast' /\ seen'.round = rounds[1]
<1>1. NowIsSeen'
  <2>1. seen' = RoundNow /\ UNCHANGED <<rounds, now>>
    BY DEF RoundsPoll, marketVars, vars, roundVars
  <2>2. seen'.round = rounds'[1] /\ seen'.phase = phaseOf(1)
    BY <2>1 DEF RoundNow
  <2>3. phaseOf(1)' = phaseOf(1)
    BY <2>1 DEF phaseOf, entryIsOpen, CutoffAt
  <2> QED BY <2>2, <2>3 DEF NowIsSeen
<1>2. NowIsSeen' => SeenIsPast'
  BY FreshReadIsPast, PTL
<1>3. seen'.round = rounds[1]
  BY DEF RoundsPoll, RoundNow
<1> QED
  BY <1>1, <1>2, <1>3

LEMMA SpotStays ==
  ASSUME Chain, SpotIsRead, [MarketNext]_marketVars, UNCHANGED spot
  PROVE  SpotIsRead'
<1>1. now \in Times /\ OracleTypeOK /\ FeedInOrder
  BY ChainTypes
<1>2. ASSUME spot # NoSpot PROVE feedRounds'[spot.id] = feedRounds[spot.id]
  <2>1. PICK f \in FeedIds : f = spot.id /\ feedRounds[f].updatedAt # 0
    BY <1>2 DEF SpotIsRead
  <2>2. feedRounds'[f] = feedRounds[f]
    BY <1>1, <2>1, FeedKept
  <2> QED BY <2>1, <2>2
<1> QED
  BY <1>2 DEF SpotIsRead

LEMMA SpotPollReads ==
  ASSUME Chain, SpotPoll
  PROVE  SpotIsRead'
<1>1. UNCHANGED feedRounds /\ spot' = ReadLatest
  BY DEF SpotPoll, marketVars, feedVars
<1>2. CASE ReadLatest # NoSpot
  <2>1. /\ latestRoundId # 0 /\ AnswerUsableAt(latestRoundId, now)
        /\ ReadLatest = [price |-> feedRounds[latestRoundId].answer * ScaleUp, id |-> latestRoundId]
    BY <1>2 DEF ReadLatest
  <2>2. latestRoundId \in FeedIds
    BY <2>1, ChainTypes, FeedFacts, ScaleFacts DEF FeedIds
  <2> QED BY <1>1, <2>1, <2>2 DEF SpotIsRead, AnswerUsableAt
<1> QED
  BY <1>1, <1>2 DEF SpotIsRead

LEMMA FoundStays ==
  ASSUME Chain, FoundIsAnswerable, [MarketNext]_marketVars, UNCHANGED found
  PROVE  FoundIsAnswerable'
<1> SUFFICES ASSUME found # 0
             PROVE  /\ rounds'[1].status # "None"
                    /\ Covers(found, rounds[1].closeTime)'
  BY DEF FoundIsAnswerable
<1>1. /\ rounds[1].status # "None" /\ found \in FeedIds
      /\ Covers(found, rounds[1].closeTime)
  BY DEF FoundIsAnswerable
<1>2. /\ now \in Times /\ OracleTypeOK /\ FeedInOrder /\ rounds[1].closeTime \in Times
  BY ChainTypes
<1>3. rounds'[1].status # "None" /\ rounds'[1].closeTime = rounds[1].closeTime
  BY <1>1, RoundOneKept DEF SameTerms
<1>4. PICK f \in FeedIds, at \in Times : f = found /\ at = rounds[1].closeTime
  BY <1>1, <1>2
<1>5. Covers(f, at)'
  BY <1>1, <1>2, <1>4, CoversKept
<1> QED
  BY <1>3, <1>4, <1>5

LEMMA FindFinds ==
  ASSUME Chain, SeenIsPast, Find
  PROVE  FoundIsAnswerable'
<1>1. /\ UNCHANGED <<rounds, feedRounds>> /\ found' = SearchResult
      /\ ActionFor(seen.round) = "resolveRound"
  BY DEF Find, marketVars, vars, roundVars, feedVars
<1> SUFFICES ASSUME SearchResult # 0
             PROVE  /\ rounds[1].status # "None" /\ SearchResult \in FeedIds
                    /\ Covers(SearchResult, rounds[1].closeTime)
  BY <1>1 DEF FoundIsAnswerable, Covers, AnswerUsableAt
<1>2. seen.round.status = "Locked"
  BY <1>1 DEF ActionFor
<1>3. rounds[1].status # "None" /\ seen.round.closeTime = rounds[1].closeTime
  BY <1>2 DEF SeenIsPast, SameTerms
<1>4. /\ SearchResult = FindCloseRound(seen.round.closeTime)
      /\ ReadAt(SearchResult, seen.round.closeTime).ok
  BY DEF SearchResult
<1>5. SearchResult \in FeedIds
  BY <1>4, ChainTypes, FoundIsTyped
<1>6. Readable(SearchResult, seen.round.closeTime)
  BY <1>4 DEF ReadAt
<1> QED
  BY <1>3, <1>5, <1>6 DEF Readable, Covers

LEMMA BackedKept ==
  ASSUME Chain, [MarketNext]_marketVars, UNCHANGED <<request, operator>>, RequestIsBacked
  PROVE  RequestIsBacked'
<1>1. PICK q : q = request
  OBVIOUS
<1>2. Standing(q) => Standing(q)'
  BY StandingKept
<1> QED
  BY <1>1, <1>2 DEF RequestIsBacked, Backed

LEMMA PressBacks ==
  ASSUME ScreensInv, Press
  PROVE  RequestIsBacked'
<1> PICK q \in Offers : q = request'
  BY DEF Press
<1>1. Backed(q)
  BY OffersAreBacked
<1>2. UNCHANGED <<marketVars, operator>> /\ request' = q
  BY DEF Press
<1>3. Backed(q)'
  BY <1>1, <1>2 DEF Backed, Standing, Covers, AnswerUsableAt, PastResolveDeadline,
                    marketVars, vars, roundVars, feedVars
<1> QED
  BY <1>2, <1>3 DEF RequestIsBacked

\* Which of the screen's reads a step leaves alone.
LEMMA ReadsStay ==
  ASSUME [DeskNext]_deskVars
  PROVE  /\ UNCHANGED <<page, operator>>
         /\ UNCHANGED seen \/ RoundsPoll
         /\ UNCHANGED seenFees \/ FeesPoll
         /\ UNCHANGED spot \/ SpotPoll
         /\ UNCHANGED found \/ Find
         /\ UNCHANGED request \/ request' = NoRequest \/ Press
<1>1. CASE Others \/ UNCHANGED deskVars
  BY <1>1 DEF Others, deskVars, screenVars
<1>2. CASE RoundsPoll \/ FeesPoll \/ SpotPoll \/ PrintPoll \/ Find
  BY <1>2 DEF RoundsPoll, FeesPoll, SpotPoll, PrintPoll, Find
<1>3. CASE Mined
  BY <1>3 DEF Mined
<1>4. Press => UNCHANGED <<page, operator, seen, seenFees, spot, found>>
  BY DEF Press
<1> QED
  BY <1>1, <1>2, <1>3, <1>4 DEF DeskNext

LEMMA ScreensStep == ScreensInv /\ [DeskNext]_deskVars => ScreensInv'
<1> SUFFICES ASSUME ScreensInv, [DeskNext]_deskVars PROVE ScreensInv'
  OBVIOUS
<1>1. TypeOK /\ OracleTypeOK /\ Chain
  BY ChainTypes DEF ScreensInv
<1>2. request # NoRequest => CallTyped(request)
  <2>1. PICK q : q = request
    OBVIOUS
  <2> QED BY <2>1, StandingIsTyped DEF ScreensInv, RequestIsBacked, Backed
<1>3. [MarketNext]_marketVars /\ UNCHANGED <<entriesPaused, sequencer>>
  BY <1>1, <1>2, DeskStepIsMarketStep
<1>4. Chain'
  BY <1>1, <1>3, ChainStep
<1>5. /\ UNCHANGED <<page, operator>>
      /\ UNCHANGED seen \/ RoundsPoll
      /\ UNCHANGED seenFees \/ FeesPoll
      /\ UNCHANGED spot \/ SpotPoll
      /\ UNCHANGED found \/ Find
      /\ UNCHANGED request \/ request' = NoRequest \/ Press
  BY ReadsStay
<1>6. SeenIsPast'
  BY <1>1, <1>3, <1>5, SeenStays, ReadIsFresh DEF ScreensInv
<1>7. seenFees' \in Nat
  BY <1>1, <1>5 DEF ScreensInv, FeesPoll, TypeOK
<1>8. SpotIsRead'
  BY <1>1, <1>3, <1>5, SpotStays, SpotPollReads DEF ScreensInv
<1>9. FoundIsAnswerable'
  BY <1>1, <1>3, <1>5, FoundStays, FindFinds DEF ScreensInv
<1>10. CardHasARound'
  <2>1. rounds[1].status # "None" => rounds'[1].status # "None"
    BY <1>1, <1>3, RoundOneKept
  <2>2. seen' = seen \/ seen'.round = rounds[1]
    BY <1>5, ReadIsFresh
  <2> QED BY <1>5, <2>1, <2>2 DEF ScreensInv, CardHasARound
<1>11. RequestIsBacked'
  <2>1. CASE UNCHANGED request
    BY <1>1, <1>3, <1>5, <2>1, BackedKept DEF ScreensInv
  <2>2. CASE request' = NoRequest
    BY <2>2 DEF RequestIsBacked
  <2>3. CASE Press
    BY <2>3, PressBacks
  <2> QED BY <1>5, <2>1, <2>2, <2>3
<1> QED
  BY <1>4, <1>6, <1>7, <1>8, <1>9, <1>10, <1>11 DEF ScreensInv

-----------------------------------------------------------------------------
(***************************************************************************)
(* The clock starts on a market that keeps its books: nothing open yet, or *)
(* one round open with what one holder put on it.                          *)
(***************************************************************************)
LEMMA SumOfOne ==
  ASSUME NEW f, NEW S, IsFiniteSet(S), NEW y \in S, f[y] \in Int,
         \A x \in S : x # y => f[x] = 0
  PROVE  SumFunctionOnSet(f, S) = f[y]
<1>1. IntOn(f, S)
  BY DEF IntOn
<1>2. SumFunctionOnSet(f, S) = f[y] + SumFunctionOnSet(f, S \ {y})
  BY <1>1, SumRemoves
<1>3. SumFunctionOnSet(f, S \ {y}) = 0
  <2>1. IsFiniteSet(S \ {y})
    BY FS_RemoveElement
  <2>2. \A x \in S \ {y} : f[x] = 0
    OBVIOUS
  <2> QED BY <2>1, <2>2, SumOfZeros
<1> QED
  BY <1>2, <1>3

\* What every start of the clock has in common.
Fresh ==
  /\ now = 0
  /\ PauseInit
  /\ TreasuryInit
  /\ claimed = [id \in RoundIds |-> [u \in Users |-> FALSE]]
  /\ settlementSinkOf = [id \in RoundIds |-> [u \in Users |-> ZeroAddress]]
  /\ isRouter = [r \in Routers |-> FALSE]
  /\ protocolFees = 0
  /\ OracleInit

LEMMA FreshMarket ==
  ASSUME Fresh, NotOpenYet
  PROVE  MarketIInv /\ MoneyInv /\ LocksOnTime /\ rounds[1].status = "None"
<1>1. Init /\ MarketInit
  BY DEF Fresh, NotOpenYet, Init, MarketInit
<1>2. rounds[1].status = "None"
  BY RoundOneExists DEF NotOpenYet, NoRound
<1> QED
  BY <1>1, <1>2, MarketInitIInv, InitMoney DEF LocksOnTime

\* A schedule and stakes a console could have opened with.
Opens(s, pool) ==
  /\ s \in [openTime: Times, lockTime: Times, closeTime: Times]
  /\ s.lockTime > s.openTime + EntryCutoff
  /\ s.closeTime > s.lockTime
  /\ pool \in [Sides -> Nat]
  /\ pool["Up"] + pool["Down"] <= Funding[Me]
  /\ Fresh
  /\ AlreadyOpen(s, pool)

LEMMA OpenedCounts ==
  ASSUME NEW s, NEW pool, Opens(s, pool)
  PROVE  roundCount = 1 /\ protocolFees = 0
<1>1. AlreadyOpen(s, pool) /\ Fresh
  BY DEF Opens
<1>2. roundCount = 1
  BY <1>1 DEF AlreadyOpen
<1> QED
  BY <1>1, <1>2 DEF Fresh

LEMMA OpenedRound ==
  ASSUME NEW s, NEW pool, Opens(s, pool)
  PROVE  /\ rounds \in [RoundIds -> Round]
         /\ rounds[1].status = "Open" /\ rounds[1].pool = pool
         /\ rounds[1].openTime = s.openTime /\ rounds[1].lockTime = s.lockTime
         /\ rounds[1].closeTime = s.closeTime
         /\ \A id \in RoundIds : id # 1 => rounds[id] = NoRound
         /\ \A id \in RoundIds, u \in Users :
              stakeOf[id][u] = IF id = 1 /\ u = Me THEN pool ELSE [side \in Sides |-> 0]
<1> DEFINE strike == CHOOSE strike \in Strikes \ {0} : TRUE
           r == [NoRound EXCEPT !.status = "Open", !.openTime = s.openTime,
                   !.lockTime = s.lockTime, !.closeTime = s.closeTime,
                   !.lockPrice = strike, !.pool = pool]
<1>1. strike \in Nat
  BY DeskInputs, InputsAreNaturals
<1>2. rounds = [id \in RoundIds |-> IF id # 1 THEN NoRound ELSE r]
  BY DEF Opens, AlreadyOpen
<1> HIDE DEF strike
<1>3. /\ r \in Round /\ r.status = "Open" /\ r.pool = pool /\ r.openTime = s.openTime
      /\ r.lockTime = s.lockTime /\ r.closeTime = s.closeTime
  BY <1>1, NoRoundIsRound DEF Opens, Round, Statuses
<1> HIDE DEF r
<1>4. rounds \in [RoundIds -> Round]
  BY <1>2, <1>3, NoRoundIsRound
<1>5. rounds[1] = r /\ \A id \in RoundIds : id # 1 => rounds[id] = NoRound
  BY <1>2, RoundOneExists
<1>6. \A id \in RoundIds, u \in Users :
        stakeOf[id][u] = IF id = 1 /\ u = Me THEN pool ELSE [side \in Sides |-> 0]
  BY DEF Opens, AlreadyOpen
<1> QED
  BY <1>3, <1>4, <1>5, <1>6

LEMMA OpenedTyped ==
  ASSUME NEW s, NEW pool, Opens(s, pool)
  PROVE  TypeOK
<1>1. now \in Times /\ treasury \in Treasuries
  BY MaxTimeIsNat, OwnerIsATreasury DEF Opens, Fresh, Times, TreasuryInit
<1>2. PauseTypeOK
  BY DEF Opens, Fresh, PauseInit, PauseTypeOK
<1>3. roundCount \in 0..MaxRounds /\ protocolFees \in Nat
  BY OpenedCounts, DeskInputs, InputsAreNaturals
<1>4. stakeOf \in [RoundIds -> [Users -> [Sides -> Nat]]]
  BY DEF Opens, AlreadyOpen
<1>5. /\ claimed \in [RoundIds -> [Users -> BOOLEAN]]
      /\ settlementSinkOf \in [RoundIds -> [Users -> Routers \cup {ZeroAddress}]]
      /\ isRouter \in [Routers -> BOOLEAN]
  BY DEF Opens, Fresh
<1>6. funders \in [RoundIds -> [Users -> SUBSET (Users \cup Routers)]]
  BY DeskInputs DEF Opens, AlreadyOpen
<1>7. balance \in [Accounts -> Nat]
  <2> DEFINE stake == pool["Up"] + pool["Down"]
  <2>1. Me \in Accounts /\ Market \in Accounts /\ Funding \in [Accounts -> Nat]
    BY DeskInputs, AddressesAreDistinct
  <2>2. stake \in Nat /\ Funding[Me] - stake \in Nat
    BY <2>1 DEF Opens, Sides
  <2>3. balance = [Funding EXCEPT ![Me] = @ - stake, ![Market] = stake]
    BY DEF Opens, AlreadyOpen
  <2> HIDE DEF stake
  <2> QED BY <2>1, <2>2, <2>3
<1> QED
  BY <1>1, <1>2, <1>3, <1>4, <1>5, <1>6, <1>7, OpenedRound DEF TypeOK

LEMMA OpenedIInv ==
  ASSUME NEW s, NEW pool, Opens(s, pool)
  PROVE  IInv
<1> USE RoundOneExists
<1>1. /\ rounds[1].status = "Open" /\ rounds[1].openTime = s.openTime
      /\ rounds[1].lockTime = s.lockTime /\ rounds[1].closeTime = s.closeTime
      /\ \A id \in RoundIds : id # 1 => rounds[id] = NoRound
      /\ \A id \in RoundIds, u \in Users :
           stakeOf[id][u] = IF id = 1 /\ u = Me THEN pool ELSE [side \in Sides |-> 0]
  BY OpenedRound
<1>2. \A id \in RoundIds : rounds[id].status = IF id = 1 THEN "Open" ELSE "None"
  BY <1>1 DEF NoRound
<1>3. ScheduledInOrder
  <2>1. \A id \in RoundIds : id \in Nat /\ id > 0
    BY InputsAreNaturals DEF RoundIds
  <2> QED BY <1>2, <2>1, OpenedCounts DEF ScheduledInOrder
<1>4. WellScheduled
  <2>1. s.openTime \in Nat /\ s.lockTime \in Nat /\ s.closeTime \in Nat
    BY TimeIsNat DEF Opens
  <2>2. CutoffAt(1) > rounds[1].openTime /\ rounds[1].lockTime < rounds[1].closeTime
    BY <1>1, <2>1, DeskNats DEF Opens, CutoffAt
  <2> QED BY <1>2, <2>2 DEF WellScheduled
<1>5. LockedIsFilled /\ ResolvedIsAMarket
  BY <1>2 DEF LockedIsFilled, ResolvedIsAMarket
<1>6. \A id \in RoundIds, u \in Users :
        TotalStake(id, u) = IF id = 1 /\ u = Me THEN pool["Up"] + pool["Down"] ELSE 0
  BY <1>1 DEF TotalStake, Sides
<1>7. NoSinkWithoutStake
  BY DEF Opens, Fresh, NoSinkWithoutStake
<1>8. ProceedsReturnToFunder
  <2>1. \A id \in RoundIds, u \in Users : Recipient(id, u) = u
    BY DEF Recipient, Opens, Fresh
  <2>2. \A id \in RoundIds, u \in Users :
          funders[id][u] = IF id = 1 /\ u = Me /\ pool["Up"] + pool["Down"] > 0 THEN {Me} ELSE {}
    BY DEF Opens, AlreadyOpen
  <2>3. pool["Up"] + pool["Down"] \in Nat
    BY DEF Opens, Sides
  <2> QED BY <1>6, <2>1, <2>2, <2>3 DEF ProceedsReturnToFunder
<1>9. PauseIsLiftable
  BY DEF Opens, Fresh, PauseInit, PauseIsLiftable
<1> QED
  BY <1>3, <1>4, <1>5, <1>7, <1>8, <1>9, OpenedTyped DEF IInv

LEMMA OpenedBooks ==
  ASSUME NEW s, NEW pool, Opens(s, pool)
  PROVE  Books
<1> USE RoundOneExists
<1>1. /\ rounds[1].status = "Open" /\ rounds[1].pool = pool
      /\ \A id \in RoundIds : id # 1 => rounds[id] = NoRound
      /\ \A id \in RoundIds, u \in Users :
           stakeOf[id][u] = IF id = 1 /\ u = Me THEN pool ELSE [side \in Sides |-> 0]
  BY OpenedRound
<1>2. pool \in [Sides -> Nat] /\ Me \in Users
  BY DeskInputs DEF Opens
<1>3. ASSUME NEW id \in RoundIds, NEW side \in Sides
      PROVE  rounds[id].pool[side] = SumFunction(StakesOn(id, side))
  <2> DEFINE f == StakesOn(id, side)
  <2>1. DOMAIN f = Users
    BY DEF StakesOn
  <2>2. \A u \in Users : f[u] = IF id = 1 /\ u = Me THEN pool[side] ELSE 0
    BY <1>1 DEF StakesOn
  <2> HIDE DEF f
  <2>3. CASE id = 1
    <3>1. SumFunctionOnSet(f, Users) = f[Me]
      BY <1>2, <2>2, <2>3, UsersAreFinite, SumOfOne
    <3> QED BY <1>1, <1>2, <2>1, <2>2, <2>3, <3>1 DEF SumFunction, f
  <2>4. CASE id # 1
    <3>1. SumFunctionOnSet(f, Users) = 0
      BY <2>2, <2>4, UsersAreFinite, SumOfZeros
    <3>2. rounds[id].pool[side] = 0
      BY <1>1, <2>4 DEF NoRound
    <3> QED BY <2>1, <3>1, <3>2 DEF SumFunction, f
  <2> QED BY <2>3, <2>4
<1>4. ClaimedIsSettled
  BY DEF Opens, Fresh, ClaimedIsSettled
<1>5. UnopenedIsEmpty
  BY <1>1 DEF UnopenedIsEmpty, NoRound
<1> QED
  BY <1>3, <1>4, <1>5, OpenedIInv DEF Books, PoolsAreStakes

LEMMA OpenedMoney ==
  ASSUME NEW s, NEW pool, Opens(s, pool)
  PROVE  MoneyInv
<1> DEFINE stake == pool["Up"] + pool["Down"]
           f == [id \in RoundIds |-> OwedOn(id)]
           g == [id \in RoundIds |-> DustOn(id)]
<1>1. Books
  BY OpenedBooks
<1>2. /\ rounds[1].status = "Open" /\ rounds[1].pool = pool
      /\ \A id \in RoundIds : id # 1 => rounds[id] = NoRound
  BY OpenedRound
<1>3. stake \in Nat
  BY DEF Opens, Sides
<1>4. \A id \in RoundIds : rounds[id].status # "Resolved" /\ DustOn(id) = 0
  BY <1>2 DEF DustOn, NoRound
<1>5. \A id \in RoundIds : TotalPool(id) = IF id = 1 THEN stake ELSE 0
  BY <1>2 DEF TotalPool, NoRound, Sides
<1>6. \A id \in RoundIds, u \in Users : ~claimed[id][u]
  BY DEF Opens, Fresh
<1>7. \A id \in RoundIds : OwedOn(id) = IF id = 1 THEN stake ELSE 0
  BY <1>1, <1>4, <1>5, <1>6, OwedIsPools DEF RoundsOwePools
<1>8. balance[Market] = stake
  <2>1. Me # Market /\ Me \in Accounts /\ Market \in Accounts /\ Funding \in [Accounts -> Nat]
    BY DeskInputs, AddressesAreDistinct
  <2>2. balance = [Funding EXCEPT ![Me] = @ - stake, ![Market] = stake]
    BY DEF Opens, AlreadyOpen
  <2> HIDE DEF stake
  <2> QED BY <2>1, <2>2
<1>9. /\ Owed = SumFunction(f) /\ DustBound = SumFunction(g)
      /\ DOMAIN f = RoundIds /\ DOMAIN g = RoundIds
  BY DEF Owed, DustBound
<1>10. /\ f[1] = stake /\ \A id \in RoundIds : id # 1 => f[id] = 0
       /\ \A id \in RoundIds : g[id] = 0
  BY <1>4, <1>7, RoundOneExists
<1> HIDE DEF f, g, stake
<1>11. SumFunctionOnSet(f, RoundIds) = f[1]
  BY <1>3, <1>10, RoundOneExists, RoundIdsAreFinite, SumOfOne
<1>12. SumFunctionOnSet(g, RoundIds) = 0
  BY <1>10, RoundIdsAreFinite, SumOfZeros
<1>13. Owed = stake /\ DustBound = 0
  BY <1>9, <1>10, <1>11, <1>12 DEF SumFunction
<1> QED
  BY <1>1, <1>3, <1>8, <1>13, OpenedCounts DEF MoneyInv, Solvent, NothingStranded

LEMMA OpenedMarket ==
  ASSUME NEW s, NEW pool, Opens(s, pool)
  PROVE  MarketIInv /\ MoneyInv /\ LocksOnTime /\ rounds[1].status = "Open"
<1>1. rounds[1].status = "Open" /\ \A id \in RoundIds : id # 1 => rounds[id] = NoRound
  BY OpenedRound
<1>2. PinnedForGood
  BY <1>1 DEF PinnedForGood, NoRound
<1>3. OracleTypeOK /\ FeedInOrder
  BY OracleInitTyped, FeedInitInOrder DEF Opens, Fresh
<1> QED
  BY <1>1, <1>2, <1>3, OpenedIInv, OpenedMoney DEF MarketIInv, LocksOnTime

LEMMA ScreensInit == DeskInit => ScreensInv
<1> SUFFICES ASSUME DeskInit PROVE ScreensInv
  OBVIOUS
<1>1. Fresh /\ sequencer.status = "none"
  BY DEF DeskInit, Fresh
<1>2. /\ seen = RoundNow /\ seenFees = 0 /\ spot = NoSpot /\ found = 0
      /\ request = NoRequest
  BY DEF DeskInit
<1>3. (NotOpenYet /\ page # "card") \/ \E s, pool : Opens(s, pool)
  <2>1. ASSUME NEW s \in Scheduled, NEW pool \in OpeningPools, AlreadyOpen(s, pool)
        PROVE  Opens(s, pool)
    BY <1>1, <2>1, DeskInputs DEF Opens
  <2>2. ASSUME NEW s \in Scheduled, AlreadyOpen(s, [side \in Sides |-> 0])
        PROVE  Opens(s, [side \in Sides |-> 0])
    <3>1. Funding[Me] \in Nat
      BY DeskInputs, AddressesAreDistinct
    <3> DEFINE pool == [side \in Sides |-> 0]
    <3>3. pool \in [Sides -> Nat] /\ pool["Up"] + pool["Down"] <= Funding[Me]
      BY <3>1 DEF Sides
    <3> HIDE DEF pool
    <3>4. AlreadyOpen(s, pool)
      BY <2>2 DEF pool
    <3>5. Opens(s, pool)
      BY <1>1, <3>3, <3>4, DeskInputs DEF Opens
    <3> QED BY <3>5 DEF pool
  <2>3. \/ /\ page = "console"
           /\ NotOpenYet \/ \E s \in Scheduled, pool \in OpeningPools : AlreadyOpen(s, pool)
        \/ \E s \in Scheduled : AlreadyOpen(s, [side \in Sides |-> 0])
    BY DEF DeskInit
  <2> QED BY <2>1, <2>2, <2>3
<1>4. /\ MarketIInv /\ MoneyInv /\ LocksOnTime
      /\ page = "card" => rounds[1].status # "None"
  BY <1>1, <1>3, FreshMarket, OpenedMarket
<1>5. Chain
  BY <1>1, <1>4 DEF Chain, Fresh, PauseInit
<1>6. seen.round = rounds[1] /\ seen.phase = phaseOf(1)
  BY <1>2 DEF RoundNow
<1>7. SeenIsPast
  BY <1>6, FreshReadIsPast DEF NowIsSeen
<1> QED
  BY <1>2, <1>4, <1>5, <1>6, <1>7
     DEF ScreensInv, SpotIsRead, FoundIsAnswerable, CardHasARound, RequestIsBacked

(***************************************************************************)
(* Whatever a screen still holds, the chain only moved on from it.         *)
(***************************************************************************)
THEOREM ScreensInvariance == DeskSpec => []ScreensInv
  BY ScreensInit, ScreensStep, PTL DEF DeskSpec

-----------------------------------------------------------------------------
(***************************************************************************)
(* The console.                                                            *)
(***************************************************************************)
LEMMA ReadableIsCovered ==
  ASSUME Chain, NEW f, NEW at
  PROVE  Readable(f, at) <=> Covers(f, at) /\ ~feedPaused
  BY DEF Chain, Readable, Covers, ChainIsTrustworthyAt, SequencerUpAt

LEMMA FeesAreCovered ==
  ASSUME Chain
  PROVE  balance[Market] >= protocolFees /\ balance[Market] \in Nat /\ protocolFees \in Nat
<1>1. balance[Market] \in Nat /\ protocolFees \in Nat
  BY ChainTypes, AddressesAreDistinct DEF TypeOK
<1>2. RoundsOweNat
  BY OwedIsTyped DEF Chain, MoneyInv, Books
<1>3. Owed \in Nat
  <2> DEFINE f == [id \in RoundIds |-> OwedOn(id)]
  <2>1. Owed = SumFunction(f) /\ DOMAIN f = RoundIds /\ \A id \in RoundIds : f[id] \in Nat
    BY <1>2 DEF Owed, RoundsOweNat
  <2> HIDE DEF f
  <2> QED BY <2>1, RoundIdsAreFinite, SumIsNat DEF SumFunction
<1>4. balance[Market] >= protocolFees + Owed
  BY DEF Chain, MoneyInv, Solvent
<1> QED
  BY <1>1, <1>3, <1>4

\* A button that stands is refused only when somebody or something overtook it.
LEMMA BackedIsAccepted ==
  ASSUME Chain, NEW q, Backed(q), ~Overtaken(q)
  PROVE  Accepts(q)
<1> SUFFICES CanPerform(q)
  BY DEF Accepts, Backed
<1>1. Standing(q)
  BY DEF Backed
<1>2. now \in Nat /\ latestRoundId \in Nat /\ latestRoundId <= MaxFeedId /\ MaxFeedId \in Nat
  BY ChainTypes, FeedFacts, ScaleFacts
<1>3. CASE q[1] = "openRound"
  <2>1. roundCount # MaxRounds /\ ~(now > q[2]) /\ q[5] # 0
    BY <1>3 DEF Overtaken
  <2>2. /\ q[2] \in Times /\ q[3] > q[2] + EntryCutoff /\ q[4] > q[3]
        /\ q[4] + ResolveDeadline < MaxTime
    BY <1>1, <1>3 DEF Standing
  <2>3. q[2] >= now
    BY <1>2, <2>1, <2>2, TimeIsNat
  <2>4. roundCount < MaxRounds
    <3>1. TypeOK
      BY ChainTypes
    <3>2. roundCount \in 0..MaxRounds /\ MaxRounds \in Nat
      BY <3>1, InputsAreNaturals DEF TypeOK
    <3> QED BY <2>1, <3>2
  <2> QED BY <1>3, <2>1, <2>2, <2>3, <2>4 DEF CanPerform, CanOpen, whenEntriesOpen, Chain
<1>4. CASE q[1] = "lockRound"
  BY <1>1, <1>4 DEF Standing, Overtaken, CanPerform, CanLock
<1>5. CASE q[1] = "voidUnlockedRound"
  BY <1>1, <1>5 DEF Standing, Overtaken, CanPerform, CanVoidUnlocked
<1>6. CASE q[1] = "voidUnsettledRound"
  BY <1>1, <1>6 DEF Standing, Overtaken, CanPerform, CanVoidUnsettled
<1>7. CASE q[1] = "resolveRound"
  <2>1. rounds[1].status = "Locked" /\ ~feedPaused
    BY <1>7 DEF Overtaken
  <2>2. now >= rounds[1].closeTime /\ Readable(q[2], rounds[1].closeTime)
    BY <1>1, <1>7, <2>1, ReadableIsCovered DEF Standing
  <2> QED BY <1>7, <2>1, <2>2 DEF CanPerform, CanResolve, ReadAt
<1>8. CASE q[1] = "withdrawFees"
  <2>1. q[2] \in Nat /\ q[2] # 0 /\ ~(protocolFees < q[2])
    BY <1>1, <1>8 DEF Standing, Overtaken
  <2> QED BY <1>8, <2>1, FeesAreCovered DEF CanPerform, CanWithdrawFees, CanTransfer
<1>9. CASE q[1] = "push"
  <2>1. publisher = "demo" /\ q[2] > 0 /\ ~(LastUpdate >= now) /\ latestRoundId # MaxFeedId
    BY <1>1, <1>9 DEF Standing, Overtaken
  <2>2. LastUpdate \in Nat
    BY ChainTypes, LastUpdateIsTime, TimeIsNat
  <2>3. now > LastUpdate /\ latestRoundId + 1 \in FeedIds
    BY <1>2, <2>1, <2>2 DEF FeedIds
  <2> QED BY <1>9, <2>1, <2>3 DEF CanPerform, CanPushAt, TimestampAdvances
<1> QED
  BY <1>1, <1>3, <1>4, <1>5, <1>6, <1>7, <1>8, <1>9 DEF Standing

(***************************************************************************)
(* However old the read a live button was drawn from, and whatever         *)
(* happened since, its call is accepted, but for the named reasons no      *)
(* screen can exclude (actionFor, findCloseRound, scheduleProblem).        *)
(***************************************************************************)
THEOREM LiveButtonsAreAccepted == DeskSpec => []OfferedCallIsAccepted
<1>1. ScreensInv => OfferedCallIsAccepted
  <2> SUFFICES ASSUME ScreensInv, request # NoRequest PROVE Accepts(request) \/ Overtaken(request)
    BY DEF OfferedCallIsAccepted
  <2>1. Chain /\ Backed(request)
    BY DEF ScreensInv, RequestIsBacked
  <2> QED BY <2>1, BackedIsAccepted
<1> QED
  BY <1>1, ScreensInvariance, PTL

LEMMA DueIsOffered ==
  ASSUME Chain, operator = Owner, seen.round = rounds[1], UnbrokenAfter(rounds[1].closeTime),
         NEW q \in RoundCalls, Accepts(q)
  PROVE  \E offer \in RowOffers(SearchResult) : Accepts(offer)
<1> DEFINE r == rounds[1]
<1>1. /\ now \in Nat /\ r.lockTime \in Nat /\ r.closeTime \in Nat /\ r.closeTime \in Times
      /\ OracleTypeOK /\ FeedInOrder
  BY ChainTypes
<1>2. CanPerform(q)
  BY DEF Accepts
<1>3. CASE CanLock(1)
  <2>1. CASE now > r.lockTime + LockWindow
    <3>1. <<"voidUnlockedRound">> \in RowOffers(SearchResult)
      BY <1>3, <2>1 DEF CanLock, RowOffers, ActionFor
    <3>2. Accepts(<<"voidUnlockedRound">>)
      BY <1>3, <2>1 DEF Accepts, IsOwnerOnly, CanPerform, CanLock, CanVoidUnlocked
    <3> QED BY <3>1, <3>2
  <2>2. CASE ~(now > r.lockTime + LockWindow)
    <3>1. <<"lockRound">> \in RowOffers(SearchResult)
      BY <1>3, <2>2 DEF CanLock, RowOffers, ActionFor
    <3>2. Accepts(<<"lockRound">>)
      BY <1>3 DEF Accepts, IsOwnerOnly, CanPerform
    <3> QED BY <3>1, <3>2
  <2> QED BY <2>1, <2>2
<1>4. CASE CanVoidUnlocked(1)
  BY <1>1, <1>3, <1>4, DeskNats DEF CanVoidUnlocked, CanLock
<1>5. CASE CanVoidUnsettled(1)
  <2>1. r.status = "Locked" /\ now >= r.closeTime /\ now > r.closeTime + ResolveDeadline
    BY <1>1, <1>5, DeskNats DEF CanVoidUnsettled, PastResolveDeadline
  <2>2. <<"voidUnsettledRound">> \in RowOffers(SearchResult)
    BY <2>1 DEF RowOffers, ActionFor
  <2>3. Accepts(<<"voidUnsettledRound">>)
    BY <1>5 DEF Accepts, CanPerform
  <2> QED BY <2>2, <2>3
<1>6. ASSUME NEW f \in FeedIds, CanResolve(1, ReadAt(f, r.closeTime)), ~CanVoidUnsettled(1)
      PROVE  \E offer \in RowOffers(SearchResult) : Accepts(offer)
  <2>1. Readable(f, r.closeTime) /\ r.status = "Locked" /\ now >= r.closeTime
    BY <1>6 DEF CanResolve, ReadAt
  <2>2. ~(now > r.closeTime + ResolveDeadline)
    BY <1>6, <2>1 DEF CanVoidUnsettled, PastResolveDeadline
  <2>3. FindCloseRound(r.closeTime) = f
    BY <1>1, <2>1, SearchIsRight
  <2>4. f # 0
    BY <1>1, FeedFacts
  <2>5. SearchResult = f
    BY <1>6, <2>3, <2>4 DEF SearchResult, CanResolve
  <2>6. <<"resolveRound", f>> \in RowOffers(SearchResult)
    BY <2>1, <2>2, <2>4, <2>5 DEF RowOffers, ActionFor
  <2>7. Accepts(<<"resolveRound", f>>)
    BY <1>6 DEF Accepts, IsOwnerOnly, CanPerform
  <2> QED BY <2>6, <2>7
<1> QED
  BY <1>2, <1>3, <1>4, <1>5, <1>6 DEF CanPerform, RoundCalls

(***************************************************************************)
(* No round is left hanging because an up-to-date console sees nothing to  *)
(* do, for any feed history without a gap after the close and any order of *)
(* late calls (actionFor, findCloseRound).                                 *)
(***************************************************************************)
THEOREM DueRoundsAreOffered == DeskSpec => []DueRoundIsOffered
<1>1. ScreensInv => DueRoundIsOffered
  BY DueIsOffered DEF ScreensInv, DueRoundIsOffered
<1> QED
  BY <1>1, ScreensInvariance, PTL

-----------------------------------------------------------------------------
(***************************************************************************)
(* The card.                                                               *)
(***************************************************************************)
LEMMA EntryTold ==
  ASSUME ScreensInv, page = "card"
  PROVE  EntryMatches
<1> DEFINE r == seen.round
<1>1. /\ now \in Nat /\ rounds[1].openTime \in Nat /\ rounds[1].lockTime \in Nat
      /\ EntryCutoff \in Nat
  BY ChainTypes, DeskNats DEF ScreensInv
<1>2. rounds[1].status # "None" /\ r.openTime = rounds[1].openTime /\ r.lockTime = rounds[1].lockTime
  BY DEF ScreensInv, CardHasARound, SeenIsPast, SameTerms
<1>3. seen.phase = "Open" => r.status = "Open" /\ r.openTime <= now
  BY DEF ScreensInv, SeenIsPast
<1>4. rounds[1].status # "Open" => now >= rounds[1].lockTime
  BY <1>2 DEF ScreensInv, Chain, LocksOnTime
<1> HIDE DEF r
<1>5. /\ EntryOpen(r) => entryIsOpen(1)
      /\ r = rounds[1] /\ entryIsOpen(1) => EntryOpen(r)
  BY <1>1, <1>2, <1>4 DEF EntryOpen, entryIsOpen, CutoffAt
<1>6. seen.phase = "Open" => (now < r.lockTime - EntryCutoff <=> entryIsOpen(1))
  BY <1>1, <1>2, <1>3, <1>4 DEF entryIsOpen, CutoffAt
<1>7. /\ RoundCard(r, "Open").deadline = r.lockTime - EntryCutoff
      /\ MarketRow.closesAt = IF seen.phase = "Open" THEN {r.lockTime - EntryCutoff} ELSE {}
  BY DEF RoundCard, MarketRow, CardDeadline, r
<1>8. \A side \in Sides : SideButton(r, side).enabled = EntryOpen(r)
  BY DEF SideButton
<1> QED
  BY <1>5, <1>6, <1>7, <1>8 DEF EntryMatches, r

-----------------------------------------------------------------------------
(***************************************************************************)
(* A multiple m is N * D \div P for a pot N, a unit D and a winning pool   *)
(* P.  A stake s is then paid N * s \div P, and was quoted m * s \div D.    *)
(***************************************************************************)
LEMMA QuoteIsClose ==
  ASSUME NEW pot \in Nat, NEW unit \in Nat, NEW pool \in Nat, NEW stake \in Nat,
         unit > 0, pool > 0, stake > 0,
         NEW multiple, multiple = (pot * unit) \div pool,
         NEW paid, paid = (pot * stake) \div pool
  PROVE  paid - (multiple * stake) \div unit \in 0..((stake \div unit) + 1)
<1> DEFINE told == (multiple * stake) \div unit
           rest == stake \div unit
<1>1. pot * unit \in Nat /\ pot * stake \in Nat
  BY MulIsNat
<1>2. /\ multiple \in Nat /\ multiple * pool <= pot * unit
      /\ pot * unit < (multiple + 1) * pool
  BY <1>1, DivBounds
<1>3. /\ paid \in Nat /\ paid * pool <= pot * stake
      /\ pot * stake < (paid + 1) * pool
  BY <1>1, DivBounds
<1>4. multiple * stake \in Nat
  BY <1>2, MulIsNat
<1>5. told \in Nat /\ told * unit <= multiple * stake /\ multiple * stake < (told + 1) * unit
  BY <1>4, DivBounds
<1>6. rest \in Nat /\ stake < (rest + 1) * unit
  BY DivBounds
<1> HIDE DEF told, rest
<1>7. told <= paid
  <2>1. /\ (told * unit) * pool <= (multiple * stake) * pool
        /\ (multiple * pool) * stake <= (pot * unit) * stake
    <3>1. told * unit \in Nat /\ multiple * pool \in Nat
      BY <1>2, <1>5, MulIsNat
    <3>2. /\ pool * (told * unit) <= pool * (multiple * stake)
          /\ stake * (multiple * pool) <= stake * (pot * unit)
      BY <1>1, <1>2, <1>4, <1>5, <3>1, MulMonotone
    <3> QED BY <1>1, <1>4, <3>1, <3>2
  <2>2. /\ (told * unit) * pool = (told * pool) * unit
        /\ (multiple * stake) * pool = (multiple * pool) * stake
        /\ (pot * unit) * stake = (pot * stake) * unit
    BY <1>2, <1>5
  <2>3. told * pool \in Nat /\ (paid + 1) * pool \in Nat
    BY <1>3, <1>5, MulIsNat
  <2>4. (told * pool) * unit <= (pot * stake) * unit
    <3>1. /\ (told * pool) * unit \in Nat /\ (multiple * pool) * stake \in Nat
          /\ (pot * stake) * unit \in Nat
      BY <1>1, <1>2, <2>3, MulIsNat
    <3> QED BY <2>1, <2>2, <3>1
  <2>5. told * pool <= pot * stake
    <3>1. ASSUME pot * stake < told * pool PROVE FALSE
      <4>1. pot * stake + 1 <= told * pool
        BY <1>1, <2>3, <3>1
      <4>2. unit * (pot * stake + 1) <= unit * (told * pool)
        BY <1>1, <2>3, <4>1, MulMonotone
      <4>3. (pot * stake) * unit + unit <= (told * pool) * unit
        BY <1>1, <2>3, <4>2
      <4>4. (pot * stake) * unit \in Nat /\ (told * pool) * unit \in Nat
        BY <1>1, <2>3, MulIsNat
      <4> QED BY <2>4, <4>3, <4>4
    <3> QED BY <1>1, <2>3, <3>1
  <2>6. told * pool < (paid + 1) * pool
    BY <1>1, <1>3, <2>3, <2>5
  <2>7. told < paid + 1
    BY <1>3, <1>5, <2>6, LessCancels
  <2> QED BY <1>3, <1>5, <2>7
<1>8. paid <= told + rest + 1
  <2>1. /\ (paid * pool) * unit <= (pot * stake) * unit
        /\ (pot * unit) * stake < ((multiple + 1) * pool) * stake
    <3>1. paid * pool \in Nat /\ (multiple + 1) * pool \in Nat
      BY <1>2, <1>3, MulIsNat
    <3>2. unit * (paid * pool) <= unit * (pot * stake)
      BY <1>1, <1>3, <3>1, MulMonotone
    <3>3. stake * (pot * unit + 1) <= stake * ((multiple + 1) * pool)
      BY <1>1, <1>2, <3>1, MulMonotone
    <3>4. (pot * unit) * stake + stake <= ((multiple + 1) * pool) * stake
      BY <1>1, <3>1, <3>3
    <3>5. (pot * unit) * stake \in Nat /\ ((multiple + 1) * pool) * stake \in Nat
      BY <1>1, <3>1, MulIsNat
    <3> QED BY <1>1, <3>1, <3>2, <3>4, <3>5
  <2>2. /\ (paid * pool) * unit = (paid * unit) * pool
        /\ (pot * unit) * stake = (pot * stake) * unit
        /\ ((multiple + 1) * pool) * stake = (multiple * stake + stake) * pool
    BY <1>2, <1>3
  <2>3. paid * unit \in Nat /\ multiple * stake + stake \in Nat
    BY <1>3, <1>4, MulIsNat
  <2>4. (paid * unit) * pool < (multiple * stake + stake) * pool
    <3>1. /\ (paid * unit) * pool \in Nat /\ (pot * stake) * unit \in Nat
          /\ (multiple * stake + stake) * pool \in Nat
      BY <1>1, <2>3, MulIsNat
    <3> QED BY <2>1, <2>2, <3>1
  <2>5. paid * unit < multiple * stake + stake
    BY <2>3, <2>4, LessCancels
  <2>6. multiple * stake + stake < (told + 1) * unit + (rest + 1) * unit
    <3>1. (told + 1) * unit \in Nat /\ (rest + 1) * unit \in Nat
      BY <1>5, <1>6, MulIsNat
    <3> QED BY <1>4, <1>5, <1>6, <3>1
  <2>7. (told + 1) * unit + (rest + 1) * unit = (told + rest + 2) * unit
    BY <1>5, <1>6
  <2>8. paid * unit < (told + rest + 2) * unit
    <3>1. (told + rest + 2) * unit \in Nat
      BY <1>5, <1>6, MulIsNat
    <3> QED BY <2>3, <2>5, <2>6, <2>7, <3>1
  <2>9. paid < told + rest + 2
    BY <1>3, <1>5, <1>6, <2>8, LessCancels
  <2> QED BY <1>3, <1>5, <1>6, <2>9
<1> QED
  BY <1>3, <1>5, <1>6, <1>7, <1>8 DEF told, rest

\* What a side's button quotes of a resolved round.
LEMMA QuotedMultiple ==
  ASSUME ScreensInv, rounds[1].status = "Resolved", seen.round.pool = rounds[1].pool,
         NEW u \in Users, stakeOf[1][u][rounds[1].winner] > 0
  PROVE  LET side == rounds[1].winner
             stake == stakeOf[1][u][side]
             multiple == MultipleFor(seen.round, side)
         IN  /\ SideButton(seen.round, side).pays = {multiple}
             /\ Entitlement(1, u) - (multiple * stake) \div WAD \in 0..((stake \div WAD) + 1)
<1> DEFINE r == rounds[1]
           side == r.winner
           stake == stakeOf[1][u][side]
           won == r.pool[side]
           pot == TotalPool(1) - RakeOn(TotalPool(1))
<1>1. /\ TypeOK /\ r \in Round /\ r.pool \in [Sides -> Nat] /\ WAD \in Nat /\ WAD > 0
      /\ MinSidePool \in Nat /\ MinSidePool > 0
  BY ChainTypes, ConstructorAccepts DEF ScreensInv
<1>2. SidesFilled(1) /\ r.rakeTaken = RakeOn(TotalPool(1))
  BY RoundOneExists DEF ScreensInv, Chain, MarketIInv, IInv, ResolvedIsAMarket, RakeOn
<1>3. side \in Sides /\ stake \in Nat
  BY <1>1, RoundOneExists DEF Round, TypeOK
<1>4. won \in Nat /\ won > 0
  <2>1. won \in Nat /\ won >= MinSidePool
    BY <1>1, <1>2, <1>3 DEF SidesFilled
  <2> QED BY <1>1, <2>1
<1>5. TotalPool(1) \in Nat
  BY <1>1 DEF TotalPool, Sides
<1>6. pot \in Nat
  <2>1. RakeOn(TotalPool(1)) \in Nat /\ RakeOn(TotalPool(1)) <= TotalPool(1)
    BY <1>5, RakeIsNat, RakeWithinPool
  <2> QED BY <1>5, <2>1
<1>7. Entitlement(1, u) = (pot * stake) \div won
  BY <1>2 DEF Entitlement, Share
<1>8. MultipleFor(seen.round, side) = (pot * WAD) \div won
  BY DEF MultipleFor, TotalOf, RakeOn, TotalPool
<1>9. SideButton(seen.round, side).pays = {MultipleFor(seen.round, side)}
  BY <1>4 DEF SideButton
<1> HIDE DEF pot, won, stake, side
<1>10. stake > 0
  BY DEF stake, side
<1>11. Entitlement(1, u) - (MultipleFor(seen.round, side) * stake) \div WAD
         \in 0..((stake \div WAD) + 1)
  BY <1>1, <1>3, <1>4, <1>6, <1>7, <1>8, <1>10, QuoteIsClose
<1> QED
  BY <1>9, <1>11 DEF stake, side

LEMMA QuoteTold ==
  ASSUME ScreensInv
  PROVE  QuoteHolds
<1> SUFFICES ASSUME rounds[1].status = "Resolved", seen.round.pool = rounds[1].pool,
                    NEW u \in Users, stakeOf[1][u][rounds[1].winner] > 0
             PROVE  LET side == rounds[1].winner
                        stake == stakeOf[1][u][side]
                        quotes == SideButton(seen.round, side).pays
                    IN  /\ quotes # {}
                        /\ \A m \in quotes \cup MarketRow.pays[side] :
                             Entitlement(1, u) - (m * stake) \div WAD \in 0..((stake \div WAD) + 1)
  BY DEF QuoteHolds
<1> DEFINE side == rounds[1].winner
<1>1. side \in Sides
  BY ChainTypes DEF ScreensInv, Round
<1>2. MarketRow.pays[side] \subseteq SideButton(seen.round, side).pays
  BY <1>1 DEF MarketRow
<1> QED
  BY <1>2, QuotedMultiple

LEMMA LeaderTold ==
  ASSUME ScreensInv, page = "card"
  PROVE  LeaderWins
<1> DEFINE r == rounds[1]
<1>1. r.status = "Resolved" => (r.winner = "Up" <=> r.closePrice > r.lockPrice)
  BY RoundOneExists DEF ScreensInv, Chain, MarketIInv, IInv, ResolvedIsAMarket
<1>2. r.winner \in Sides
  BY ChainTypes DEF ScreensInv, Round
<1>3. \A side \in Sides : SideButton(seen.round, side).won => side = r.winner
  <2> SUFFICES ASSUME NEW side \in Sides, SideButton(seen.round, side).won
               PROVE  side = r.winner
    OBVIOUS
  <2>1. seen.round.status = "Resolved" /\ seen.round.winner = side
    BY DEF SideButton
  <2>2. seen.round = r
    BY <2>1 DEF ScreensInv, SeenIsPast, Terminal
  <2> QED BY <2>1, <2>2
<1>4. ASSUME r.status = "Resolved", spot # NoSpot, IsLastAtOrBefore(spot.id, r.closeTime)
      PROVE  StandingOf(spot.price, seen.round.lockPrice) = r.winner
  <2>1. PICK f \in FeedIds : PinnedBy(1, f)
    BY <1>4, RoundOneExists DEF ScreensInv, Chain, MarketIInv, PinnedForGood
  <2>2. spot.id \in FeedIds /\ spot.price = feedRounds[spot.id].answer * ScaleUp
    BY <1>4 DEF ScreensInv, SpotIsRead
  <2>3. f = spot.id
    <3>1. f \in Nat /\ spot.id \in Nat
      BY <2>2, FeedFacts DEF FeedIds
    <3>2. ~(f < spot.id) /\ ~(spot.id < f)
      BY <1>4, <2>1, <2>2 DEF PinnedBy, IsLastAtOrBefore
    <3> QED BY <3>1, <3>2
  <2>4. spot.price = r.closePrice
    BY <2>1, <2>2, <2>3 DEF PinnedBy
  <2>5. seen.round.lockPrice = r.lockPrice
    BY DEF ScreensInv, CardHasARound, SeenIsPast, SameTerms
  <2> QED BY <1>1, <1>2, <1>4, <2>4, <2>5 DEF StandingOf, Sides
<1>5. \/ MarketRow.leads = {}
      \/ /\ spot # NoSpot
         /\ MarketRow.leads = {StandingOf(spot.price, seen.round.lockPrice)}
  BY DEF MarketRow
<1> QED
  BY <1>3, <1>4, <1>5 DEF LeaderWins

LEMMA NothingHidden ==
  ASSUME ScreensInv, page = "card"
  PROVE  NothingIsHidden
<1>1. rounds[1].status = "Locked" /\ seen.round.pool = rounds[1].pool => ~WillVoidOnLock(seen.round)
  <2> SUFFICES ASSUME rounds[1].status = "Locked", seen.round.pool = rounds[1].pool,
                      NEW side \in Sides
               PROVE  ~(seen.round.pool[side] < MinSidePool)
    BY DEF WillVoidOnLock
  <2>1. SidesFilled(1)
    BY RoundOneExists DEF ScreensInv, Chain, MarketIInv, IInv, LockedIsFilled
  <2>2. rounds[1].pool[side] \in Nat /\ MinSidePool \in Nat
    BY ChainTypes, ConstructorAccepts DEF ScreensInv
  <2> QED BY <2>1, <2>2 DEF SidesFilled
<1>2. seen.round.status # "None"
  BY DEF ScreensInv, CardHasARound
<1>3. seen = RoundNow /\ TotalStake(1, Me) > 0 => CardShows
  <2>1. RoundNow.held <=> TotalStake(1, Me) > 0
    BY DEF RoundNow
  <2> QED BY <1>2, <2>1, Zenon DEF CardShows, Visible
<1> QED
  BY <1>1, <1>3 DEF NothingIsHidden, RoundCard

(***************************************************************************)
(* The card tells the round the contract keeps, for every rake, pool,      *)
(* stake and feed history, and on a late read too: when an entry is taken, *)
(* what a winner is paid, who is ahead, as of when, and what is thin       *)
(* (RoundCard, MarketRow, lib/rounds.ts, lib/spot.ts, useSpot).            *)
(***************************************************************************)
THEOREM TheCardTellsTheTruth == DeskSpec => []CardTellsTheRound
<1>1. ScreensInv => CardTellsTheRound
  <2> SUFFICES ASSUME ScreensInv, page = "card"
               PROVE  /\ EntryMatches /\ QuoteHolds /\ LeaderWins
                      /\ PrintIsOfThePrice /\ NothingIsHidden
    BY DEF CardTellsTheRound
  <2>1. EntryMatches /\ QuoteHolds /\ LeaderWins /\ NothingIsHidden
    BY EntryTold, QuoteTold, LeaderTold, NothingHidden
  <2>2. PrintIsOfThePrice
    BY DEF ScreensInv, SpotIsRead, PrintIsOfThePrice, PrintShown, NoSpot
  <2> QED BY <2>1, <2>2
<1> QED
  BY <1>1, ScreensInvariance, PTL
=============================================================================
