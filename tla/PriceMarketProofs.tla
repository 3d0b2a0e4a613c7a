--------------------------- MODULE PriceMarketProofs ---------------------------
(***************************************************************************)
(* PriceMarket for every feed history, schedule and staleness bound: the   *)
(* price a round settles on was pinned by its closeTime.                   *)
(***************************************************************************)
EXTENDS PriceMarket, ParimutuelRoundProofs

LEMMA ScaleFacts ==
  /\ ScaleUp \in Nat /\ ScaleUp > 0 /\ MaxFeedId \in Nat /\ MaxFeedId > 0
  /\ MaxStaleness \in Nat /\ MaxUint \in Nat /\ MaxTime \in Nat
  BY AdapterAccepts, MaxTimeIsNat

LEMMA TimesAreNats == Times \subseteq Nat /\ 0 \in Times
  BY MaxTimeIsNat DEF Times

LEMMA ReadIsAnswer ==
  ASSUME OracleTypeOK, NEW f \in FeedIds, NEW at
  PROVE  ReadAt(f, at) \in OracleReads
<1>1. CASE Readable(f, at)
  <2>1. feedRounds[f].answer \in Int /\ feedRounds[f].answer > 0
    BY <1>1 DEF OracleTypeOK, FeedRound, Readable, Covers, AnswerUsableAt
  <2>2. feedRounds[f].answer * ScaleUp \in Nat
    BY <2>1, ScaleFacts, MulIsNat
  <2> QED
    BY <1>1, <2>2 DEF ReadAt, OracleReads
<1>2. CASE ~Readable(f, at)
  BY <1>2 DEF ReadAt, OracleReads
<1> QED
  BY <1>1, <1>2

LEMMA MarketStepIsStep ==
  ASSUME OracleTypeOK, [MarketNext]_marketVars
  PROVE  [Step]_vars
<1>1. ASSUME NEW id \in RoundIds, NEW f \in FeedIds, resolveWith(id, f)
      PROVE  Step
  BY <1>1, ReadIsAnswer DEF resolveWith, Step
<1> QED
  BY <1>1 DEF MarketNext, Step, marketVars

LEMMA OracleInitTyped == OracleInit => OracleTypeOK
<1> SUFFICES ASSUME OracleInit PROVE OracleTypeOK
  OBVIOUS
<1>1. NoData \in FeedRound
  BY TimesAreNats DEF NoData, FeedRound
<1>2. sequencer \in [status: {"none", "up", "down", "unreadable"}, startedAt: Times]
  BY TimesAreNats DEF OracleInit
<1>3. feedRounds \in [FeedIds -> FeedRound]
  BY <1>1 DEF OracleInit
<1>4. latestRoundId \in 0..MaxFeedId
  BY ScaleFacts DEF OracleInit
<1> QED
  BY <1>2, <1>3, <1>4 DEF OracleInit, OracleTypeOK

LEMMA PublishTyped ==
  ASSUME OracleTypeOK, NEW id, NEW answer \in Answers, NEW at \in Times,
         Publish(id, answer, at)
  PROVE  OracleTypeOK'
<1>1. id \in FeedIds /\ id \in 0..MaxFeedId
  BY ScaleFacts DEF Publish, FeedIds
<1>2. [answer |-> answer, updatedAt |-> at] \in FeedRound
  BY AdapterAccepts DEF FeedRound
<1>3. feedRounds' \in [FeedIds -> FeedRound]
  BY <1>1, <1>2 DEF Publish, OracleTypeOK
<1> QED
  BY <1>1, <1>3 DEF Publish, OracleTypeOK

LEMMA OracleTypeStep ==
  ASSUME now \in Times, OracleTypeOK, [MarketNext]_marketVars
  PROVE  OracleTypeOK'
<1>1. CASE UNCHANGED feedVars
  BY <1>1 DEF feedVars, OracleTypeOK
<1>2. ASSUME NEW answer \in Answers, NEW at \in Times, pushAt(answer, at)
      PROVE  OracleTypeOK'
  BY <1>2, PublishTyped DEF pushAt, CanPushAt
<1>3. ASSUME NEW answer \in Answers, NEW skipped \in Skips, transmit(answer, skipped)
      PROVE  OracleTypeOK'
  BY <1>3, PublishTyped DEF transmit
<1>4. ASSUME NEW paused \in BOOLEAN, setFeedPaused(paused)
      PROVE  OracleTypeOK'
  BY <1>4 DEF setFeedPaused, OracleTypeOK
<1>5. ASSUME NEW status \in {"up", "down", "unreadable"}, sequencerReports(status)
      PROVE  OracleTypeOK'
  <2>1. sequencer' \in [status: {"none", "up", "down", "unreadable"}, startedAt: Times]
    BY <1>5 DEF sequencerReports, OracleTypeOK
  <2> QED
    BY <1>5, <2>1 DEF sequencerReports, OracleTypeOK
<1> QED
  BY <1>1, <1>2, <1>3, <1>4, <1>5 DEF MarketNext, OracleNext, push, marketVars

-----------------------------------------------------------------------------
(***************************************************************************)
(* A feed's history is append-only and its timestamps never decrease.      *)
(***************************************************************************)
FeedInOrder ==
  /\ \A f \in FeedIds : f > latestRoundId => feedRounds[f].updatedAt = 0
  /\ \A f \in FeedIds : feedRounds[f].updatedAt <= LastUpdate
  /\ \A f, g \in FeedIds :
       f < g /\ feedRounds[g].updatedAt # 0 =>
         feedRounds[f].updatedAt <= feedRounds[g].updatedAt
  /\ publisher = "chainlink" => LastUpdate <= now

LEMMA LastUpdateIsTime == OracleTypeOK => LastUpdate \in Times
  BY TimesAreNats DEF OracleTypeOK, LastUpdate, FeedIds, FeedRound

LEMMA FeedInitInOrder == now = 0 /\ OracleInit => FeedInOrder
<1> SUFFICES ASSUME now = 0, OracleInit PROVE FeedInOrder
  OBVIOUS
<1>1. LastUpdate = 0 /\ \A f \in FeedIds : feedRounds[f].updatedAt = 0
  BY DEF OracleInit, LastUpdate, NoData
<1> QED
  BY <1>1 DEF FeedInOrder

\* A new round goes above the others, and no earlier than the last.
Appends(id, at) ==
  /\ id \in FeedIds
  /\ id > latestRoundId
  /\ at \in Times
  /\ at >= LastUpdate
  /\ latestRoundId' = id
  /\ feedRounds'[id].updatedAt = at
  /\ \A f \in FeedIds : f # id => feedRounds'[f] = feedRounds[f]
  /\ publisher = "chainlink" => at = now
  /\ UNCHANGED <<publisher, now>>

LEMMA AppendKeepsOrder ==
  ASSUME OracleTypeOK, FeedInOrder, NEW id, NEW at, Appends(id, at)
  PROVE  FeedInOrder' /\ LastUpdate' = at
<1>1. id \in Nat /\ id # 0 /\ at \in Nat /\ latestRoundId \in Nat /\ LastUpdate \in Nat
  <2>1. id \in 1..MaxFeedId /\ at \in Times
    BY DEF Appends, FeedIds
  <2>2. latestRoundId \in 0..MaxFeedId /\ LastUpdate \in Times
    BY LastUpdateIsTime DEF OracleTypeOK
  <2>3. \A t \in Times : t \in Nat
    BY TimesAreNats
  <2> QED
    BY <2>1, <2>2, <2>3, ScaleFacts
<1>2. LastUpdate' = at
  <2>1. latestRoundId' = id /\ feedRounds'[id].updatedAt = at
    BY DEF Appends
  <2> QED
    BY <1>1, <2>1 DEF LastUpdate
<1>3. \A f \in FeedIds : f \in Nat /\ feedRounds[f].updatedAt \in Nat
  <2>1. \A f \in FeedIds : feedRounds[f].updatedAt \in Nat
    BY TimesAreNats DEF OracleTypeOK, FeedRound
  <2>2. \A f \in FeedIds : f \in Nat
    BY ScaleFacts DEF FeedIds
  <2> QED
    BY <2>1, <2>2
<1>4. \A f \in FeedIds : feedRounds[f].updatedAt <= at
  BY <1>1, <1>3 DEF FeedInOrder, Appends
<1>5. ASSUME NEW f \in FeedIds, f > latestRoundId' PROVE feedRounds'[f].updatedAt = 0
  BY <1>1, <1>3, <1>5 DEF Appends, FeedInOrder
<1>6. ASSUME NEW f \in FeedIds PROVE feedRounds'[f].updatedAt <= at
  BY <1>1, <1>4 DEF Appends
<1>7. ASSUME NEW f \in FeedIds, NEW g \in FeedIds, f < g, feedRounds'[g].updatedAt # 0
      PROVE  feedRounds'[f].updatedAt <= feedRounds'[g].updatedAt
  <2>1. CASE g = id
    BY <1>6, <2>1 DEF Appends
  <2>2. CASE g # id
    <3>1. feedRounds'[g] = feedRounds[g] /\ ~(g > latestRoundId)
      BY <1>7, <2>2 DEF Appends, FeedInOrder
    <3>2. f # id
      BY <1>1, <1>3, <1>7, <3>1 DEF Appends
    <3> QED
      BY <1>7, <3>1, <3>2 DEF Appends, FeedInOrder
  <2> QED
    BY <2>1, <2>2
<1>8. publisher' = "chainlink" => at <= now'
  BY <1>1 DEF Appends
<1> QED
  BY <1>2, <1>5, <1>6, <1>7, <1>8 DEF FeedInOrder

LEMMA PublishAppends ==
  ASSUME now \in Times, OracleTypeOK, FeedInOrder, NEW id, NEW answer, NEW at \in Times,
         Publish(id, answer, at), id > latestRoundId, at >= LastUpdate, UNCHANGED now,
         publisher = "chainlink" => at = now
  PROVE  Appends(id, at)
<1>1. id \in FeedIds /\ latestRoundId' = id /\ UNCHANGED publisher
  BY DEF Publish
<1>2. /\ feedRounds'[id].updatedAt = at
      /\ \A f \in FeedIds : f # id => feedRounds'[f] = feedRounds[f]
  BY <1>1 DEF Publish, OracleTypeOK
<1> QED
  BY <1>1, <1>2 DEF Appends

LEMMA FeedOrderStep ==
  ASSUME now \in Times, OracleTypeOK, FeedInOrder, [MarketNext]_marketVars
  PROVE  \/ UNCHANGED <<feedRounds, LastUpdate>> /\ FeedInOrder'
         \/ /\ UNCHANGED vars
            /\ FeedInOrder'
            /\ \E id, at : Appends(id, at) /\ LastUpdate' = at
<1>1. latestRoundId \in Nat /\ LastUpdate \in Nat /\ now \in Nat
  <2>1. latestRoundId \in 0..MaxFeedId /\ LastUpdate \in Times
    BY LastUpdateIsTime DEF OracleTypeOK
  <2> QED
    BY <2>1, ScaleFacts, TimesAreNats
<1>2. ASSUME UNCHANGED <<publisher, feedRounds, latestRoundId>>
      PROVE  UNCHANGED <<feedRounds, LastUpdate>> /\ FeedInOrder'
  <2>1. UNCHANGED LastUpdate
    BY <1>2 DEF LastUpdate
  <2>2. LastUpdate <= now => LastUpdate <= now'
    BY <1>1, MarketStepIsStep, TimeAdvances
  <2> QED
    BY <1>2, <2>1, <2>2 DEF FeedInOrder
<1>3. CASE UNCHANGED feedVars
  BY <1>2, <1>3 DEF feedVars
<1>4. ASSUME UNCHANGED vars, NEW answer \in Answers, NEW at \in Times, pushAt(answer, at)
      PROVE  \E id : Appends(id, at)
  <2>1. Publish(latestRoundId + 1, answer, at) /\ at > LastUpdate /\ publisher # "chainlink"
    BY <1>4 DEF pushAt, TimestampAdvances, CanPushAt
  <2>2. at >= LastUpdate
    BY <1>1, <2>1, TimesAreNats
  <2>3. latestRoundId + 1 > latestRoundId
    BY <1>1
  <2>4. UNCHANGED now
    BY <1>4 DEF vars
  <2> QED
    BY <2>1, <2>2, <2>3, <2>4, PublishAppends
<1>5. ASSUME UNCHANGED vars, NEW answer \in Answers, NEW skipped \in Skips,
             transmit(answer, skipped)
      PROVE  \E id : Appends(id, now)
  <2>1. /\ Publish(latestRoundId + 1 + skipped, answer, now)
        /\ publisher = "chainlink"
    BY <1>5 DEF transmit
  <2>2. now >= LastUpdate
    BY <1>1, <2>1 DEF FeedInOrder
  <2>3. latestRoundId + 1 + skipped > latestRoundId
    BY <1>1, AdapterAccepts
  <2>4. UNCHANGED now
    BY <1>5 DEF vars
  <2> QED
    BY <2>1, <2>2, <2>3, <2>4, PublishAppends
<1>6. CASE OracleNext /\ UNCHANGED vars
  <2>1. ASSUME NEW paused, setFeedPaused(paused) PROVE UNCHANGED <<publisher, feedRounds, latestRoundId>>
    BY <2>1 DEF setFeedPaused
  <2>2. ASSUME NEW status, sequencerReports(status) PROVE UNCHANGED <<publisher, feedRounds, latestRoundId>>
    BY <2>2 DEF sequencerReports
  <2>3. UNCHANGED <<publisher, feedRounds, latestRoundId>> \/ \E id, at : Appends(id, at)
    BY <1>4, <1>5, <1>6, <2>1, <2>2 DEF OracleNext, push
  <2> QED
    BY <1>2, <1>6, <2>3, AppendKeepsOrder
<1>7. CASE UNCHANGED marketVars
  BY <1>3, <1>7 DEF marketVars
<1> QED
  BY <1>3, <1>6, <1>7 DEF MarketNext

-----------------------------------------------------------------------------
(***************************************************************************)
(* The inductive form of SettledAtPinnedPrice: the feed has also moved     *)
(* past the closeTime, so that what it publishes next cannot land at or    *)
(* before it and become the last round there.                              *)
(***************************************************************************)
PinnedBy(id, f) ==
  /\ IsLastAtOrBefore(f, rounds[id].closeTime)
  /\ rounds[id].closePrice = feedRounds[f].answer * ScaleUp
  /\ LastUpdate > rounds[id].closeTime

PinnedForGood ==
  \A id \in RoundIds :
    rounds[id].status = "Resolved" => \E f \in FeedIds : PinnedBy(id, f)

MarketIInv == IInv /\ OracleTypeOK /\ FeedInOrder /\ PinnedForGood

\* A round that covers an instant is the last one at or before it, and will stay so.
LEMMA CoveringIsLast ==
  ASSUME OracleTypeOK, FeedInOrder, NEW at \in Times, NEW f \in FeedIds, Covers(f, at)
  PROVE  IsLastAtOrBefore(f, at) /\ LastUpdate > at
<1>1. /\ feedRounds[f].updatedAt # 0 /\ feedRounds[f].updatedAt <= at
      /\ f # MaxFeedId /\ feedRounds[f + 1].updatedAt > at
  BY DEF Covers, AnswerUsableAt
<1>2. at \in Nat /\ f \in Nat
  BY TimesAreNats, ScaleFacts DEF FeedIds
<1>3. \A g \in FeedIds : g \in Nat /\ feedRounds[g].updatedAt \in Nat
  <2>1. \A g \in FeedIds : feedRounds[g].updatedAt \in Nat
    BY TimesAreNats DEF OracleTypeOK, FeedRound
  <2>2. \A g \in FeedIds : g \in Nat
    BY ScaleFacts DEF FeedIds
  <2> QED
    BY <2>1, <2>2
<1>4. f + 1 \in FeedIds
  BY <1>1, ScaleFacts DEF FeedIds
<1>5. LastUpdate > at
  <2>1. feedRounds[f + 1].updatedAt <= LastUpdate
    BY <1>4 DEF FeedInOrder
  <2>2. LastUpdate \in Nat
    BY LastUpdateIsTime, TimesAreNats
  <2> QED
    BY <1>1, <1>2, <1>3, <1>4, <2>1, <2>2
<1>6. ASSUME NEW g \in FeedIds, g > f PROVE feedRounds[g].updatedAt \notin 1..at
  <2>1. CASE g = f + 1
    BY <1>1, <1>2, <2>1
  <2>2. CASE g # f + 1 /\ feedRounds[g].updatedAt # 0
    <3>1. f + 1 < g
      BY <1>2, <1>3, <1>6, <2>2
    <3>2. feedRounds[f + 1].updatedAt <= feedRounds[g].updatedAt
      BY <1>4, <2>2, <3>1 DEF FeedInOrder
    <3> QED
      BY <1>1, <1>2, <1>3, <1>4, <3>2
  <2> QED
    BY <2>1, <2>2
<1>7. feedRounds[f].updatedAt \in 1..at
  BY <1>1, <1>2, <1>3
<1> QED
  BY <1>5, <1>6, <1>7 DEF IsLastAtOrBefore

LEMMA ReadableIsLast ==
  ASSUME OracleTypeOK, FeedInOrder, NEW at \in Times, NEW f \in FeedIds, Readable(f, at)
  PROVE  IsLastAtOrBefore(f, at) /\ LastUpdate > at
  BY CoveringIsLast DEF Readable

OneRoundCovers ==
  \A f, g \in FeedIds, at \in Times : Covers(f, at) /\ Covers(g, at) => f = g

LEMMA CoveringIsUnique == OracleTypeOK /\ FeedInOrder => OneRoundCovers
<1> SUFFICES ASSUME OracleTypeOK, FeedInOrder, NEW f \in FeedIds, NEW g \in FeedIds,
                    NEW at \in Times, Covers(f, at), Covers(g, at)
             PROVE  f = g
  BY DEF OneRoundCovers
<1>1. f \in Nat /\ g \in Nat
  BY ScaleFacts DEF FeedIds
<1>2. IsLastAtOrBefore(f, at) /\ IsLastAtOrBefore(g, at)
  BY CoveringIsLast
<1>3. ~(f < g) /\ ~(g < f)
  BY <1>1, <1>2 DEF IsLastAtOrBefore
<1> QED
  BY <1>1, <1>3

(***************************************************************************)
(* No two feed rounds answer for the same instant, which is why the caller *)
(* of resolveRound has no choice of price (readAt).                        *)
(***************************************************************************)
THEOREM ReadableIsUnique ==
  ASSUME OracleTypeOK, FeedInOrder, NEW at \in Times,
         NEW f \in FeedIds, Readable(f, at), NEW g \in FeedIds, Readable(g, at)
  PROVE  f = g
  BY CoveringIsUnique DEF OneRoundCovers, Readable

\* A pin survives whatever the feed publishes next.
LEMMA PinSurvives ==
  ASSUME OracleTypeOK, FeedInOrder, NEW id \in RoundIds, rounds[id].closeTime \in Times,
         rounds'[id] = rounds[id], NEW f \in FeedIds, PinnedBy(id, f),
         \/ UNCHANGED <<feedRounds, LastUpdate>>
         \/ \E new, at : Appends(new, at) /\ LastUpdate' = at
  PROVE  PinnedBy(id, f)'
<1>1. CASE UNCHANGED <<feedRounds, LastUpdate>>
  BY <1>1 DEF PinnedBy, IsLastAtOrBefore
<1>2. ASSUME NEW new, NEW at, Appends(new, at), LastUpdate' = at
      PROVE  PinnedBy(id, f)'
  <2> DEFINE close == rounds[id].closeTime
  <2>1. close \in Nat /\ LastUpdate \in Nat /\ at \in Nat
    BY <1>2, LastUpdateIsTime, TimesAreNats DEF Appends
  <2>2. at > close
    BY <1>2, <2>1 DEF PinnedBy, Appends
  <2>3. new # f
    <3>1. feedRounds[f].updatedAt # 0
      BY <2>1 DEF PinnedBy, IsLastAtOrBefore
    <3> QED
      BY <1>2, <3>1 DEF Appends, FeedInOrder
  <2>4. feedRounds'[f] = feedRounds[f]
    BY <1>2, <2>3 DEF Appends
  <2>5. \A g \in FeedIds : g > f => feedRounds'[g].updatedAt \notin 1..close
    BY <1>2, <2>1, <2>2 DEF PinnedBy, IsLastAtOrBefore, Appends
  <2> QED
    BY <1>2, <2>2, <2>4, <2>5 DEF PinnedBy, IsLastAtOrBefore
<1> QED
  BY <1>1, <1>2

LEMMA OnlyResolveResolves ==
  ASSUME TypeOK, NextButResolve, NEW id \in RoundIds, rounds'[id].status = "Resolved"
  PROVE  rounds[id].status = "Resolved"
<1>1. CASE Untouched(id)
  BY <1>1 DEF Untouched
<1> QED
  BY <1>1, RoundEvolvesUnresolved, StakeEffect, LockEffect, VoidEffect DEF Opened, Voided

LEMMA PinStep ==
  ASSUME MarketIInv, [MarketNext]_marketVars
  PROVE  PinnedForGood'
<1> USE DEF MarketIInv
<1>1. TypeOK /\ now \in Times
  BY DEF IInv, TypeOK
<1> SUFFICES ASSUME NEW id \in RoundIds, rounds'[id].status = "Resolved"
             PROVE  \E f \in FeedIds : PinnedBy(id, f)'
  BY DEF PinnedForGood
<1>2. rounds[id].closeTime \in Times
  BY <1>1 DEF TypeOK, Round
<1>3. CASE rounds[id].status = "Resolved"
  <2>1. PICK f \in FeedIds : PinnedBy(id, f)
    BY <1>3 DEF PinnedForGood
  <2>2. rounds'[id] = rounds[id]
    BY <1>3, MarketStepIsStep, FrozenStep DEF Terminal
  <2>3. PinnedBy(id, f)'
    BY <1>1, <1>2, <2>1, <2>2, FeedOrderStep, PinSurvives
  <2> QED
    BY <2>3
<1>4. CASE rounds[id].status # "Resolved"
  <2>1. PICK f \in FeedIds : resolveWith(id, f) /\ UNCHANGED feedVars
    <3>1. ~NextButResolve
      BY <1>1, <1>4, OnlyResolveResolves
    <3>2. ~(UNCHANGED vars)
      BY <1>4 DEF vars, roundVars
    <3>3. ASSUME NEW other \in RoundIds, NEW f \in FeedIds, resolveWith(other, f)
          PROVE  other = id
      BY <1>1, <1>4, <3>3 DEF resolveWith, resolveRound, TypeOK, CanResolve
    <3> QED
      BY <3>1, <3>2, <3>3 DEF MarketNext, marketVars
  <2> DEFINE close == rounds[id].closeTime
             read == ReadAt(f, close)
  <2>2. read \in OracleReads /\ resolveRound(id, read) /\ read.ok
    BY <2>1, ReadIsAnswer DEF resolveWith, resolveRound, CanResolve
  <2>3. Readable(f, close) /\ read.price = feedRounds[f].answer * ScaleUp
    BY <2>2 DEF ReadAt
  <2>4. IsLastAtOrBefore(f, close) /\ LastUpdate > close
    BY <1>2, <2>3, ReadableIsLast
  <2>5. rounds'[id].closePrice = read.price /\ rounds'[id].closeTime = close
    <3>1. rounds'[id].closePrice = read.price
      BY <1>1, <2>2, ResolveEffect
    <3>2. CASE read.price = rounds[id].lockPrice
      BY <1>1, <2>2, <3>2 DEF resolveRound, TypeOK, Round, CanResolve
    <3>3. CASE read.price # rounds[id].lockPrice
      BY <1>1, <2>2, <3>3 DEF resolveRound, TypeOK, Round, CanResolve
    <3> QED
      BY <3>1, <3>2, <3>3
  <2>6. UNCHANGED <<feedRounds, LastUpdate>>
    BY <2>1 DEF feedVars, LastUpdate
  <2>7. PinnedBy(id, f)'
    BY <2>3, <2>4, <2>5, <2>6 DEF PinnedBy, IsLastAtOrBefore
  <2> QED
    BY <2>7
<1> QED
  BY <1>3, <1>4

LEMMA MarketInitIInv == MarketInit => MarketIInv
<1> SUFFICES ASSUME MarketInit PROVE MarketIInv
  OBVIOUS
<1>1. PinnedForGood
  BY DEF MarketInit, Init, NoRound, PinnedForGood
<1> QED
  BY <1>1, InitIInv, OracleInitTyped, FeedInitInOrder DEF MarketInit, MarketIInv, Init

LEMMA MarketStepIInv == MarketIInv /\ [MarketNext]_marketVars => MarketIInv'
<1> SUFFICES ASSUME MarketIInv, [MarketNext]_marketVars PROVE MarketIInv'
  OBVIOUS
<1>1. now \in Times
  BY DEF MarketIInv, IInv, TypeOK
<1>2. IInv'
  BY MarketStepIsStep, StepIInv DEF MarketIInv
<1>3. OracleTypeOK' /\ FeedInOrder'
  BY <1>1, OracleTypeStep, FeedOrderStep DEF MarketIInv
<1> QED
  BY <1>2, <1>3, PinStep DEF MarketIInv

THEOREM MarketInvariance == MarketSpec => []MarketIInv
  BY MarketInitIInv, MarketStepIInv, PTL DEF MarketSpec

(***************************************************************************)
(* On any feed, with any mix of outages, stalls, phase changes and late or *)
(* repeated calls of resolveRound, a round that resolved settled on the    *)
(* last price published at or before its closeTime (readAt).               *)
(***************************************************************************)
THEOREM SettlementIsPinned == MarketSpec => []SettledAtPinnedPrice
<1>1. MarketIInv => SettledAtPinnedPrice
  BY DEF MarketIInv, PinnedForGood, PinnedBy, SettledAtPinnedPrice
<1> QED
  BY <1>1, MarketInvariance, PTL

(***************************************************************************)
(* The composition of contract and adapter stays well typed.               *)
(***************************************************************************)
THEOREM MarketTypeCorrect == MarketSpec => []MarketTypeOK
<1>1. MarketIInv => MarketTypeOK
  BY DEF MarketIInv, IInv, MarketTypeOK
<1> QED
  BY <1>1, MarketInvariance, PTL

(***************************************************************************)
(* The round keeps its promises to holders behind a real adapter as it     *)
(* does behind any oracle: a price market is a pull-payment escrow.        *)
(***************************************************************************)
THEOREM MarketImplementsEscrow == MarketSpec => RefinesPullEscrow
<1>1. MarketInit => Escrow!EscrowInit
  BY InitEscrow DEF MarketInit
<1>2. MarketIInv /\ [MarketNext]_marketVars => [Escrow!EscrowNext]_(Escrow!escrowVars)
  BY MarketStepIsStep, StepImplements DEF MarketIInv
<1> QED
  BY <1>1, <1>2, MarketInvariance, PTL DEF MarketSpec, RefinesPullEscrow, Escrow!EscrowSpec

(***************************************************************************)
(* A price market can always pay what it owes and keeps only dust, on any  *)
(* feed and in any order of settlements and claims (claimableOf, claim).   *)
(***************************************************************************)
THEOREM PriceMarketIsSolvent == MarketSpec => [](Solvent /\ NothingStranded)
<1>1. MarketInit => MoneyInv
  BY InitMoney DEF MarketInit
<1>2. MarketIInv /\ MoneyInv /\ [MarketNext]_marketVars => MoneyInv'
  BY MarketStepIsStep, StepMoney DEF MarketIInv
<1>3. MoneyInv => Solvent /\ NothingStranded
  BY DEF MoneyInv
<1> QED
  BY <1>1, <1>2, <1>3, MarketInvariance, PTL DEF MarketSpec

\* What covers an instant goes on covering it, at the same answer.
LEMMA CoveringSurvives ==
  ASSUME now \in Times, OracleTypeOK, FeedInOrder, [MarketNext]_marketVars,
         NEW f \in FeedIds, NEW at \in Times, Covers(f, at)
  PROVE  Covers(f, at)' /\ feedRounds'[f] = feedRounds[f]
<1>1. /\ feedRounds[f].updatedAt \in 1..at /\ f # MaxFeedId
      /\ f + 1 \in FeedIds /\ feedRounds[f + 1].updatedAt > at
  <2>1. f + 1 \in FeedIds /\ f \in Nat
    BY ScaleFacts DEF FeedIds, Covers
  <2>2. feedRounds[f].updatedAt \in 1..at
    BY CoveringIsLast DEF IsLastAtOrBefore
  <2> QED
    BY <2>1, <2>2 DEF Covers
<1>2. at \in Nat /\ f \in Nat /\ latestRoundId \in Nat
  BY TimesAreNats, ScaleFacts DEF FeedIds, OracleTypeOK
<1>3. feedRounds'[f] = feedRounds[f] /\ feedRounds'[f + 1] = feedRounds[f + 1]
  <2>1. CASE UNCHANGED feedRounds
    BY <2>1
  <2>2. ASSUME NEW new, NEW t, Appends(new, t)
        PROVE  feedRounds'[f] = feedRounds[f] /\ feedRounds'[f + 1] = feedRounds[f + 1]
    <3>1. ~(f > latestRoundId) /\ ~(f + 1 > latestRoundId)
      BY <1>1, <1>2 DEF FeedInOrder
    <3>2. f # new /\ f + 1 # new
      BY <2>2, <3>1 DEF Appends
    <3> QED
      BY <1>1, <2>2, <3>2 DEF Appends
  <2> QED
    BY <2>1, <2>2, FeedOrderStep
<1> QED
  BY <1>3 DEF Covers, AnswerUsableAt

LEMMA AnswersStand ==
  ASSUME MarketIInv, [MarketNext]_marketVars,
         NEW f \in FeedIds, NEW at \in Times, Covers(f, at)
  PROVE  /\ Covers(f, at)'
         /\ feedRounds'[f].answer = feedRounds[f].answer
         /\ \A g \in FeedIds : ReadAt(g, at)'.ok => g = f
<1>1. OracleTypeOK /\ FeedInOrder /\ now \in Times
  BY DEF MarketIInv, IInv, TypeOK
<1>2. OracleTypeOK' /\ FeedInOrder'
  BY MarketStepIInv DEF MarketIInv
<1>3. Covers(f, at)' /\ feedRounds'[f] = feedRounds[f]
  BY <1>1, CoveringSurvives
<1>4. ASSUME NEW g \in FeedIds, ReadAt(g, at)'.ok PROVE g = f
  <2>1. Covers(g, at)'
    BY <1>4 DEF ReadAt, Readable
  <2>2. OneRoundCovers'
    BY <1>2, CoveringIsUnique, PTL
  <2> QED
    BY <1>3, <2>1, <2>2 DEF OneRoundCovers
<1> QED
  BY <1>3, <1>4

(***************************************************************************)
(* On any feed, the answer about an instant never changes once there is    *)
(* one, and no feed round but its own is ever given for it, over any       *)
(* sequence of publications, phase changes and outages (readAt).           *)
(***************************************************************************)
THEOREM AnswersAreFinal == MarketSpec => AnswerIsFinal
<1>1. MarketIInv /\ [MarketNext]_marketVars =>
        [<<now, feedVars>>' # <<now, feedVars>> =>
           \A f \in FeedIds : f < latestRoundId => \A at \in Times :
             Covers(f, at) =>
               /\ Covers(f, at)'
               /\ feedRounds'[f].answer = feedRounds[f].answer
               /\ \A g \in FeedIds : ReadAt(g, at)'.ok => g = f]_marketVars
  BY AnswersStand
<1> QED
  BY <1>1, MarketInvariance, PTL DEF MarketSpec, AnswerIsFinal

LEMMA StakesBeforeAnswers ==
  ASSUME MarketIInv, [MarketNext]_marketVars, NEW id \in RoundIds,
         publisher = "chainlink", stakeOf'[id] # stakeOf[id], NEW f \in FeedIds
  PROVE  ~ReadAt(f, rounds[id].closeTime).ok
<1> USE DEF MarketIInv, IInv
<1> DEFINE close == rounds[id].closeTime
<1>1. Staked(id)
  BY MarketStepIsStep, RoundEvolves
     DEF Untouched, Opened, lockRound, Voided, VoidRound, Resolved, resolveRound,
         SettlesNothingElse, bookVars, CanLock, CanResolve
<1>2. rounds[id].status = "Open" /\ now < CutoffAt(id)
  BY <1>1 DEF Staked, takePosition, takePositionFor, TakePosition, entryIsOpen
<1>3. now \in Nat /\ close \in Nat /\ rounds[id].lockTime \in Nat /\ EntryCutoff \in Nat
  <2>1. now \in Times /\ close \in Times /\ rounds[id].lockTime \in Times
    BY DEF TypeOK, Round
  <2> QED
    BY <2>1, TimesAreNats, ConstructorAccepts
<1>4. now < close
  <2>1. rounds[id].lockTime < close
    BY <1>2 DEF WellScheduled
  <2> QED
    BY <1>2, <1>3, <2>1 DEF CutoffAt
<1>5. ASSUME Readable(f, close) PROVE FALSE
  <2>1. LastUpdate > close
    <3>1. close \in Times
      BY DEF TypeOK, Round
    <3> QED
      BY <1>5, <3>1, ReadableIsLast
  <2>2. LastUpdate <= now
    BY DEF FeedInOrder
  <2>3. LastUpdate \in Nat
    BY LastUpdateIsTime, TimesAreNats
  <2> QED
    BY <1>3, <1>4, <2>1, <2>2, <2>3
<1> QED
  BY <1>5 DEF ReadAt

(***************************************************************************)
(* Behind a feed that stamps rounds with the present nobody stakes on a    *)
(* known answer, whoever fails to call lockRound (_takePosition, readAt).  *)
(***************************************************************************)
THEOREM NoStakeOnAKnownAnswer == MarketSpec => EntryPrecedesAnswer
<1>1. MarketIInv /\ [MarketNext]_marketVars =>
        [\A id \in RoundIds :
           publisher = "chainlink" /\ stakeOf'[id] # stakeOf[id] =>
             \A f \in FeedIds : ~ReadAt(f, rounds[id].closeTime).ok]_marketVars
  BY StakesBeforeAnswers
<1> QED
  BY <1>1, MarketInvariance, PTL DEF MarketSpec, EntryPrecedesAnswer
=============================================================================
