------------------------------ MODULE MarketDesk ------------------------------
(* The screens over a price market: the operator's console, which schedules,
   locks, settles and unwinds rounds, and the card, which quotes one to whoever
   may enter it. Both run over the contract and the adapter of PriceMarket: a
   screen holds what it last read, the chain moves on, and a call pressed on the
   screen is mined later or reverts. The market has one round here, number 1.
   The device's clock (useNow) is taken to agree with the chain's. *)
EXTENDS PriceMarket

CONSTANTS
  Me,                       \* the account the card belongs to
  Strangers,                \* accounts that open the console and do not own the market
  Leads, Windows,           \* bound: seconds typed into the form
  Scheduled,                \* bound: rounds already open when a page opens
  OpeningPools,             \* bound: what the console's round holds when it opens
  MaxPresses                \* bound: calls the console sends

ASSUME DeskInputs ==
  /\ Me \in Users /\ Owner \notin Strangers
  /\ MaxRounds > 0
  /\ \A s \in Scheduled :
       /\ s \in [openTime: Times, lockTime: Times, closeTime: Times]
       /\ s.lockTime > s.openTime + EntryCutoff /\ s.closeTime > s.lockTime
  /\ OpeningPools \subseteq [Sides -> Nat]
  /\ \A pool \in OpeningPools : pool["Up"] + pool["Down"] <= Funding[Me]
  /\ Strikes \ {0} # {}                    \* a round that opened has a strike
  /\ Leads \cup Windows \cup {MaxPresses} \subseteq Nat

VARIABLES
  page,                     \* "console" or "card"
  operator,                 \* the account connected to the console
  seen,                     \* the round, its phase and my stake, read in one batch
  seenFees,                 \* the console's read of protocolFees
  spot,                     \* the card's read of readLatest
  print,                    \* the feed round whose timestamp the card has read
  found,                    \* the feed round "find" returned, 0 before or without one
  request,                  \* the call sent from the console and not mined yet
  presses                   \* calls sent so far, for the bound alone

screenVars == <<page, operator, seen, seenFees, spot, print, found, request, presses>>
deskVars == <<marketVars, screenVars>>

NoRequest == <<>>
NoSpot == [price |-> 0, id |-> 0]

-----------------------------------------------------------------------------
\* The contract's views the screens read.

phaseOf(id) ==
  CASE rounds[id].status = "Open" -> IF entryIsOpen(id) THEN "Open" ELSE "Cutoff"
    [] rounds[id].status = "Locked" -> "Observation"
    [] OTHER -> rounds[id].status

\* readLatest answers a zero price when it refuses, and the page drops a zero.
ReadLatest ==
  IF /\ latestRoundId # 0
     /\ ChainIsTrustworthyAt(now)
     /\ AnswerUsableAt(latestRoundId, now)
    THEN [price |-> feedRounds[latestRoundId].answer * ScaleUp, id |-> latestRoundId]
    ELSE NoSpot

RoundNow == [round |-> rounds[1], phase |-> phaseOf(1), held |-> TotalStake(1, Me) > 0]

-----------------------------------------------------------------------------
\* The card.

TotalOf(r) == r.pool["Up"] + r.pool["Down"]

\* Mutant: the quote forgets the rake.
MultipleBeforeRake(r, side) == (TotalOf(r) * WAD) \div r.pool[side]

MultipleFor(r, side) == ((TotalOf(r) - (TotalOf(r) * Rake) \div WAD) * WAD) \div r.pool[side]

EntryOpen(r) == r.status = "Open" /\ r.openTime <= now /\ now + EntryCutoff < r.lockTime

\* What the countdown of a card in this phase runs to.
CardDeadline(r, phase) ==
  CASE phase = "Open" -> r.lockTime - EntryCutoff
    [] phase = "Cutoff" -> r.lockTime
    [] OTHER -> r.closeTime

WillVoidOnLock(r) == \E side \in Sides : r.pool[side] < MinSidePool

\* The button of a side: whether it takes a stake, the multiple it quotes if there
\* is one, and whether it says the side won.
SideButton(r, side) ==
  [enabled |-> EntryOpen(r),
   pays |-> IF r.pool[side] = 0 THEN {} ELSE {MultipleFor(r, side)},
   won |-> r.status = "Resolved" /\ r.winner = side]

\* The clock of the card and its warning.
RoundCard(r, phase) ==
  [deadline |-> CardDeadline(r, phase), thin |-> r.status = "Open" /\ WillVoidOnLock(r)]

\* The side a price favours: a price on the strike counts as Down here.
StandingOf(price, strike) == IF price > strike THEN "Up" ELSE "Down"

\* The row of the market in the list: the round it summarises, until that is settled.
MarketRow ==
  LET live == seen.phase \notin {"None", "Resolved", "Void"} IN
  [closesAt |-> IF seen.phase = "Open" THEN {CardDeadline(seen.round, "Open")} ELSE {},
   pays |-> [side \in Sides |-> IF live THEN SideButton(seen.round, side).pays ELSE {}],
   leads |-> IF live /\ spot # NoSpot THEN {StandingOf(spot.price, seen.round.lockPrice)} ELSE {}]

\* The card says who is ahead until the round is settled.
SpotLineShows == seen.round.status \in {"Open", "Locked"} /\ spot # NoSpot

\* The timestamp query is keyed by the feed round the price came from.
PrintShown == print # 0 /\ print = spot.id

\* The registry has delisted the market: it is listed to those who hold a stake in it.
Visible == seen.held

CardShows == page = "card" /\ Visible /\ seen.round.status # "None"

-----------------------------------------------------------------------------
\* The console.

ScheduleFrom(lead, entry, observation) ==
  [openTime |-> now + lead, lockTime |-> now + lead + entry,
   closeTime |-> now + lead + entry + observation]

Acceptable(s) ==
  /\ s.openTime >= now
  /\ s.lockTime > s.openTime + EntryCutoff
  /\ s.closeTime > s.lockTime

Schedules == {s \in {ScheduleFrom(l, e, o) : l \in Leads, e \in Windows, o \in Windows} :
                Acceptable(s)}

\* Mutant: the last second of the lock window is already too late.
MissesTheLastSecond(r) ==
  CASE r.status = "Open" /\ now >= r.lockTime ->
         IF now >= r.lockTime + LockWindow THEN "voidUnlockedRound" ELSE "lockRound"
    [] r.status = "Locked" /\ now >= r.closeTime ->
         IF now > r.closeTime + ResolveDeadline THEN "voidUnsettledRound" ELSE "resolveRound"
    [] OTHER -> "none"

\* The one action a round needs next.
ActionFor(r) ==
  CASE r.status = "Open" /\ now >= r.lockTime ->
         IF now > r.lockTime + LockWindow THEN "voidUnlockedRound" ELSE "lockRound"
    [] r.status = "Locked" /\ now >= r.closeTime ->
         IF now > r.closeTime + ResolveDeadline THEN "voidUnsettledRound" ELSE "resolveRound"
    [] OTHER -> "none"

IsOwnerOnly(call) == call \in {"openRound", "voidUnsettledRound", "withdrawFees"}

\* getRoundData reverts for an id without data, and the page reads that as null.
HasData(f) == feedRounds[f].updatedAt # 0

\* Mutant: an id without data counts as one after the close.
GapsSortHigh(f, closeTime) == HasData(f) /\ feedRounds[f].updatedAt <= closeTime

HoldsAt(f, closeTime) == HasData(f) => feedRounds[f].updatedAt <= closeTime

\* One turn of the loop: the half at whose low end HoldsAt holds and at whose high
\* end it does not.
Halve(ids, closeTime) ==
  LET mid == ids.lo + (ids.hi - ids.lo) \div 2
  IN  IF ids.hi - ids.lo <= 1 THEN ids
      ELSE IF HoldsAt(mid, closeTime) THEN [ids EXCEPT !.lo = mid] ELSE [ids EXCEPT !.hi = mid]

\* Feed rounds never change, so the reads of one search are one step.  Every turn
\* narrows the search, so MaxFeedId turns are enough.
FindCloseRound(closeTime) ==
  LET search[turn \in 0..MaxFeedId] ==
        IF turn = 0 THEN [lo |-> 0, hi |-> latestRoundId]
        ELSE Halve(search[turn - 1], closeTime)
      last == search[MaxFeedId].lo
  IN  IF latestRoundId = 0 \/ HoldsAt(latestRoundId, closeTime) \/ last = 0 \/ ~HasData(last)
        THEN 0 ELSE last

\* The search and the dry run of readAt that follows it.
SearchResult ==
  LET f == FindCloseRound(seen.round.closeTime)
  IN  IF f # 0 /\ ReadAt(f, seen.round.closeTime).ok THEN f ELSE 0

\* What the row of a round offers, given what "find" returned.
RowOffers(feedRound) ==
  CASE ActionFor(seen.round) = "none" -> {}
    [] ActionFor(seen.round) = "resolveRound" ->
         {<<"resolveRound", f>> : f \in {feedRound} \ {0}}
    [] OTHER -> {<<ActionFor(seen.round)>>}

OpenOffers ==
  {<<"openRound", s.openTime, s.lockTime, s.closeTime, strike>> :
     s \in {s \in Schedules : s.closeTime + ResolveDeadline < MaxTime}, strike \in Strikes}

FeeOffers == {<<"withdrawFees", amount>> : amount \in 1..seenFees}

PushOffers ==
  IF publisher = "demo" THEN {<<"push", price>> : price \in {a \in Answers : a > 0}} ELSE {}

Offers ==
  {q \in RowOffers(found) \cup OpenOffers \cup FeeOffers \cup PushOffers :
     IsOwnerOnly(q[1]) \/ q[1] = "push" => operator = Owner}

-----------------------------------------------------------------------------
\* Calls, and who makes them.

Perform(q) ==
  \/ q[1] = "openRound" /\ openRound(q[2], q[3], q[4], q[5]) /\ UNCHANGED feedVars
  \/ q[1] = "lockRound" /\ lockRound(1) /\ UNCHANGED feedVars
  \/ q[1] = "voidUnlockedRound" /\ voidUnlockedRound(1) /\ UNCHANGED feedVars
  \/ q[1] = "voidUnsettledRound" /\ voidUnsettledRound(1) /\ UNCHANGED feedVars
  \/ q[1] = "resolveRound" /\ resolveWith(1, q[2]) /\ UNCHANGED feedVars
  \/ q[1] = "withdrawFees" /\ withdrawFees(q[2]) /\ UNCHANGED feedVars
  \/ q[1] = "push" /\ push(q[2]) /\ UNCHANGED vars

\* The contract's own guards on the call.
CanPerform(q) ==
  \/ q[1] = "openRound" /\ CanOpen(q[2], q[3], q[4], q[5])
  \/ q[1] = "lockRound" /\ CanLock(1)
  \/ q[1] = "voidUnlockedRound" /\ CanVoidUnlocked(1)
  \/ q[1] = "voidUnsettledRound" /\ CanVoidUnsettled(1)
  \/ q[1] = "resolveRound" /\ CanResolve(1, ReadAt(q[2], rounds[1].closeTime))
  \/ q[1] = "withdrawFees" /\ CanWithdrawFees(q[2])
  \/ q[1] = "push" /\ CanPushAt(q[2], now)

Accepts(q) == (IsOwnerOnly(q[1]) => operator = Owner) /\ CanPerform(q)

RoundCalls ==
  {<<"lockRound">>, <<"voidUnlockedRound">>, <<"voidUnsettledRound">>}
    \cup {<<"resolveRound", f>> : f \in FeedIds}

\* Holders, the keeper and the feed.  Bound: stakes are taken only where the card
\* shows them, and the feed skips ids or is paused only where the console would
\* resolve on it.
Others ==
  /\ \/ \E q \in RoundCalls : Perform(q)
     \/ roundCount < MaxRounds /\ \E q \in OpenOffers : Perform(q)
     \/ withdrawFees(protocolFees) /\ UNCHANGED feedVars
     \/ Tick /\ UNCHANGED <<pauseVars, treasury, roundVars, feedVars>>
     \/ /\ page = "card"
        /\ \E side \in Sides, amount \in Amounts : takePosition(Me, 1, side, amount)
        /\ UNCHANGED feedVars
     \/ /\ \/ \E answer \in Answers :
                push(answer) \/ \E skipped \in Skips : transmit(answer, IF page = "card" THEN 0 ELSE skipped)
           \/ page = "console" /\ setFeedPaused(~feedPaused)
        /\ UNCHANGED vars
  /\ UNCHANGED screenVars

RoundsPoll ==
  /\ seen # RoundNow
  /\ seen' = RoundNow
  /\ UNCHANGED <<marketVars, page, operator, seenFees, spot, print, found, request, presses>>

FeesPoll ==
  /\ page = "console" /\ seenFees # protocolFees
  /\ seenFees' = protocolFees
  /\ UNCHANGED <<marketVars, page, operator, seen, spot, print, found, request, presses>>

SpotPoll ==
  /\ page = "card" /\ spot # ReadLatest
  /\ spot' = ReadLatest
  /\ UNCHANGED <<marketVars, page, operator, seen, seenFees, print, found, request, presses>>

PrintPoll ==
  /\ page = "card" /\ spot.id # print
  /\ print' = spot.id
  /\ UNCHANGED <<marketVars, page, operator, seen, seenFees, spot, found, request, presses>>

Find ==
  /\ page = "console" /\ ActionFor(seen.round) = "resolveRound"
  /\ found # SearchResult
  /\ found' = SearchResult
  /\ UNCHANGED <<marketVars, page, operator, seen, seenFees, spot, print, request, presses>>

Press ==
  /\ page = "console" /\ request = NoRequest /\ presses < MaxPresses
  /\ request' \in Offers
  /\ presses' = presses + 1
  /\ UNCHANGED <<marketVars, page, operator, seen, seenFees, spot, print, found>>

\* A call that lands is followed by a refetch, which is a poll of its own.
Mined ==
  /\ request # NoRequest
  /\ IF Accepts(request) THEN Perform(request) ELSE UNCHANGED marketVars
  /\ request' = NoRequest
  /\ UNCHANGED <<page, operator, seen, seenFees, spot, print, found, presses>>

\* The round as openRound and takePosition leave it at the start of the clock.
AlreadyOpen(s, pool) ==
  LET stake == pool["Up"] + pool["Down"] IN
  /\ roundCount = 1
  /\ rounds = [id \in RoundIds |->
       IF id # 1 THEN NoRound
       ELSE [NoRound EXCEPT !.status = "Open", !.openTime = s.openTime,
               !.lockTime = s.lockTime, !.closeTime = s.closeTime,
               !.lockPrice = CHOOSE strike \in Strikes \ {0} : TRUE, !.pool = pool]]
  /\ stakeOf = [id \in RoundIds |-> [u \in Users |->
       IF id = 1 /\ u = Me THEN pool ELSE [side \in Sides |-> 0]]]
  /\ balance = [Funding EXCEPT ![Me] = @ - stake, ![Market] = stake]
  /\ funders = [id \in RoundIds |-> [u \in Users |->
       IF id = 1 /\ u = Me /\ stake > 0 THEN {Me} ELSE {}]]

NotOpenYet ==
  /\ roundCount = 0
  /\ rounds = [id \in RoundIds |-> NoRound]
  /\ stakeOf = [id \in RoundIds |-> [u \in Users |-> [side \in Sides |-> 0]]]
  /\ balance = Funding
  /\ funders = [id \in RoundIds |-> [u \in Users |-> {}]]

DeskInit ==
  /\ now = 0
  /\ PauseInit
  /\ TreasuryInit
  /\ claimed = [id \in RoundIds |-> [u \in Users |-> FALSE]]
  /\ settlementSinkOf = [id \in RoundIds |-> [u \in Users |-> ZeroAddress]]
  /\ isRouter = [r \in Routers |-> FALSE]
  /\ protocolFees = 0
  /\ OracleInit
  /\ sequencer.status = "none"
  /\ \/ /\ page = "console" /\ operator \in {Owner} \cup Strangers
        /\ NotOpenYet \/ \E s \in Scheduled, pool \in OpeningPools :
                          s.openTime = 0 /\ AlreadyOpen(s, pool)
     \/ /\ page = "card" /\ operator = Me /\ publisher = "chainlink"
        /\ \E s \in Scheduled : s.openTime > 0 /\ AlreadyOpen(s, [side \in Sides |-> 0])
  /\ seen = RoundNow
  /\ seenFees = 0
  /\ spot = NoSpot
  /\ print = 0
  /\ found = 0
  /\ request = NoRequest
  /\ presses = 0

DeskNext ==
  \/ Others
  \/ RoundsPoll \/ FeesPoll \/ SpotPoll \/ PrintPoll
  \/ Find
  \/ Press
  \/ Mined

DeskSpec == DeskInit /\ [][DeskNext]_deskVars

-----------------------------------------------------------------------------
\* Reasons for a revert that no screen can exclude, the world having moved after the
\* press, and one this screen lets through: the form takes a strike of zero.
Overtaken(q) ==
  CASE q[1] = "openRound" -> roundCount = MaxRounds \/ now > q[2] \/ q[5] = 0
    [] q[1] \in {"lockRound", "voidUnlockedRound"} -> rounds[1].status # "Open"
    [] q[1] = "voidUnsettledRound" -> rounds[1].status # "Locked"
    [] q[1] = "resolveRound" -> rounds[1].status # "Locked" \/ feedPaused
    [] q[1] = "withdrawFees" -> protocolFees < q[2]
    [] q[1] = "push" -> LastUpdate >= now \/ latestRoundId = MaxFeedId

(***************************************************************************)
(* A button of the console that was live when it was pressed does not      *)
(* revert when it is mined, however old the read it was drawn from, unless *)
(* somebody else got there first, the feed was paused, or the form was     *)
(* given a strike of zero or a lead that ran out.  In particular the feed  *)
(* round "find" returned stays the one readAt accepts (operator.ts, "a     *)
(* restatement that drifts is a console offering a button that reverts").  *)
(***************************************************************************)
OfferedCallIsAccepted == request # NoRequest => Accepts(request) \/ Overtaken(request)

\* No id without data among the feed rounds published after closeTime.
UnbrokenAfter(closeTime) ==
  \A f, g \in 1..latestRoundId : g < f /\ feedRounds[g].updatedAt > closeTime => HasData(f)

(***************************************************************************)
(* Whatever call the contract would accept to move the round on, the owner *)
(* of an up-to-date console is offered one that it accepts: no round is    *)
(* left hanging because the console sees nothing to do (actionFor,         *)
(* findCloseRound).                                                        *)
(***************************************************************************)
DueRoundIsOffered ==
  page = "console" /\ operator = Owner /\ seen.round = rounds[1]
    /\ (\E q \in RoundCalls : Accepts(q))
    /\ UnbrokenAfter(rounds[1].closeTime)
  => \E q \in RowOffers(SearchResult) : Accepts(q)

(***************************************************************************)
(* What findCloseRound's comment says of the search: it returns null only  *)
(* when "the feed has not published since the close, or its history begins *)
(* after it" (lib/operator.ts:217).                                        *)
(***************************************************************************)
SearchFindsTheRound ==
  \A f \in FeedIds :
    rounds[1].status = "Locked" /\ Readable(f, rounds[1].closeTime)
      => FindCloseRound(rounds[1].closeTime) = f

\* The entry buttons and their countdown agree with the contract, on a late read too.
EntryMatches ==
  /\ \A side \in Sides :
       /\ SideButton(seen.round, side).enabled => entryIsOpen(1)
       /\ seen.round = rounds[1] /\ entryIsOpen(1) => SideButton(seen.round, side).enabled
  /\ seen.phase = "Open" => (now < RoundCard(seen.round, "Open").deadline <=> entryIsOpen(1))
  /\ \A closes \in MarketRow.closesAt : now < closes <=> entryIsOpen(1)

\* The multiple, quoted once the pools were final, is what a winner is paid per unit.
QuoteHolds ==
  rounds[1].status = "Resolved" /\ seen.round.pool = rounds[1].pool =>
    \A u \in Users :
      LET side == rounds[1].winner
          stake == stakeOf[1][u][side]
          quotes == SideButton(seen.round, side).pays
          holds(m) == Entitlement(1, u) - (m * stake) \div WAD \in 0..((stake \div WAD) + 1)
      IN  stake > 0 => quotes # {} /\ \A m \in quotes \cup MarketRow.pays[side] : holds(m)

\* The side called ahead, on the card or in the list, at the price the round then
\* settled on is the one that won, and so is the one whose button says it did.
LeaderWins ==
  /\ \A side \in Sides : SideButton(seen.round, side).won => side = rounds[1].winner
  /\ rounds[1].status = "Resolved" /\ spot # NoSpot /\ IsLastAtOrBefore(spot.id, rounds[1].closeTime) =>
       /\ SpotLineShows => StandingOf(spot.price, seen.round.lockPrice) = rounds[1].winner
       /\ MarketRow.leads \subseteq {rounds[1].winner}

\* The age shown is that of the price shown, though they are read apart.
PrintIsOfThePrice ==
  PrintShown => spot.price = feedRounds[print].answer * ScaleUp

\* A round that locked was not called thin, and a holder's market is listed.
NothingIsHidden ==
  /\ rounds[1].status = "Locked" /\ seen.round.pool = rounds[1].pool =>
       ~RoundCard(seen.round, seen.phase).thin
  /\ seen = RoundNow /\ TotalStake(1, Me) > 0 => CardShows

(***************************************************************************)
(* The card tells the round the contract keeps: whether a stake would be   *)
(* taken, what a side pays, who is ahead and as of when, whether it would  *)
(* void at the lock, and to a holder always (RoundCard, MarketRow,         *)
(* lib/rounds.ts, lib/spot.ts, useSpot).                                   *)
(***************************************************************************)
CardTellsTheRound ==
  page = "card" =>
    EntryMatches /\ QuoteHolds /\ LeaderWins /\ PrintIsOfThePrice /\ NothingIsHidden
=============================================================================
