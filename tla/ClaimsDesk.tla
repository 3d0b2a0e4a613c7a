----------------------------- MODULE ClaimsDesk -----------------------------
(* Collecting winnings in the web app: one account's rounds, the listing the
   indexer answers (usePositions), the chain's confirmation of it
   (useClaimConfirmation), the recent rounds read from the chain (useRounds),
   the claim queue (useClaimAll) and the alerts (useAlerts). The chain is a log
   of settlements and payments; every read is the length of the log it saw, so
   each of them is a state of the chain, only of a different moment. *)
EXTENDS Integers, Sequences, FiniteSets, SequencesExt, FiniteSetsExt

CONSTANTS Rounds,    \* ids of one market, the newest the largest
          Mine,      \* the account's stake in each, [up, down]
          Others,    \* what everybody else staked
          Rake,      \* taken from a resolved pool
          Results,   \* how each round may settle: a set of "up", "down", "void"
          Before,    \* the log when the page opens
          Window,    \* how many recent rounds useRounds loads
          SeenLimit, \* how many alert ids the browser remembers
          Bands,     \* health bands the vault may be in
          MaxRuns,   \* bound: claim runs started
          MaxFaults, \* bound: failed simulations, sends, receipts and reads
          MaxMoves   \* bound: changes of the health band

ASSUME DeskBounds == {Window, SeenLimit, MaxRuns, MaxFaults, MaxMoves} \subseteq Nat
\* alertsFor returns two alerts at most; the browser remembers fifty.
ASSUME SeenHoldsTheAlerts == SeenLimit >= 2
ASSUME OpensInASafeBand == "safe" \in Bands
ASSUME RoundsAreListed == IsFiniteSet(Rounds) /\ Rounds \subseteq Nat
ASSUME StakesAreAmounts ==
  Rake \in Nat /\ \A r \in Rounds : {Mine[r].up, Mine[r].down, Others[r].up, Others[r].down} \subseteq Nat

VARIABLES page,        \* which page is open
          log,         \* the chain: settlements and payments, in order
          listing,     \* how much of it the cached listing includes
          unlisted,    \* the last fetch of the listing failed
          claimReads,  \* the last confirmation: the rounds asked for, and when
          roundsAt,    \* when the rounds batch of useRounds last answered
          positionsAt, \* when its positions batch did
          run,         \* the claim queue: where it is, and each claim's outcome
          band,        \* the vault's health band
          seen,        \* alert ids announced and remembered
          spent        \* runs, faults and moves so far, for the bounds alone

deskVars == <<page, log, listing, unlisted, claimReads, roundsAt, positionsAt, run, band, seen, spent>>

\* A set as a sequence, the greatest key first. (SetToSortSeq and SelectSeq, in terms
\* the proofs can expand.)
Descending(S, Key(_)) ==
  CHOOSE order \in [1..Cardinality(S) -> S] :
    \A i, j \in DOMAIN order : i < j => Key(order[i]) >= Key(order[j]) /\ order[i] # order[j]

\* The members of a sequence that pass a test, in their order.
Those(s, Test(_)) ==
  LET kept == {i \in DOMAIN s : Test(s[i])}
      order == Descending(kept, LAMBDA i : -i) IN
  [k \in DOMAIN order |-> s[order[k]]]

\* The pages whose figures are read from the chain rather than from the listing.
OnChainPage == page \in {"portfolio", "elsewhere"}

NotRead == -1
Now == Len(log)

-----------------------------------------------------------------------------
\* The contract's arithmetic, at any length of the log.

TotalStake(r) == Mine[r].up + Mine[r].down
Pool(r, side) == Mine[r][side] + Others[r][side]
TotalPool(r) == Pool(r, "up") + Pool(r, "down")
Payout(r, result) ==
  IF result = "void" THEN TotalStake(r)
  ELSE ((TotalPool(r) - Rake) * Mine[r][result]) \div Pool(r, result)

\* How the contract may settle a round: void, or for a side that has a pool.
CanSettle(r, result) ==
  \/ result = "void"
  \/ result \in {"up", "down"} /\ Pool(r, result) > 0 /\ Rake <= TotalPool(r)

\* The logs it writes: a round settles once, and pays an account once, something,
\* after that.
Events ==
       [kind : {"settled"}, round : Rounds, result : {"up", "down", "void"}]
  \cup [kind : {"paid"}, round : Rounds, by : {"run", "other"}]
IsChain(l) ==
  /\ l \in Seq(Events)
  /\ \A i, j \in DOMAIN l : l[i].kind = l[j].kind /\ l[i].round = l[j].round => i = j
  /\ \A i \in DOMAIN l : l[i].kind = "settled" => CanSettle(l[i].round, l[i].result)
  /\ \A i \in DOMAIN l : l[i].kind = "paid" =>
       \E j \in 1..(i - 1) :
         l[j].kind = "settled" /\ l[j].round = l[i].round /\ Payout(l[j].round, l[j].result) > 0

ASSUME OpensOnAChain == IsChain(Before)
ASSUME ResultsAreSettlements == \A r \in Rounds : \A result \in Results[r] : CanSettle(r, result)

Tells(i, kind, r) == log[i].kind = kind /\ log[i].round = r
ResultAt(n, r) ==
  IF \E i \in 1..n : Tells(i, "settled", r) THEN log[CHOOSE i \in 1..n : Tells(i, "settled", r)].result ELSE "open"
PaidAt(n, r) == \E i \in 1..n : Tells(i, "paid", r)
ClaimableAt(n, r) ==
  IF ResultAt(n, r) = "open" \/ PaidAt(n, r) THEN 0 ELSE Payout(r, ResultAt(n, r))

-----------------------------------------------------------------------------
\* What the API answers of a position, and how the page reads it.

Position(n, r) ==
  LET result == ResultAt(n, r)
      earned == IF result = "open" THEN 0 ELSE Payout(r, result) IN
  [status |-> IF result \in {"up", "down"} THEN "resolved" ELSE result,
   winner |-> result,
   upStake |-> Mine[r].up, downStake |-> Mine[r].down,
   claimable |-> ClaimableAt(n, r),
   claimed |-> PaidAt(n, r),
   claimedAmount |-> IF PaidAt(n, r) THEN earned ELSE 0]

Returned(p) == IF p.claimed THEN p.claimedAmount ELSE p.claimable

\* outcomeOf: by the named winner; a payload without one falls back to the money.
OutcomeOf(p) ==
  CASE p.status = "void" -> "void"
    [] p.status = "open" -> "open"
    [] p.status = "resolved" ->
         IF \/ p.winner = "up" /\ p.upStake > 0
            \/ p.winner = "down" /\ p.downStake > 0
            \/ p.winner \notin {"up", "down"} /\ Returned(p) > 0
         THEN "won" ELSE "lost"

\* Mutant: net is taken from what is left to claim.
NetOfClaimable(p) == p.claimable - (p.upStake + p.downStake)

\* netOf, of a settled position.
NetOf(p) == Returned(p) - (p.upStake + p.downStake)

IsUnclaimed(p) == ~p.claimed /\ p.claimable > 0

SideTaken(p) ==
  CASE p.upStake > 0 /\ p.downStake > 0 -> "both"
    [] p.upStake > 0 /\ p.downStake = 0 -> "up"
    [] p.upStake = 0 /\ p.downStake > 0 -> "down"
    [] p.upStake = 0 /\ p.downStake = 0 -> "none"

Listed == {r \in Rounds : listing # NotRead /\ TotalStake(r) > 0}
History == {r \in Listed : ResultAt(listing, r) # "open"}

\* What a row of the positions table says of one; no result while it runs.
RowShows(r) ==
  LET p == Position(listing, r) IN
  [outcome |-> OutcomeOf(p), side |-> SideTaken(p),
   net |-> IF OutcomeOf(p) = "open" THEN {} ELSE {NetOf(p)}]

\* The two tables of the page: what is settled and what is still running.
TableRows == [settled |-> [r \in History |-> RowShows(r)], running |-> [r \in Listed \ History |-> RowShows(r)]]

\* PositionsScreen: the tables, or why there are none.
ScreenShows ==
  CASE unlisted -> "unreadable"
    [] ~unlisted /\ listing = NotRead -> "reading"
    [] ~unlisted /\ listing # NotRead -> IF Listed = {} THEN "empty" ELSE "tables"

\* The page of one round, from the same API: its result, and the pools behind it. The
\* round is among the hundred the API lists.
Outcome(p) ==
  CASE p.status = "resolved" -> IF p.winner = "up" THEN "yes" ELSE "no"
    [] p.status = "void" -> "voided"
    [] p.status = "open" -> "running"
Detail(r) ==
  LET p == Position(listing, r) IN
  [outcome |-> Outcome(p),
   yes |-> Mine[r].up + Others[r].up, no |-> Mine[r].down + Others[r].down,
   rakeTaken |-> IF p.status = "resolved" THEN {Rake} ELSE {}]
RoundScreen ==
  CASE unlisted -> "unreadable"
    [] ~unlisted /\ listing = NotRead -> "reading"
    [] ~unlisted /\ listing # NotRead -> "detail"

\* Record: what the settled part of the listing adds up to.
Record ==
  LET count(outcome) == Cardinality({r \in History : OutcomeOf(Position(listing, r)) = outcome}) IN
  [won |-> count("won"), lost |-> count("lost"), voided |-> count("void"),
   staked |-> SumFunction([r \in History |-> TotalStake(r)]),
   net |-> SumFunction([r \in History |-> NetOf(Position(listing, r))])]

-----------------------------------------------------------------------------
\* useClaimConfirmation: the unclaimed rounds of the listing, asked of the chain.

\* The order the API lists one market's positions in, before the page sorts its tables.
NewestFirst(S) == Descending(S, LAMBDA r : r)
Pending == NewestFirst({r \in History : IsUnclaimed(Position(listing, r))})

\* Mutant: the last answers stay when the listing names other rounds.
KeepsPreviousAnswers == claimReads

\* The query's answer belongs to exactly the rounds it was asked for: once the
\* listing names others there is none. (One cached under an earlier key is left out.)
Answers ==
  IF claimReads.asked = Pending THEN claimReads ELSE [asked |-> <<>>, at |-> NotRead, unreadable |-> FALSE]

\* Mutant: the offer is drawn from the listing itself.
ConfirmedByListing == [r \in Range(Pending) |-> Position(listing, r).claimable]

\* The map the page offers from: the i-th answer is the i-th pending round's. No
\* entry while the chain has not answered, which is not the same as zero.
Confirmed ==
  LET pending == Pending
      read == Answers
      answered == IF read.at = NotRead THEN {} ELSE DOMAIN pending \cap DOMAIN read.asked IN
  [r \in {pending[i] : i \in answered} |->
     ClaimableAt(read.at, read.asked[CHOOSE i \in answered : pending[i] = r])]

\* Unclaimed: the rows with a Claim button.
OfferedRows ==
  LET confirmed == Confirmed IN
  IF ScreenShows # "tables" \/ Answers.unreadable THEN {} ELSE {r \in DOMAIN confirmed : confirmed[r] > 0}

-----------------------------------------------------------------------------
\* useRounds and what is computed from it.

Recent == {r \in Rounds : r > Max(Rounds) - Window}

\* useClaimables: what the panel and the bell count.
Claimables ==
  IF roundsAt = NotRead \/ positionsAt = NotRead THEN {}
  ELSE {[round |-> r, amount |-> ClaimableAt(positionsAt, r)] :
          r \in {q \in Recent : ClaimableAt(positionsAt, q) > 0 /\ ~PaidAt(positionsAt, q)}}

\* What the card of a settled recent round says to the account (ClaimRow).
CardSays(r) ==
  CASE positionsAt = NotRead \/ TotalStake(r) = 0 -> "nothing"
    [] positionsAt # NotRead /\ TotalStake(r) > 0 /\ PaidAt(positionsAt, r) -> "claimed"
    [] positionsAt # NotRead /\ TotalStake(r) > 0 /\ ~PaidAt(positionsAt, r) ->
         IF ClaimableAt(positionsAt, r) > 0 THEN "toClaim" ELSE "yourLoss"
SettledCards == {r \in Recent : roundsAt # NotRead /\ ResultAt(roundsAt, r) # "open"}

\* What is riding on live rounds: the portfolio's strip and the market page's.
AtRisk ==
  IF roundsAt = NotRead \/ positionsAt = NotRead THEN 0
  ELSE SumFunction([r \in Recent \ SettledCards |-> TotalStake(r)])

-----------------------------------------------------------------------------
\* Alerts: derived from the same reads; an id names the situation.

HealthAlert == [kind |-> "health", band |-> band, rounds |-> {}]
ClaimAlert == [kind |-> "claim", band |-> "", rounds |-> {c.round : c \in Claimables}]

\* alertsFor, safety first.
Alerts ==
     (IF band \in {"danger", "caution"} THEN <<HealthAlert>> ELSE <<>>)
  \o (IF Claimables # {} THEN <<ClaimAlert>> ELSE <<>>)

\* Mutant: one alert of a kind stands for the later ones.
UnseenKinds(alerts, known) ==
  Those(alerts, LAMBDA a : \A i \in DOMAIN known : known[i].kind # a.kind)

Unseen(alerts, known) == Those(alerts, LAMBDA a : a \notin Range(known))

\* Mutant: the list of announced ids is not bounded.
RemembersAll(ids) == ids

\* writeSeen: the list is bounded, the newest ids stay.
Remembered(ids) == SubSeq(ids, IF Len(ids) > SeenLimit THEN Len(ids) - SeenLimit + 1 ELSE 1, Len(ids))

\* AlertBell: how many alerts stand, and whether one of them is danger.
BellShows == [count |-> Len(Alerts), urgent |-> \E i \in DOMAIN Alerts : Alerts[i].band = "danger"]

\* The effect that runs when the alerts change: announce the new ones and
\* remember them.
Announces ==
  \E alerts \in {Alerts'} : seen' = Remembered(seen \o Unseen(alerts, seen))

-----------------------------------------------------------------------------
\* The claim run (useClaimAll): one claim after another.

\* Mutant: claims run in the order of their rounds.
AnyOrder(claims) == Descending(claims, LAMBDA c : -c.round)

\* orderClaims: the largest first.
OrderClaims(claims) == Descending(claims, LAMBDA c : c.amount)

Idle == [at |-> 0, step |-> "idle", items |-> <<>>]
Running == run.at > 0
Count(state) == Cardinality({i \in DOMAIN run.items : run.items[i].state = state})
Collected ==
  SumFunction([i \in {j \in DOMAIN run.items : run.items[j].state = "claimed"} |-> run.items[i].amount])

\* ClaimAllPanel under its button, once a run has stopped.
PanelReport ==
  [collected |-> Collected, claimed |-> Count("claimed"), left |-> Count("pending"),
   skipped |-> Count("skipped"), failed |-> Count("failed"), cancelled |-> Count("cancelled")]

Spend(what, limit) == spent[what] < limit /\ spent' = [spent EXCEPT ![what] = @ + 1]

\* settle, then the next claim, or the end of the run.
Settle(state) ==
  LET next == run.at + 1 IN
  run' = [items |-> [run.items EXCEPT ![run.at].state = state],
          at |-> IF next > Len(run.items) THEN 0 ELSE next,
          step |-> IF next > Len(run.items) THEN "idle" ELSE "simulate"]

\* The button, while nothing runs: every claim it counts, still pending.
RunStarts ==
  /\ page = "portfolio"
  /\ ~Running
  /\ Claimables # {}
  /\ Spend("runs", MaxRuns)
  /\ LET queue == OrderClaims(Claimables) IN
     run' = [at |-> 1, step |-> "simulate",
             items |-> [i \in DOMAIN queue |-> [round |-> queue[i].round, amount |-> queue[i].amount,
                                                state |-> "pending", tx |-> "none"]]]
  /\ UNCHANGED <<page, log, listing, unlisted, claimReads, roundsAt, positionsAt, band, seen>>

\* Simulated against the chain as it is now: refused is skipped, not sent. A
\* node that does not answer reads the same.
Simulates ==
  /\ run.step = "simulate"
  /\ \/ /\ ClaimableAt(Now, run.items[run.at].round) > 0
        /\ run' = [run EXCEPT !.step = "prompt"]
        /\ UNCHANGED spent
     \/ ClaimableAt(Now, run.items[run.at].round) = 0 /\ Settle("skipped") /\ UNCHANGED spent
     \/ Spend("faults", MaxFaults) /\ Settle("skipped")
  /\ UNCHANGED <<page, log, listing, unlisted, claimReads, roundsAt, positionsAt, band, seen>>

\* A dismissed prompt ends the run and leaves the rest pending.
Dismissed ==
  /\ run.step = "prompt"
  /\ run' = [at |-> 0, step |-> "idle", items |-> [run.items EXCEPT ![run.at].state = "cancelled"]]

Prompted ==
  /\ run.step = "prompt"
  /\ \/ run' = [run EXCEPT !.step = "receipt", !.items[run.at].tx = "chain"] /\ UNCHANGED spent
     \/ Dismissed /\ UNCHANGED spent
     \/ Spend("faults", MaxFaults) /\ Settle("failed")
  /\ UNCHANGED <<page, log, listing, unlisted, claimReads, roundsAt, positionsAt, band, seen>>

\* Mutant: any receipt counts as a claim.
ClaimedOnceMined ==
  /\ run.step = "receipt"
  /\ run.items[run.at].tx \in {"mined", "reverted"}
  /\ Settle("claimed")

\* The receipt: a reverted one throws, and so does a wait that ends without one.
ReceiptRead ==
  /\ run.step = "receipt"
  /\ run.items[run.at].tx \in {"mined", "reverted"}
  /\ Settle(IF run.items[run.at].tx = "mined" THEN "claimed" ELSE "failed")

ReceiptAnswers ==
  /\ \/ ReceiptRead /\ UNCHANGED spent
     \/ run.step = "receipt" /\ Spend("faults", MaxFaults) /\ Settle("failed")
  /\ UNCHANGED <<page, log, listing, unlisted, claimReads, roundsAt, positionsAt, band, seen>>

-----------------------------------------------------------------------------
\* The chain.

Logs(event) == log' = Append(log, event)

Settles(r, result) ==
  /\ ResultAt(Now, r) = "open"
  /\ Logs([kind |-> "settled", round |-> r, result |-> result])
  /\ UNCHANGED <<page, listing, unlisted, claimReads, roundsAt, positionsAt, run, band, seen, spent>>

\* claim is anybody's to call for anybody.
PaidByOther(r) ==
  /\ ClaimableAt(Now, r) > 0
  /\ Logs([kind |-> "paid", round |-> r, by |-> "other"])
  /\ UNCHANGED <<page, listing, unlisted, claimReads, roundsAt, positionsAt, run, band, seen, spent>>

\* The Claim button of a listed row, and of a settled card: its claim is mined
\* (when it is not, it changes nothing; how it is waited for is Transaction's).
RowClaims(r) == page = "positions" /\ r \in OfferedRows /\ PaidByOther(r)
CardClaims(r) == OnChainPage /\ r \in SettledCards /\ CardSays(r) = "toClaim" /\ PaidByOther(r)

\* Another tab or a keeper.
SomebodyClaims(r) == PaidByOther(r)

\* A claim the run sent is mined: the second claim of a round reverts.
RunIsMined(i) ==
  LET r == run.items[i].round IN
  /\ run.items[i].tx = "chain"
  /\ IF ClaimableAt(Now, r) > 0
       THEN /\ Logs([kind |-> "paid", round |-> r, by |-> "run"])
            /\ run' = [run EXCEPT !.items[i].tx = "mined"]
       ELSE run' = [run EXCEPT !.items[i].tx = "reverted"] /\ UNCHANGED log
  /\ UNCHANGED <<page, listing, unlisted, claimReads, roundsAt, positionsAt, band, seen, spent>>

-----------------------------------------------------------------------------
\* The reads.

\* usePositions and the round's own query: on mount, on focus and after a claim; as
\* far as the indexer has got. A failed fetch hides what the last one listed.
ListingFetched ==
  /\ page \in {"positions", "round"}
  /\ \/ /\ \E n \in 0..Now : n > listing /\ listing' = n
        /\ unlisted' = FALSE
        /\ UNCHANGED spent
     \/ ~unlisted /\ unlisted' = TRUE /\ Spend("faults", MaxFaults) /\ UNCHANGED listing
  /\ UNCHANGED <<page, log, claimReads, roundsAt, positionsAt, run, band, seen>>

\* useClaimConfirmation's poll, for the rounds the listing calls unclaimed; a
\* failed read shows as one instead of as no rows.
ClaimsConfirmed(unreadable) ==
  /\ page = "positions"
  /\ Pending # <<>>
  /\ claimReads' = [asked |-> Pending, at |-> IF unreadable THEN NotRead ELSE Now, unreadable |-> unreadable]
  /\ claimReads' # claimReads
  /\ IF unreadable THEN Spend("faults", MaxFaults) ELSE UNCHANGED spent
  /\ UNCHANGED <<page, log, listing, unlisted, roundsAt, positionsAt, run, band, seen>>

\* The two batches of useRounds, each on its own poll.
RoundsPoll ==
  /\ OnChainPage
  /\ roundsAt # Now
  /\ roundsAt' = Now
  /\ UNCHANGED <<page, log, listing, unlisted, claimReads, positionsAt, run, band, spent>>
  /\ Announces

PositionsPoll ==
  /\ OnChainPage
  /\ positionsAt # Now
  /\ positionsAt' = Now
  /\ UNCHANGED <<page, log, listing, unlisted, claimReads, roundsAt, run, band, spent>>
  /\ Announces

\* The vault is read again and its health is in another band.
BandMoves(to) ==
  /\ page = "elsewhere"
  /\ to # band
  /\ band' = to
  /\ Spend("moves", MaxMoves)
  /\ UNCHANGED <<page, log, listing, unlisted, claimReads, roundsAt, positionsAt, run>>
  /\ Announces

DeskInit ==
  /\ page \in {"positions", "round", "portfolio", "elsewhere"}
  /\ log = Before
  /\ listing = NotRead
  /\ unlisted = FALSE
  /\ claimReads = [asked |-> <<>>, at |-> NotRead, unreadable |-> FALSE]
  /\ roundsAt = NotRead
  /\ positionsAt = NotRead
  /\ run = Idle
  /\ band = "safe"
  /\ seen = <<>>
  /\ spent = [runs |-> 0, faults |-> 0, moves |-> 0]

DeskNext ==
  \/ RunStarts \/ Simulates \/ Prompted \/ ReceiptAnswers
  \/ ListingFetched \/ RoundsPoll \/ PositionsPoll
  \/ \E unreadable \in BOOLEAN : ClaimsConfirmed(unreadable)
  \/ \E to \in Bands : BandMoves(to)
  \/ \E r \in Rounds : SomebodyClaims(r) \/ RowClaims(r) \/ CardClaims(r) \/ \E result \in Results[r] : Settles(r, result)
  \/ \E i \in DOMAIN run.items : RunIsMined(i)

\* The polls have timers. Nothing makes a listing refetch, a wallet sign, a round
\* settle or anybody claim.
DeskFairness ==
  /\ WF_deskVars(RoundsPoll) /\ WF_deskVars(PositionsPoll)
  /\ WF_deskVars(ClaimsConfirmed(FALSE))

DeskSpec == DeskInit /\ [][DeskNext]_deskVars /\ DeskFairness

-----------------------------------------------------------------------------
\* Every variable of the page keeps its type; a read is of a moment of the chain.
DeskTypeOK ==
  /\ {listing, roundsAt, positionsAt} \subseteq NotRead..Now
  /\ claimReads.at \in NotRead..Now /\ Range(claimReads.asked) \subseteq Rounds
  /\ run.at \in 0..Len(run.items)
  /\ Running <=> run.step \in {"simulate", "prompt", "receipt"}
  /\ band \in Bands /\ Len(seen) <= SeenLimit /\ BellShows.count <= Len(seen)

(* Before and after collection, as far behind as the listing may be, the record's
   net is what each settled round pays less what went into it (netOf), and an
   outcome never contradicts the money (outcomeOf): a loss pays nothing, a void
   gives the stake back, a win was staked on (and may net nothing or less: both
   sides entered, or a rake above what the losers staked), and a payload that does not name
   the winner is read from the money alone without calling a winner it pays a
   loser (a stake of one unit may win and be paid nothing); and the page of a
   round names no result the money contradicts. *)
ListingTellsTheMoney ==
  /\ \A r \in History :
       LET p == Position(listing, r)
           pays == Payout(r, ResultAt(Now, r))
           row == TableRows.settled[r] IN
       /\ row.outcome = "lost" => pays = 0
       /\ row.outcome = "void" => pays = TotalStake(r) /\ row.net = {0}
       /\ row.outcome = "won" => row.side \in {p.winner, "both"}
       /\ (row.outcome = "won" => pays > 0) => OutcomeOf([p EXCEPT !.winner = "absent"]) = row.outcome
  /\ \A r \in Rounds : page = "round" /\ RoundScreen = "detail" =>
       LET shown == Detail(r) IN
       /\ shown.outcome = "voided" => Payout(r, ResultAt(Now, r)) = TotalStake(r)
       /\ shown.outcome = "yes" /\ Mine[r].up = 0 => Payout(r, ResultAt(Now, r)) = 0
       /\ shown.outcome = "no" /\ Mine[r].down = 0 => Payout(r, ResultAt(Now, r)) = 0
       /\ \A rake \in shown.rakeTaken : Payout(r, ResultAt(Now, r)) <= shown.yes + shown.no - rake
  /\ Record.net = SumFunction([r \in History |-> Payout(r, ResultAt(Now, r))]) - Record.staked

(* What the comment on netOf says of its result (positions.ts): positive on a
   win. *)
WinNetsPositive ==
  \A r \in History :
    TableRows.settled[r].outcome = "won" => \A net \in TableRows.settled[r].net : net > 0

(* An amount beside a Claim button, in the listing's rows (useClaimConfirmation)
   or in the panel and the bell (useClaimables), is what that very round pays,
   though the listing, the confirmation and the recent rounds are of different
   moments and the confirmation is matched to its rounds by position; and what
   the strip says is riding is no less than what is. *)
ShownAmountsHold ==
  /\ \A r \in OfferedRows : ResultAt(Now, r) # "open" /\ Confirmed[r] = Payout(r, ResultAt(Now, r))
  /\ \A c \in Claimables : ResultAt(Now, c.round) # "open" /\ c.amount = Payout(c.round, ResultAt(Now, c.round))
  /\ {roundsAt, positionsAt} \subseteq Nat =>
       AtRisk >= SumFunction([r \in {q \in Recent : ResultAt(Now, q) = "open"} |-> TotalStake(r)])

(* What a claim run reports (useClaimAll, collected): the sum it says it
   collected is what its own transactions were paid, one whose receipt was never
   read aside; what it calls skipped, not signed or waiting it never sent; and
   claims are left only by the one prompt that was dismissed. *)
RunReportIsTrue ==
  LET paidByRun == {i \in DOMAIN run.items : run.items[i].tx = "mined" /\ run.items[i].state # "failed"
                                             /\ (run.at = 0 \/ i < run.at)} IN
  /\ PanelReport.collected = SumFunction([i \in paidByRun |-> Payout(run.items[i].round, ResultAt(Now, run.items[i].round))])
  /\ ~Running => PanelReport.cancelled <= 1 /\ (PanelReport.left > 0 => PanelReport.cancelled = 1)
  /\ \A i \in DOMAIN run.items :
       /\ run.items[i].state \in {"skipped", "cancelled"} => run.items[i].tx = "none"
       /\ run.items[i].state = "pending" /\ (run.at = 0 \/ i > run.at) => run.items[i].tx = "none"

(* A run can be abandoned halfway (orderClaims): whatever was collected before
   that is worth at least any claim left waiting, and nothing after the prompt
   that was dismissed was touched. *)
BiggestFirst ==
  \A i, j \in DOMAIN run.items :
    run.items[j].state = "pending" /\ run.items[i].state # "pending" =>
      /\ Payout(run.items[i].round, ResultAt(Now, run.items[i].round))
           >= Payout(run.items[j].round, ResultAt(Now, run.items[j].round))
      /\ run.items[i].state = "cancelled" => ~Running

(* The indexer may say unclaimed for as long as it likes: a row whose claim has
   been collected stops being offered on the chain's word alone (the reason
   usePositions gives for confirming claims against the chain). *)
PaidOfferIsWithdrawn ==
  \A r \in Rounds : (PaidAt(Now, r) /\ r \in OfferedRows) ~> r \notin OfferedRows

(* A win in a recent round is announced once it can be collected, whatever else
   was announced before it or pushed out of the few ids remembered (useAlerts). *)
WinIsAnnounced ==
  \A r \in Recent :
    (OnChainPage /\ ClaimableAt(Now, r) > 0)
      ~> (PaidAt(Now, r) \/ \E i \in DOMAIN seen : r \in seen[i].rounds)

=============================================================================
