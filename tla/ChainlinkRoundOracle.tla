------------------------ MODULE ChainlinkRoundOracle -------------------------
(***************************************************************************)
(* ChainlinkRoundOracle.sol and the feed it reads.  The adapter keeps no   *)
(* state of its own: it is the operator ReadAt over a feed's history, the  *)
(* sequencer uptime feed and the clock.                                    *)
(*                                                                         *)
(* Two things publish behind the same interface.  DemoPriceFeed.sol is     *)
(* this repository's: an operator pushes prices with timestamps that       *)
(* strictly increase.  A Chainlink proxy is external: it stamps rounds     *)
(* with the present, may publish twice in an instant, may publish a        *)
(* non-positive answer, and skips an id when its aggregator changes.       *)
(***************************************************************************)
EXTENDS BlockTime, Integers

CONSTANTS
  MaxFeedId,            \* type(uint80).max, and the bound on feed rounds
  Answers,              \* bound: answers a feed may publish
  Skips,                \* bound: ids a phase change of the feed skips
  MaxStaleness, GracePeriod,
  ScaleUp,              \* multiplier from the feed's decimals up to 18
  MaxUint               \* type(uint256).max

\* The constructor's checks, and decimals() no larger than 18.
ASSUME AdapterAccepts ==
  /\ {MaxFeedId, MaxStaleness, GracePeriod, ScaleUp, MaxUint} \subseteq Nat
  /\ MaxFeedId > 0 /\ MaxStaleness > 0 /\ ScaleUp > 0
  /\ Answers \subseteq Int /\ Skips \subseteq Nat /\ 0 \in Skips

FeedIds == 1..MaxFeedId

VARIABLES
  publisher,            \* which contract the adapter was constructed over
  feedRounds,           \* id -> answer and updatedAt; updatedAt = 0 is no round
  latestRoundId,
  feedPaused,           \* oraclePaused()
  sequencer             \* what the uptime feed answers; "none" is no uptime feed

feedVars == <<publisher, feedRounds, latestRoundId, feedPaused, sequencer>>

FeedRound == [answer: Int, updatedAt: Times]
NoData == [answer |-> 0, updatedAt |-> 0]

OracleTypeOK ==
  /\ publisher \in {"demo", "chainlink"}
  /\ feedRounds \in [FeedIds -> FeedRound]
  /\ latestRoundId \in 0..MaxFeedId
  /\ feedPaused \in BOOLEAN
  /\ sequencer \in
       [status: {"none", "up", "down", "unreadable"}, startedAt: Times]

OracleInit ==
  /\ publisher \in {"demo", "chainlink"}
  /\ feedRounds = [f \in FeedIds |-> NoData]
  /\ latestRoundId = 0
  /\ feedPaused = FALSE
  /\ sequencer \in [status: {"none", "up"}, startedAt: {0}]

-----------------------------------------------------------------------------
(***************************************************************************)
(* What the adapter answers.                                               *)
(***************************************************************************)
SequencerUpAt(at) ==
  \/ sequencer.status = "none"
  \/ /\ sequencer.status = "up"
     /\ sequencer.startedAt # 0
     /\ sequencer.startedAt <= now
     /\ now - sequencer.startedAt > GracePeriod
     /\ sequencer.startedAt <= at

ChainIsTrustworthyAt(at) == SequencerUpAt(at) /\ ~feedPaused

\* Mutant: the age of the answer is measured from the call, not from `at`.
UsableWhileRecent(f, at) ==
  LET r == feedRounds[f]
  IN  /\ r.answer > 0
      /\ r.updatedAt # 0
      /\ r.answer <= MaxUint \div ScaleUp
      /\ r.updatedAt <= at
      /\ now - r.updatedAt <= MaxStaleness

AnswerUsableAt(f, at) ==
  LET r == feedRounds[f]
  IN  /\ r.answer > 0
      /\ r.updatedAt # 0
      /\ r.answer <= MaxUint \div ScaleUp
      /\ r.updatedAt <= at
      /\ at - r.updatedAt <= MaxStaleness

\* Mutant: any fresh round will do, its successor is not looked at.
ReadableIfFresh(f, at) ==
  /\ ChainIsTrustworthyAt(at)
  /\ AnswerUsableAt(f, at)

\* Mutant: the successor must itself be within the staleness bound.
ReadableIfPrompt(f, at) ==
  /\ ReadableIfFresh(f, at)
  /\ f # MaxFeedId
  /\ feedRounds[f + 1].updatedAt > at
  /\ feedRounds[f + 1].updatedAt - feedRounds[f].updatedAt < 2

\* f is a usable round, and its successor exists and came after `at`.
Covers(f, at) ==
  /\ AnswerUsableAt(f, at)
  /\ f # MaxFeedId
  /\ feedRounds[f + 1].updatedAt > at

Readable(f, at) == ChainIsTrustworthyAt(at) /\ Covers(f, at)

ReadAt(f, at) ==
  IF Readable(f, at)
    THEN [ok |-> TRUE, price |-> feedRounds[f].answer * ScaleUp]
    ELSE [ok |-> FALSE, price |-> 0]

-----------------------------------------------------------------------------
(***************************************************************************)
(* Who publishes.                                                          *)
(***************************************************************************)
LastUpdate == IF latestRoundId = 0 THEN 0 ELSE feedRounds[latestRoundId].updatedAt

Publish(id, answer, updatedAt) ==
  /\ id \in FeedIds
  /\ latestRoundId' = id
  /\ feedRounds' = [feedRounds EXCEPT ![id] = [answer |-> answer, updatedAt |-> updatedAt]]
  /\ UNCHANGED <<publisher, feedPaused, sequencer>>

TimestampAdvances(updatedAt) == updatedAt > LastUpdate

CanPushAt(answer, updatedAt) ==
  /\ publisher = "demo"
  /\ answer > 0
  /\ TimestampAdvances(updatedAt)
  /\ latestRoundId + 1 \in FeedIds

\* DemoPriceFeed.pushAt; push(answer) is pushAt(answer, now).
pushAt(answer, updatedAt) ==
  /\ CanPushAt(answer, updatedAt)
  /\ Publish(latestRoundId + 1, answer, updatedAt)

push(answer) == pushAt(answer, now)

\* The proxy: a round now, under the next id or past a phase change.
transmit(answer, skipped) ==
  /\ publisher = "chainlink"
  /\ now > 0
  /\ Publish(latestRoundId + 1 + skipped, answer, now)

setFeedPaused(paused) ==
  /\ feedPaused' = paused
  /\ UNCHANGED <<publisher, feedRounds, latestRoundId, sequencer>>

sequencerReports(status) ==
  /\ sequencer.status \notin {"none", status}
  /\ sequencer' = [status |-> status,
                   startedAt |-> IF status = "unreadable" THEN sequencer.startedAt ELSE now]
  /\ UNCHANGED <<publisher, feedRounds, latestRoundId, feedPaused>>

OracleNext ==
  \/ \E answer \in Answers :
       \/ push(answer)
       \/ \E updatedAt \in Times : pushAt(answer, updatedAt)
       \/ \E skipped \in Skips : transmit(answer, skipped)
  \/ \E paused \in BOOLEAN : setFeedPaused(paused)
  \/ \E status \in {"up", "down", "unreadable"} : sequencerReports(status)
=============================================================================
