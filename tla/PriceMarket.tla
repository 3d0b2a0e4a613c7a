----------------------------- MODULE PriceMarket -----------------------------
(***************************************************************************)
(* A price market: a ParimutuelRound whose oracle is a                     *)
(* ChainlinkRoundOracle.  resolveRound calls readAt with the feed round    *)
(* the caller names and the round's own closeTime, in one transaction.     *)
(***************************************************************************)
EXTENDS ParimutuelRound, ChainlinkRoundOracle

marketVars == <<vars, feedVars>>

MarketTypeOK == TypeOK /\ OracleTypeOK

MarketInit == Init /\ OracleInit

resolveWith(id, feedId) == resolveRound(id, ReadAt(feedId, rounds[id].closeTime))

MarketNext ==
  \/ NextButResolve /\ UNCHANGED feedVars
  \/ \E id \in RoundIds, feedId \in FeedIds :
       resolveWith(id, feedId) /\ UNCHANGED feedVars
  \/ OracleNext /\ UNCHANGED vars

MarketSpec == MarketInit /\ [][MarketNext]_marketVars

-----------------------------------------------------------------------------
(***************************************************************************)
(* f is the last round the feed published at or before `at`, so far.       *)
(***************************************************************************)
IsLastAtOrBefore(f, at) ==
  /\ feedRounds[f].updatedAt \in 1..at
  /\ \A g \in FeedIds : g > f => feedRounds[g].updatedAt \notin 1..at

(***************************************************************************)
(* A resolved round settled on the price of the last feed round published  *)
(* at or before its closeTime, whoever called resolveRound, with whichever *)
(* feed round, however late; and nothing published since changes which     *)
(* round that is (readAt, "exactly one feed round satisfies both").        *)
(***************************************************************************)
SettledAtPinnedPrice ==
  \A id \in RoundIds :
    rounds[id].status = "Resolved" =>
      \E f \in FeedIds :
        /\ IsLastAtOrBefore(f, rounds[id].closeTime)
        /\ rounds[id].closePrice = feedRounds[f].answer * ScaleUp

(***************************************************************************)
(* The answer about an instant is final before anyone asks for it.  Once a *)
(* feed round covers the instant it covers it ever after, at the same      *)
(* answer, however late the call; an outage or a pause may keep readAt     *)
(* from giving it, but no other feed round is ever answered instead, so    *)
(* callers far apart in time and naming different rounds cannot disagree   *)
(* (readAt, _answerAt; DemoPriceFeed.pushAt's order).                      *)
(***************************************************************************)
AnswerIsFinal ==
  [][<<now, feedVars>>' # <<now, feedVars>> =>
       \A f \in FeedIds : f < latestRoundId => \A at \in Times :
         Covers(f, at) =>
           /\ Covers(f, at)'
           /\ feedRounds'[f].answer = feedRounds[f].answer
           /\ \A g \in FeedIds : ReadAt(g, at)'.ok => g = f]_marketVars

(***************************************************************************)
(* On a feed that stamps rounds with the present, nobody stakes on a round *)
(* whose settlement can already be read: entry is over by then, even when  *)
(* nobody has called lockRound (_takePosition's clock check, readAt).      *)
(***************************************************************************)
EntryPrecedesAnswer ==
  [][\A id \in RoundIds :
       publisher = "chainlink" /\ stakeOf'[id] # stakeOf[id] =>
         \A f \in FeedIds : ~ReadAt(f, rounds[id].closeTime).ok]_marketVars

(***************************************************************************)
(* What the comment on voidUnsettledRound says of the owner's power: it    *)
(* "cannot touch a round that is still settleable by anyone else"          *)
(* (ParimutuelRound.sol:654).                                              *)
(***************************************************************************)
UnwindLeavesSettleableAlone ==
  [][\A id \in RoundIds :
       voidUnsettledRound(id) =>
         \A f \in FeedIds : ~ReadAt(f, rounds[id].closeTime).ok]_marketVars

-----------------------------------------------------------------------------
\* The keeper locks and resolves; nobody has to unwind anything.
KeeperFairness ==
  /\ WF_marketVars(Tick /\ UNCHANGED <<pauseVars, treasury, roundVars, feedVars>>)
  /\ \A id \in RoundIds :
       /\ WF_marketVars(lockRound(id) /\ UNCHANGED feedVars)
       /\ WF_marketVars(\E feedId \in FeedIds :
                          resolveWith(id, feedId) /\ UNCHANGED feedVars)

FairMarketSpec == MarketSpec /\ KeeperFairness

\* No outage, pause, phase change or unusable answer; neither stale nor ahead of time.
FeedIsHealthy ==
  /\ sequencer.status = "none"
  /\ ~feedPaused
  /\ \A f \in 1..latestRoundId :
       feedRounds[f].updatedAt > 0 /\ feedRounds[f].answer \in 1..(MaxUint \div ScaleUp)
  /\ LastUpdate \in (now - MaxStaleness)..now

(***************************************************************************)
(* While the feed stays healthy and keeps publishing, a round needs nobody *)
(* privileged to settle: whoever locks it and resolves it is enough.  The  *)
(* owner's unwind has no fairness here (lockRound, resolveRound: both      *)
(* permissionless).                                                        *)
(***************************************************************************)
HealthyFeedSettles ==
  []FeedIsHealthy /\ []<>(LastUpdate >= now) =>
    \A id \in RoundIds : rounds[id].status = "Open" ~> rounds[id].status \in Terminal
=============================================================================
