----------------------------- MODULE EventMarket -----------------------------
(***************************************************************************)
(* A question market: a ParimutuelRound whose oracle is an                 *)
(* EventRoundOracle, with bonds in the token the stakes are in, deployed   *)
(* as script/DeployQuestion.s.sol does.  propose reads the proposer's      *)
(* stake from the market; resolveRound reads the answer from the question. *)
(***************************************************************************)
EXTENDS ParimutuelRound, EventRoundOracle

eventMarketVars == <<vars, questionVars>>

ASSUME ReportersMayHoldPositions == Reporters \subseteq Users

\* The question is deployed for this market: it holds no token yet, and no
\* function of it takes a position or receives fees.
ASSUME QuestionIsItsOwn ==
  /\ Question \notin Users \cup Treasuries \cup Routers \cup {Market}
  /\ Funding[Question] = 0

EventMarketTypeOK == TypeOK /\ QuestionTypeOK

EventMarketInit == Init /\ QuestionInit

\* What _stakeOf finds: both sides, or nothing if no market was named.
DisclosedStake(who) ==
  IF marketRoundId \in RoundIds THEN TotalStake(marketRoundId, who) ELSE 0

QuestionNext ==
  \/ \E who \in Reporters :
       \/ \E answer \in Outcomes : propose(who, answer, DisclosedStake(who))
       \/ challenge(who)
  \/ finalise
  \/ \E answer \in Outcomes : rule(answer)
  \/ abandon
  \/ \E next \in Arbiters : setArbiter(next)
  \/ \E id \in RoundIds : setMarket(id)

\* What the deployer checks before it opens a round: entry closes by the event,
\* the round after it, and the strike is the one the answer is compared with.
FitsTheEvent ==
  \A id \in RoundIds :
    rounds[id].status # "None" =>
      /\ rounds[id].lockTime <= EventTime
      /\ rounds[id].closeTime > EventTime
      /\ rounds[id].lockPrice = STRIKE

resolveWithAnswer(id) == resolveRound(id, ReadOutcome) /\ UNCHANGED questionVars

UntouchedByQuestion ==
  UNCHANGED <<now, pauseVars, treasury, roundCount, rounds, bookVars, isRouter, protocolFees>>

EventMarketNext ==
  \/ NextButResolve /\ UNCHANGED questionVars /\ FitsTheEvent'
  \/ \E id \in RoundIds : resolveWithAnswer(id)
  \/ QuestionNext /\ UntouchedByQuestion

\* finalise, abandon, lockRound and resolveRound are anyone's to call; ruling,
\* and every act of the owner, is up to whoever holds the role.
AnyoneFairness ==
  /\ WF_eventMarketVars(Tick /\ UNCHANGED <<pauseVars, treasury, roundVars, questionVars>>)
  /\ WF_eventMarketVars(finalise /\ UntouchedByQuestion)
  /\ WF_eventMarketVars(abandon /\ UntouchedByQuestion)
  /\ \A id \in RoundIds :
       /\ WF_eventMarketVars(lockRound(id) /\ UNCHANGED questionVars)
       /\ WF_eventMarketVars(resolveWithAnswer(id))

EventMarketSpec == EventMarketInit /\ [][EventMarketNext]_eventMarketVars /\ AnyoneFairness

-----------------------------------------------------------------------------
(***************************************************************************)
(* Nobody is paid on an answer that is not final: a resolved round paid    *)
(* Up on Yes and Down on No, and a question that was abandoned, or whose   *)
(* challenge is still open, has resolved nothing (readAt, resolveRound).   *)
(***************************************************************************)
OutcomePays ==
  \A id \in RoundIds :
    rounds[id].status = "Resolved" =>
      /\ state = "Final"
      /\ rounds[id].winner = IF outcome = "Yes" THEN "Up" ELSE "Down"

(***************************************************************************)
(* The interest a proposer disclosed is the interest they keep: entry into *)
(* the round closed before anything could be proposed, so nobody stakes    *)
(* after naming, or reading, a proposed answer (propose, setMarket,        *)
(* _takePosition, DeployQuestion's schedule).                              *)
(***************************************************************************)
DisclosureStands ==
  state # "Open" /\ marketRoundId # 0 => proposerStake = TotalStake(marketRoundId, proposer)

(***************************************************************************)
(* A claim never hangs: with a silent arbiter and an absent owner, every   *)
(* proposal still ends final or abandoned, which is when its bonds leave   *)
(* (finalise, abandon: "or the bonds are locked forever").                 *)
(***************************************************************************)
EveryClaimEnds == state \in {"Proposed", "Challenged"} ~> state \in Settled

(***************************************************************************)
(* An answered question settles its round with nobody's permission: once   *)
(* the answer is final every open or locked round ends.                    *)
(***************************************************************************)
AnswerSettlesTheRound ==
  \A id \in RoundIds :
    state = "Final" /\ rounds[id].status # "None" ~> rounds[id].status \in Terminal
=============================================================================
