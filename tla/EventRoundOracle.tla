--------------------------- MODULE EventRoundOracle ---------------------------
(***************************************************************************)
(* EventRoundOracle.sol: the answer to a question no feed publishes, as a  *)
(* bonded claim that becomes true only if nobody pays to argue.            *)
(*                                                                         *)
(* Evidence, criteria and reasons are data nobody reads on chain and are   *)
(* left out.  What `market` says a proposer holds is an argument: the      *)
(* composition (EventMarket) supplies it.                                  *)
(***************************************************************************)
EXTENDS BlockTime, Erc20, Integers

CONSTANTS
  Question,             \* address(this)
  Reporters,            \* addresses that propose and challenge
  Arbiters,             \* addresses the owner may appoint
  Bond,
  EventTime, ChallengeWindow, RulingDeadline

\* The constructor's checks (EventRoundOracle.sol:210-217).
ASSUME QuestionAccepts ==
  /\ {Bond, EventTime, ChallengeWindow, RulingDeadline} \subseteq Nat
  /\ Bond > 0 /\ ChallengeWindow > 0 /\ RulingDeadline > 0
  /\ Arbiters # {}

Nobody == "nobody"      \* address(0) in proposer and challenger

\* ... from which nobody can send a transaction.
ASSUME QuestionIsAnAccount ==
  /\ Reporters \cup {Question} \subseteq Accounts
  /\ {Question, Nobody} \cap Reporters = {}

VARIABLES
  state, outcome,
  proposer, challenger,
  proposedAt, challengedAt,
  proposedOutcome,
  proposerStake,
  arbiter,
  marketRoundId,        \* 0 until setMarket
  bondsPosted           \* history: what each account paid in less what it was paid out

proposalVars == <<proposer, proposedAt, proposedOutcome, proposerStake>>
challengeVars == <<challenger, challengedAt>>
claimVars == <<state, outcome, proposalVars, challengeVars, bondsPosted>>
questionVars == <<claimVars, arbiter, marketRoundId>>

\* 1e18, 2e18 and 0 in the code: only how they compare matters.
STRIKE == 1
YES == 2
NO == 0

Outcomes == {"None", "Yes", "No"}
Settled == {"Final", "Abandoned"}

QuestionTypeOK ==
  /\ state \in {"Open", "Proposed", "Challenged"} \cup Settled
  /\ {outcome, proposedOutcome} \subseteq Outcomes
  /\ {proposer, challenger} \subseteq Reporters \cup {Nobody}
  /\ {proposedAt, challengedAt} \subseteq Times
  /\ proposerStake \in Nat
  /\ arbiter \in Arbiters
  /\ marketRoundId \in Nat
  /\ bondsPosted \in [Reporters -> Int]

QuestionInit ==
  /\ state = "Open" /\ outcome = "None"
  /\ proposer = Nobody /\ challenger = Nobody
  /\ proposedAt = 0 /\ challengedAt = 0
  /\ proposedOutcome = "None"
  /\ proposerStake = 0
  /\ arbiter \in Arbiters
  /\ marketRoundId = 0
  /\ bondsPosted = [r \in Reporters |-> 0]

\* Mutant: the claim is the answer as soon as it is made.
ReadsTheProposal ==
  [ok |-> proposedOutcome # "None", price |-> IF proposedOutcome = "Yes" THEN YES ELSE NO]

\* readAt, whatever feed round and instant it is asked about.
ReadOutcome ==
  [ok |-> state = "Final",
   price |-> IF state # "Final" THEN 0 ELSE IF outcome = "Yes" THEN YES ELSE NO]

-----------------------------------------------------------------------------
\* Mutant: a claim is accepted before the event.
ProposesBeforeTheEvent(who, answer, disclosed) ==
  /\ state = "Open"
  /\ answer # "None"
  /\ now + ChallengeWindow + RulingDeadline <= MaxTime
  /\ state' = "Proposed"
  /\ proposer' = who
  /\ proposedOutcome' = answer
  /\ proposedAt' = now
  /\ proposerStake' = disclosed
  /\ Transfer(who, Question, Bond)
  /\ bondsPosted' = [bondsPosted EXCEPT ![who] = @ + Bond]
  /\ UNCHANGED <<outcome, challengeVars, arbiter, marketRoundId>>

\* `disclosed` is what _stakeOf reads from the market, 0 if none was named.
propose(who, answer, disclosed) ==
  /\ state = "Open"
  /\ answer # "None"
  /\ now >= EventTime
  /\ now + ChallengeWindow + RulingDeadline <= MaxTime   \* bound: deadlines fit the clock
  /\ state' = "Proposed"
  /\ proposer' = who
  /\ proposedOutcome' = answer
  /\ proposedAt' = now
  /\ proposerStake' = disclosed
  /\ Transfer(who, Question, Bond)
  /\ bondsPosted' = [bondsPosted EXCEPT ![who] = @ + Bond]
  /\ UNCHANGED <<outcome, challengeVars, arbiter, marketRoundId>>

ChallengeClosesAt == proposedAt + ChallengeWindow

ChallengeIsOpen == now < ChallengeClosesAt

challenge(who) ==
  /\ state = "Proposed"
  /\ ChallengeIsOpen
  /\ state' = "Challenged"
  /\ challenger' = who
  /\ challengedAt' = now
  /\ Transfer(who, Question, Bond)
  /\ bondsPosted' = [bondsPosted EXCEPT ![who] = @ + Bond]
  /\ UNCHANGED <<outcome, proposalVars, arbiter, marketRoundId>>

\* Pay bonds back out of the question.
PayOut(who, amount) ==
  /\ Transfer(Question, who, amount)
  /\ bondsPosted' = [bondsPosted EXCEPT ![who] = @ - amount]

finalise ==
  /\ state = "Proposed"
  /\ now >= ChallengeClosesAt
  /\ state' = "Final"
  /\ outcome' = proposedOutcome
  /\ PayOut(proposer, Bond)
  /\ UNCHANGED <<proposalVars, challengeVars, arbiter, marketRoundId>>

\* Mutant: a challenge always wins the pot.
PaysTheChallenger(answer) == challenger

Vindicated(answer) == IF answer = proposedOutcome THEN proposer ELSE challenger

\* onlyArbiter: the arbiter of the moment is the one who takes this action.
rule(answer) ==
  /\ state = "Challenged"
  /\ answer # "None"
  /\ state' = "Final"
  /\ outcome' = answer
  /\ PayOut(Vindicated(answer), 2 * Bond)
  /\ UNCHANGED <<proposalVars, challengeVars, arbiter, marketRoundId>>

\* The bond an account gets back from each role it took: both, if it argued
\* with itself.
Refund(a) == IF a = proposer THEN IF a = challenger THEN 2 * Bond ELSE Bond
             ELSE IF a = challenger THEN Bond ELSE 0

\* Mutant: a challenge can be given up only while the ruling is not yet due.
AbandonsBeforeItIsDue ==
  /\ state = "Challenged"
  /\ now < challengedAt + RulingDeadline
  /\ state' = "Abandoned"
  /\ balance[Question] >= 2 * Bond
  /\ balance' = [a \in Accounts |->
       IF a = Question THEN balance[a] - 2 * Bond ELSE balance[a] + Refund(a)]
  /\ bondsPosted' = [r \in Reporters |-> bondsPosted[r] - Refund(r)]
  /\ UNCHANGED <<outcome, proposalVars, challengeVars, arbiter, marketRoundId>>

abandon ==
  /\ state = "Challenged"
  /\ now >= challengedAt + RulingDeadline
  /\ state' = "Abandoned"
  /\ balance[Question] >= 2 * Bond
  /\ balance' = [a \in Accounts |->
       IF a = Question THEN balance[a] - 2 * Bond ELSE balance[a] + Refund(a)]
  /\ bondsPosted' = [r \in Reporters |-> bondsPosted[r] - Refund(r)]
  /\ UNCHANGED <<outcome, proposalVars, challengeVars, arbiter, marketRoundId>>

-----------------------------------------------------------------------------
\* Mutant: the zero address may be appointed.
AppointsNobody(next) ==
  /\ state \notin Settled
  /\ arbiter' \in {next, Nobody}
  /\ UNCHANGED <<claimVars, marketRoundId, balance>>

\* onlyOwner: the owner of the moment takes these two.
setArbiter(next) ==
  /\ state \notin Settled
  /\ arbiter' = next
  /\ UNCHANGED <<claimVars, marketRoundId, balance>>

setMarket(roundId) ==
  /\ roundId # 0
  /\ state = "Open"
  /\ marketRoundId = 0
  /\ marketRoundId' = roundId
  /\ UNCHANGED <<claimVars, arbiter, balance>>

-----------------------------------------------------------------------------
(***************************************************************************)
(* Where the bonds are.  While a claim is open the question holds what was *)
(* posted; an unchallenged claim and an abandoned one leave nobody out of  *)
(* pocket; a ruling moves exactly one bond, to the side that was right;    *)
(* and the question keeps nothing (finalise, rule, abandon).               *)
(***************************************************************************)
BondsFollowTheAnswer ==
  LET right == IF outcome = proposedOutcome THEN proposer ELSE challenger
      wrong == IF outcome = proposedOutcome THEN challenger ELSE proposer
  IN
  /\ balance[Question] = Bond * (CASE state = "Proposed" -> 1
                                   [] state = "Challenged" -> 2
                                   [] OTHER -> 0)
  /\ \A a \in Reporters :
       bondsPosted[a] =
         CASE state = "Proposed" -> IF a = proposer THEN Bond ELSE 0
           [] state = "Challenged" -> Refund(a)
           [] state = "Final" /\ challenger # Nobody /\ right # wrong ->
                IF a = right THEN -Bond ELSE IF a = wrong THEN Bond ELSE 0
           [] OTHER -> 0
=============================================================================
