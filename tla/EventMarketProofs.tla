--------------------------- MODULE EventMarketProofs ---------------------------
(***************************************************************************)
(* EventMarket for every bond, schedule, number of reporters and rounds:   *)
(* what the question decides, what the market pays on it, and where the    *)
(* bonds and the stakes, which are the same token, end up.                 *)
(***************************************************************************)
EXTENDS EventMarket, ParimutuelRoundProofs

\* What the fields of the claim say in each of its states.
ClaimIsWellFormed ==
  /\ state \in {"Open", "Proposed"} => challenger = Nobody
  /\ state \in {"Challenged", "Abandoned"} => challenger \in Reporters
  /\ state # "Open" =>
       /\ proposer \in Reporters
       /\ proposedOutcome # "None"
       /\ now >= EventTime
  /\ state = "Final" => outcome # "None"
  /\ marketRoundId \in RoundIds \cup {0}

\* The inductive invariant: no round of the market outlives the entry phase
\* past the event, and none has resolved before the answer.
QuestionInv ==
  /\ MoneyInv
  /\ QuestionTypeOK
  /\ FitsTheEvent
  /\ ClaimIsWellFormed
  /\ OutcomePays
  /\ DisclosureStands
  /\ BondsFollowTheAnswer

LEMMA BondFacts ==
  /\ Bond \in Nat /\ EventTime \in Nat /\ MaxTime \in Nat
  /\ Times \subseteq Nat /\ 0 \in Times
  /\ Reporters \subseteq Accounts /\ Question \in Accounts
  /\ Question \notin Reporters /\ Nobody \notin Reporters /\ Market \notin Reporters
  /\ Question # Market
  BY QuestionAccepts, MaxTimeIsNat, QuestionIsAnAccount, QuestionIsItsOwn, AddressesAreDistinct,
     ReportersMayHoldPositions DEF Times

LEMMA InitQuestion == EventMarketInit => QuestionInv
<1> SUFFICES ASSUME EventMarketInit PROVE QuestionInv
  OBVIOUS
<1>1. Init /\ QuestionInit
  BY DEF EventMarketInit
<1>2. MoneyInv
  BY <1>1, InitMoney
<1>3. QuestionTypeOK
  BY <1>1, BondFacts DEF QuestionInit, QuestionTypeOK, Outcomes
<1>4. ClaimIsWellFormed /\ DisclosureStands
  BY <1>1 DEF QuestionInit, ClaimIsWellFormed, DisclosureStands
<1>5. \A id \in RoundIds : rounds[id].status = "None"
  BY <1>1 DEF Init, NoRound
<1>6. FitsTheEvent /\ OutcomePays
  BY <1>5 DEF FitsTheEvent, OutcomePays
<1>7. BondsFollowTheAnswer
  <2>1. balance[Question] = 0
    BY <1>1, QuestionIsItsOwn DEF Init
  <2>2. state = "Open" /\ \A r \in Reporters : bondsPosted[r] = 0
    BY <1>1 DEF QuestionInit
  <2> QED
    BY <2>1, <2>2, BondFacts DEF BondsFollowTheAnswer
<1> QED
  BY <1>2, <1>3, <1>4, <1>6, <1>7 DEF QuestionInv

-----------------------------------------------------------------------------
(***************************************************************************)
(* A step of the market leaves the question's money alone ...              *)
(***************************************************************************)
LEMMA ReadIsOutcome == ReadOutcome \in OracleReads
  BY DEF ReadOutcome, OracleReads, YES, NO

LEMMA MarketSparesQuestion ==
  ASSUME IInv, [Step]_vars
  PROVE  balance'[Question] = balance[Question]
<1>1. balance \in [Accounts -> Nat] /\ Question \in Accounts
  BY BondFacts DEF IInv, TypeOK
<1>2. CASE UNCHANGED balance
  BY <1>2
<1>3. ASSUME NEW from \in Accounts \ {Question}, NEW to \in Accounts \ {Question},
             NEW amount, Transfer(from, to, amount)
      PROVE  balance'[Question] = balance[Question]
  BY <1>1, <1>3 DEF Transfer, CanTransfer
<1>4. Users \cup Routers \cup Treasuries \cup {Market} \subseteq Accounts \ {Question}
  BY AddressesAreDistinct, QuestionIsItsOwn
<1>5. ASSUME NEW id \in RoundIds, NEW u \in Users, NEW side, NEW amount,
             NEW payer \in Users \cup Routers, NEW sink,
             TakePosition(id, u, side, amount, payer, sink)
      PROVE  balance'[Question] = balance[Question]
  <2>1. Transfer(payer, Market, amount)
    BY <1>5 DEF TakePosition
  <2> QED
    BY <1>3, <1>4, <2>1
<1>6. ASSUME NEW id \in RoundIds, NEW u \in Users, claim(id, u)
      PROVE  balance'[Question] = balance[Question]
  <2>1. Transfer(Market, Recipient(id, u), claimableOf(id, u))
    BY <1>6 DEF claim
  <2>2. Recipient(id, u) \in Users \cup Routers
    BY DEF Recipient, IInv, TypeOK
  <2> QED
    BY <1>3, <1>4, <2>1, <2>2
<1>7. ASSUME NEW amount, withdrawFees(amount)
      PROVE  balance'[Question] = balance[Question]
  <2>1. Transfer(Market, treasury, amount) /\ treasury \in Treasuries
    BY <1>7 DEF withdrawFees, IInv, TypeOK, CanWithdrawFees
  <2> QED
    BY <1>3, <1>4, <2>1
<1>8. CASE Tick /\ UNCHANGED <<pauseVars, treasury, roundVars>>
  BY <1>2, <1>8 DEF roundVars
<1>9. CASE Administration
  BY <1>2, <1>7, <1>9 DEF Administration, roundVars, setRouter
<1>10. CASE Entries
  BY <1>2, <1>5, <1>10 DEF Entries, openRound, takePosition, takePositionFor, CanOpen
<1>11. CASE Exits
  BY <1>2, <1>6, <1>11 DEF Exits, lockRound, voidUnsettledRound, voidUnlockedRound, VoidRound,
                           SettlesNothingElse, CanLock, CanVoidUnsettled, CanVoidUnlocked
<1>12. CASE \E id \in RoundIds, read \in OracleReads : resolveRound(id, read)
  BY <1>2, <1>12 DEF resolveRound, SettlesNothingElse, CanResolve
<1>13. CASE UNCHANGED vars
  BY <1>2, <1>13 DEF vars, roundVars
<1> QED
  BY <1>8, <1>9, <1>10, <1>11, <1>12, <1>13 DEF Step, NextButResolve

\* ... and, once the event has happened, every stake.
LEMMA StakesStandAfterEvent ==
  ASSUME IInv, FitsTheEvent, now >= EventTime, [Step]_vars,
         NEW id \in RoundIds, NEW u \in Users
  PROVE  stakeOf'[id][u] = stakeOf[id][u]
<1>1. ~Staked(id)
  <2> SUFFICES ASSUME Staked(id) PROVE FALSE
    OBVIOUS
  <2>1. rounds[id].status = "Open" /\ now < CutoffAt(id)
    BY DEF Staked, takePosition, takePositionFor, TakePosition, entryIsOpen
  <2>2. rounds[id].lockTime <= EventTime
    BY <2>1 DEF FitsTheEvent
  <2>3. rounds[id].lockTime \in Nat /\ now \in Nat /\ EventTime \in Nat /\ EntryCutoff \in Nat
    BY BondFacts, ConstructorAccepts DEF IInv, TypeOK, Round
  <2> QED
    BY <2>1, <2>2, <2>3 DEF CutoffAt
<1>2. stakeOf'[id] = stakeOf[id]
  <2>1. Untouched(id) \/ Opened(id) \/ lockRound(id) \/ Voided(id) \/ Resolved(id)
    BY <1>1, RoundEvolves DEF IInv
  <2> QED
    BY <2>1 DEF Untouched, Opened, lockRound, Voided, VoidRound, Resolved, resolveRound,
                SettlesNothingElse, bookVars, CanLock, CanResolve
<1> QED
  BY <1>2

LEMMA StepNeverEarly ==
  ASSUME IInv, [Step]_vars, now >= EventTime
  PROVE  now' >= EventTime
<1>1. now \in Nat /\ EventTime \in Nat
  BY BondFacts DEF IInv, TypeOK
<1> QED
  BY <1>1, TimeAdvances

\* The market moves and the question does not.
LEMMA MarketMoves ==
  ASSUME QuestionInv, [Step]_vars, UNCHANGED questionVars, FitsTheEvent', OutcomePays'
  PROVE  QuestionInv'
<1> USE DEF questionVars, claimVars, proposalVars, challengeVars
<1>1. MoneyInv'
  BY StepMoney DEF QuestionInv
<1>2. IInv /\ IInv'
  BY <1>1 DEF QuestionInv, MoneyInv, Books
<1>3. QuestionTypeOK'
  BY DEF QuestionInv, QuestionTypeOK
<1>4. ClaimIsWellFormed'
  BY <1>2, StepNeverEarly DEF QuestionInv, ClaimIsWellFormed
<1>5. DisclosureStands'
  <2> SUFFICES ASSUME state # "Open", marketRoundId # 0
               PROVE  proposerStake = TotalStake(marketRoundId, proposer)'
    BY DEF DisclosureStands
  <2>1. marketRoundId \in RoundIds /\ proposer \in Users /\ now >= EventTime
    BY ReportersMayHoldPositions DEF QuestionInv, ClaimIsWellFormed
  <2>2. stakeOf'[marketRoundId][proposer] = stakeOf[marketRoundId][proposer]
    BY <1>2, <2>1, StakesStandAfterEvent DEF QuestionInv
  <2>3. proposerStake = TotalStake(marketRoundId, proposer)
    BY DEF QuestionInv, DisclosureStands
  <2> QED
    BY <2>2, <2>3 DEF TotalStake
<1>6. BondsFollowTheAnswer'
  BY <1>2, MarketSparesQuestion DEF QuestionInv, BondsFollowTheAnswer, Refund
<1> QED
  BY <1>1, <1>3, <1>4, <1>5, <1>6 DEF QuestionInv

LEMMA UnresolvedMoves ==
  ASSUME QuestionInv, NextButResolve, UNCHANGED questionVars, FitsTheEvent'
  PROVE  QuestionInv'
<1>1. TypeOK
  BY DEF QuestionInv, MoneyInv, Books, IInv
<1>2. OutcomePays'
  <2> SUFFICES ASSUME NEW id \in RoundIds, rounds'[id].status = "Resolved"
               PROVE  /\ state' = "Final"
                      /\ rounds'[id].winner = IF outcome' = "Yes" THEN "Up" ELSE "Down"
    BY DEF OutcomePays
  <2>1. Untouched(id)
    BY <1>1, RoundEvolvesUnresolved, StakeEffect, LockEffect, VoidEffect DEF Opened, Voided
  <2> QED
    BY <2>1 DEF Untouched, questionVars, claimVars, QuestionInv, OutcomePays
<1> QED
  BY <1>2, MarketMoves DEF Step

LEMMA ResolveMoves ==
  ASSUME QuestionInv, NEW id \in RoundIds, resolveWithAnswer(id)
  PROVE  QuestionInv'
<1>1. resolveRound(id, ReadOutcome) /\ ReadOutcome \in OracleReads /\ UNCHANGED questionVars
  BY ReadIsOutcome DEF resolveWithAnswer
<1>2. TypeOK
  BY DEF QuestionInv, MoneyInv, Books, IInv
<1>3. \A other \in RoundIds : other # id => rounds'[other] = rounds[other]
  BY <1>1, <1>2 DEF resolveRound, TypeOK, CanResolve
<1>4. /\ rounds[id].status = "Locked"
      /\ rounds[id].lockPrice = STRIKE
      /\ state = "Final"
  BY <1>1 DEF resolveRound, ReadOutcome, QuestionInv, FitsTheEvent, CanResolve
<1>5. FitsTheEvent'
  <2>1. /\ rounds'[id].lockTime = rounds[id].lockTime
        /\ rounds'[id].closeTime = rounds[id].closeTime
        /\ rounds'[id].lockPrice = rounds[id].lockPrice
    <3>1. CASE ReadOutcome.price = rounds[id].lockPrice
      BY <1>1, <1>2, <3>1 DEF resolveRound, TypeOK, Round, CanResolve
    <3>2. CASE ReadOutcome.price # rounds[id].lockPrice
      BY <1>1, <1>2, <3>2 DEF resolveRound, TypeOK, Round, CanResolve
    <3> QED
      BY <3>1, <3>2
  <2> QED
    BY <1>3, <1>4, <2>1 DEF QuestionInv, FitsTheEvent
<1>6. OutcomePays'
  <2>1. rounds'[id].winner = IF outcome = "Yes" THEN "Up" ELSE "Down"
    <3>1. ReadOutcome.price = IF outcome = "Yes" THEN 2 ELSE 0
      BY <1>4 DEF ReadOutcome, YES, NO
    <3>2. ReadOutcome.price # rounds[id].lockPrice
      BY <1>4, <3>1 DEF STRIKE
    <3>3. rounds'[id].winner = IF ReadOutcome.price > rounds[id].lockPrice THEN "Up" ELSE "Down"
      BY <1>1, <1>2, <3>2, ResolveEffect
    <3> QED
      BY <1>4, <3>1, <3>3 DEF STRIKE
  <2>2. state' = state /\ outcome' = outcome
    BY <1>1 DEF questionVars, claimVars
  <2> QED
    BY <1>3, <1>4, <2>1, <2>2 DEF QuestionInv, OutcomePays
<1>7. Step
  BY <1>1 DEF Step
<1> QED
  BY <1>1, <1>5, <1>6, <1>7, MarketMoves

-----------------------------------------------------------------------------
(***************************************************************************)
(* The question moves: bonds go in and out of it, and past the market.     *)
(***************************************************************************)
LEMMA BondTransfer ==
  ASSUME balance \in [Accounts -> Nat], NEW who \in Reporters, NEW amount \in Nat
  PROVE  /\ Transfer(who, Question, amount) =>
              /\ balance' \in [Accounts -> Nat]
              /\ balance'[Question] = balance[Question] + amount
              /\ balance'[Market] = balance[Market]
         /\ Transfer(Question, who, amount) =>
              /\ balance' \in [Accounts -> Nat]
              /\ balance'[Question] = balance[Question] - amount
              /\ balance'[Market] = balance[Market]
<1>1. who \in Accounts /\ who # Question /\ who # Market /\ Question # Market
  BY BondFacts
<1>2. Question \in Accounts /\ Market \in Accounts
  BY BondFacts, AddressesAreDistinct
<1>3. ASSUME Transfer(who, Question, amount)
      PROVE  /\ balance' \in [Accounts -> Nat]
             /\ balance'[Question] = balance[Question] + amount
             /\ balance'[Market] = balance[Market]
  BY <1>1, <1>2, <1>3 DEF Transfer, CanTransfer
<1>4. ASSUME Transfer(Question, who, amount)
      PROVE  /\ balance' \in [Accounts -> Nat]
             /\ balance'[Question] = balance[Question] - amount
             /\ balance'[Market] = balance[Market]
  BY <1>1, <1>2, <1>4 DEF Transfer, CanTransfer
<1> QED
  BY <1>3, <1>4

\* What is left to show of a step of the question: the market's part follows.
LEMMA QuestionMoves ==
  ASSUME QuestionInv, UntouchedByQuestion,
         balance' \in [Accounts -> Nat], balance'[Market] = balance[Market],
         QuestionTypeOK', ClaimIsWellFormed', DisclosureStands', BondsFollowTheAnswer',
         \/ UNCHANGED <<state, outcome>>
         \/ state # "Final"
  PROVE  QuestionInv'
<1> USE DEF UntouchedByQuestion, bookVars, pauseVars
<1>1. IInv
  BY DEF QuestionInv, MoneyInv, Books
<1>2. TypeOK'
  BY <1>1 DEF IInv, TypeOK, PauseTypeOK
<1>3. ScheduledInOrder' /\ LockedIsFilled' /\ PauseIsLiftable'
  BY <1>1 DEF IInv, ScheduledInOrder, LockedIsFilled, SidesFilled, PauseIsLiftable
<1>4. WellScheduled'
  BY <1>1 DEF IInv, WellScheduled, CutoffAt
<1>5. ResolvedIsAMarket'
  BY <1>1 DEF IInv, ResolvedIsAMarket, SidesFilled, TotalPool
<1>6. NoSinkWithoutStake' /\ ProceedsReturnToFunder'
  BY <1>1 DEF IInv, NoSinkWithoutStake, ProceedsReturnToFunder, TotalStake, Recipient
<1>7. IInv'
  BY <1>2, <1>3, <1>4, <1>5, <1>6 DEF IInv
<1>8. MoneyInv'
  BY <1>7, QuietMoney DEF QuestionInv
<1>9. FitsTheEvent'
  BY DEF QuestionInv, FitsTheEvent
<1>10. OutcomePays'
  BY DEF QuestionInv, OutcomePays
<1> QED
  BY <1>8, <1>9, <1>10 DEF QuestionInv

LEMMA ProposeMoves ==
  ASSUME QuestionInv, UntouchedByQuestion, NEW who \in Reporters, NEW answer \in Outcomes,
         propose(who, answer, DisclosedStake(who))
  PROVE  QuestionInv'
<1> USE DEF challengeVars, UntouchedByQuestion, bookVars
<1>1. /\ balance \in [Accounts -> Nat] /\ now \in Times
      /\ QuestionTypeOK /\ ClaimIsWellFormed /\ BondsFollowTheAnswer
  BY DEF QuestionInv, MoneyInv, Books, IInv, TypeOK
<1>2. /\ state = "Open" /\ state' = "Proposed"
      /\ proposer' = who /\ proposedAt' = now
      /\ proposedOutcome' = answer /\ answer # "None"
      /\ proposerStake' = DisclosedStake(who)
      /\ bondsPosted' = [bondsPosted EXCEPT ![who] = @ + Bond]
      /\ Transfer(who, Question, Bond)
      /\ now >= EventTime
      /\ UNCHANGED <<outcome, challenger, challengedAt, arbiter, marketRoundId, now>>
  BY DEF propose
<1>3. /\ balance' \in [Accounts -> Nat]
      /\ balance'[Question] = balance[Question] + Bond
      /\ balance'[Market] = balance[Market]
  BY <1>1, <1>2, BondFacts, BondTransfer
<1>4. DisclosedStake(who) \in Nat
  <2>1. stakeOf \in [RoundIds -> [Users -> [Sides -> Nat]]] /\ who \in Users
    BY ReportersMayHoldPositions DEF QuestionInv, MoneyInv, Books, IInv, TypeOK
  <2> QED
    BY <2>1 DEF DisclosedStake, TotalStake, Sides
<1>5. QuestionTypeOK'
  BY <1>1, <1>2, <1>4, BondFacts DEF QuestionTypeOK
<1>6. ClaimIsWellFormed'
  BY <1>1, <1>2 DEF ClaimIsWellFormed
<1>7. DisclosureStands'
  <2>1. marketRoundId # 0 => DisclosedStake(who) = TotalStake(marketRoundId, who)
    BY <1>1 DEF ClaimIsWellFormed, DisclosedStake
  <2> QED
    BY <1>2, <2>1 DEF DisclosureStands, TotalStake
<1>8. BondsFollowTheAnswer'
  <2>1. balance[Question] = 0 /\ \A a \in Reporters : bondsPosted[a] = 0
    BY <1>1, <1>2, BondFacts DEF BondsFollowTheAnswer
  <2>2. balance'[Question] = Bond * 1
    BY <1>3, <2>1, BondFacts
  <2>3. \A a \in Reporters : bondsPosted'[a] = IF a = who THEN Bond ELSE 0
    BY <1>1, <1>2, <2>1, BondFacts DEF QuestionTypeOK
  <2> QED
    BY <1>2, <2>2, <2>3 DEF BondsFollowTheAnswer
<1> QED
  BY <1>2, <1>3, <1>5, <1>6, <1>7, <1>8, QuestionMoves

\* A step of the claim after the proposal keeps who proposed what.
LEMMA ProposalKept ==
  ASSUME QuestionInv, UntouchedByQuestion, state # "Open",
         UNCHANGED <<proposalVars, marketRoundId>>
  PROVE  DisclosureStands'
  BY DEF QuestionInv, DisclosureStands, TotalStake, proposalVars, UntouchedByQuestion, bookVars

LEMMA ChallengeMoves ==
  ASSUME QuestionInv, UntouchedByQuestion, NEW who \in Reporters, challenge(who)
  PROVE  QuestionInv'
<1> USE DEF proposalVars, UntouchedByQuestion
<1>1. /\ balance \in [Accounts -> Nat] /\ now \in Times
      /\ QuestionTypeOK /\ ClaimIsWellFormed /\ BondsFollowTheAnswer
  BY DEF QuestionInv, MoneyInv, Books, IInv, TypeOK
<1>2. /\ state = "Proposed" /\ state' = "Challenged"
      /\ challenger' = who /\ challengedAt' = now
      /\ bondsPosted' = [bondsPosted EXCEPT ![who] = @ + Bond]
      /\ Transfer(who, Question, Bond)
      /\ UNCHANGED <<outcome, proposalVars, arbiter, marketRoundId, now>>
  BY DEF challenge
<1>3. /\ balance' \in [Accounts -> Nat]
      /\ balance'[Question] = balance[Question] + Bond
      /\ balance'[Market] = balance[Market]
  BY <1>1, <1>2, BondFacts, BondTransfer
<1>4. QuestionTypeOK'
  BY <1>1, <1>2, BondFacts DEF QuestionTypeOK
<1>5. ClaimIsWellFormed'
  BY <1>1, <1>2 DEF ClaimIsWellFormed
<1>6. DisclosureStands'
  BY <1>2, ProposalKept
<1>7. BondsFollowTheAnswer'
  <2>1. /\ balance[Question] = Bond * 1
        /\ \A a \in Reporters : bondsPosted[a] = IF a = proposer THEN Bond ELSE 0
    BY <1>1, <1>2 DEF BondsFollowTheAnswer
  <2>2. balance'[Question] = Bond * 2
    BY <1>3, <2>1, BondFacts
  <2>3. \A a \in Reporters : bondsPosted'[a] = Refund(a)'
    BY <1>1, <1>2, <2>1, BondFacts DEF QuestionTypeOK, Refund
  <2> QED
    BY <1>2, <2>2, <2>3 DEF BondsFollowTheAnswer
<1> QED
  BY <1>2, <1>3, <1>4, <1>5, <1>6, <1>7, QuestionMoves

LEMMA FinaliseMoves ==
  ASSUME QuestionInv, UntouchedByQuestion, finalise
  PROVE  QuestionInv'
<1> USE DEF proposalVars, challengeVars, UntouchedByQuestion
<1>1. /\ balance \in [Accounts -> Nat]
      /\ QuestionTypeOK /\ ClaimIsWellFormed /\ BondsFollowTheAnswer
  BY DEF QuestionInv, MoneyInv, Books, IInv, TypeOK
<1>2. /\ state = "Proposed" /\ state' = "Final"
      /\ outcome' = proposedOutcome
      /\ bondsPosted' = [bondsPosted EXCEPT ![proposer] = @ - Bond]
      /\ Transfer(Question, proposer, Bond)
      /\ UNCHANGED <<proposalVars, challengeVars, arbiter, marketRoundId, now>>
  BY DEF finalise, PayOut
<1>3. proposer \in Reporters /\ challenger = Nobody /\ proposedOutcome # "None"
  BY <1>1, <1>2 DEF ClaimIsWellFormed
<1>4. /\ balance' \in [Accounts -> Nat]
      /\ balance'[Question] = balance[Question] - Bond
      /\ balance'[Market] = balance[Market]
  BY <1>1, <1>2, <1>3, BondFacts, BondTransfer
<1>5. QuestionTypeOK'
  <2>1. bondsPosted \in [Reporters -> Int] /\ bondsPosted[proposer] - Bond \in Int
    BY <1>1, <1>3, BondFacts DEF QuestionTypeOK
  <2>2. bondsPosted' \in [Reporters -> Int]
    BY <1>2, <2>1
  <2> QED
    BY <1>1, <1>2, <2>2 DEF QuestionTypeOK, Settled
<1>6. ClaimIsWellFormed'
  BY <1>1, <1>2, <1>3 DEF ClaimIsWellFormed
<1>7. DisclosureStands'
  BY <1>2, ProposalKept
<1>8. BondsFollowTheAnswer'
  <2>1. /\ balance[Question] = Bond * 1
        /\ \A a \in Reporters : bondsPosted[a] = IF a = proposer THEN Bond ELSE 0
    BY <1>1, <1>2 DEF BondsFollowTheAnswer
  <2>2. balance'[Question] = Bond * 0
    BY <1>4, <2>1, BondFacts
  <2>3. \A a \in Reporters : bondsPosted'[a] = 0
    BY <1>1, <1>2, <2>1, BondFacts DEF QuestionTypeOK
  <2> QED
    BY <1>2, <1>3, <2>2, <2>3 DEF BondsFollowTheAnswer
<1> QED
  BY <1>2, <1>4, <1>5, <1>6, <1>7, <1>8, QuestionMoves

\* A ruling pays the two bonds to the side that was right.
LEMMA RuleMoves ==
  ASSUME QuestionInv, UntouchedByQuestion, NEW answer \in Outcomes, rule(answer)
  PROVE  QuestionInv'
<1> USE DEF proposalVars, challengeVars, UntouchedByQuestion
<1> DEFINE winner == Vindicated(answer)
<1>1. /\ balance \in [Accounts -> Nat]
      /\ QuestionTypeOK /\ ClaimIsWellFormed /\ BondsFollowTheAnswer
  BY DEF QuestionInv, MoneyInv, Books, IInv, TypeOK
<1>2. /\ state = "Challenged" /\ state' = "Final"
      /\ answer # "None" /\ outcome' = answer
      /\ bondsPosted' = [bondsPosted EXCEPT ![winner] = @ - 2 * Bond]
      /\ Transfer(Question, winner, 2 * Bond)
      /\ UNCHANGED <<proposalVars, challengeVars, arbiter, marketRoundId, now>>
  BY DEF rule, PayOut
<1>3. proposer \in Reporters /\ challenger \in Reporters
  BY <1>1, <1>2 DEF ClaimIsWellFormed
<1>4. winner = IF answer = proposedOutcome THEN proposer ELSE challenger
  BY DEF Vindicated
<1> HIDE DEF winner
<1>5. winner \in Reporters /\ 2 * Bond \in Nat
  BY <1>3, <1>4, BondFacts
<1>6. /\ balance' \in [Accounts -> Nat]
      /\ balance'[Question] = balance[Question] - 2 * Bond
      /\ balance'[Market] = balance[Market]
  BY <1>1, <1>2, <1>5, BondTransfer
<1>7. QuestionTypeOK'
  <2>1. bondsPosted' \in [Reporters -> Int]
    BY <1>1, <1>2, <1>5 DEF QuestionTypeOK
  <2> QED
    BY <1>1, <1>2, <2>1 DEF QuestionTypeOK, Settled
<1>8. ClaimIsWellFormed'
  BY <1>1, <1>2 DEF ClaimIsWellFormed
<1>9. DisclosureStands'
  BY <1>2, ProposalKept
<1>10. BondsFollowTheAnswer'
  <2> DEFINE right == IF outcome' = proposedOutcome' THEN proposer' ELSE challenger'
             wrong == IF outcome' = proposedOutcome' THEN challenger' ELSE proposer'
  <2>1. balance[Question] = Bond * 2 /\ \A a \in Reporters : bondsPosted[a] = Refund(a)
    BY <1>1, <1>2 DEF BondsFollowTheAnswer
  <2>2. balance'[Question] = Bond * 0
    BY <1>6, <2>1, BondFacts
  <2>3. right = winner
    BY <1>2, <1>4
  <2>4. {proposer, challenger} = {right, wrong} /\ challenger' # Nobody
    BY <1>2, <1>3, BondFacts
  <2>5. ASSUME NEW a \in Reporters
        PROVE  bondsPosted'[a] =
                 IF right # wrong THEN IF a = right THEN -Bond ELSE IF a = wrong THEN Bond ELSE 0
                 ELSE 0
    <3>1. Refund(a) = IF a = right THEN IF a = wrong THEN 2 * Bond ELSE Bond
                      ELSE IF a = wrong THEN Bond ELSE 0
      BY <1>2 DEF Refund
    <3>2. bondsPosted'[a] = IF a = right THEN Refund(a) - 2 * Bond ELSE Refund(a)
      BY <1>1, <1>2, <1>5, <2>1, <2>3, BondFacts DEF QuestionTypeOK
    <3> HIDE DEF right, wrong
    <3> QED
      BY <3>1, <3>2, BondFacts
  <2> QED
    BY <1>2, <2>2, <2>4, <2>5 DEF BondsFollowTheAnswer
<1> QED
  BY <1>2, <1>6, <1>7, <1>8, <1>9, <1>10, QuestionMoves

\* Giving up a challenge hands each side its own bond.
LEMMA AbandonMoves ==
  ASSUME QuestionInv, UntouchedByQuestion, abandon
  PROVE  QuestionInv'
<1> USE DEF proposalVars, challengeVars, UntouchedByQuestion
<1>1. /\ balance \in [Accounts -> Nat]
      /\ QuestionTypeOK /\ ClaimIsWellFormed /\ BondsFollowTheAnswer
  BY DEF QuestionInv, MoneyInv, Books, IInv, TypeOK
<1>2. /\ state = "Challenged" /\ state' = "Abandoned"
      /\ balance[Question] >= 2 * Bond
      /\ balance' = [a \in Accounts |->
           IF a = Question THEN balance[a] - 2 * Bond ELSE balance[a] + Refund(a)]
      /\ bondsPosted' = [r \in Reporters |-> bondsPosted[r] - Refund(r)]
      /\ UNCHANGED <<outcome, proposalVars, challengeVars, arbiter, marketRoundId, now>>
  BY DEF abandon
<1>3. proposer \in Reporters /\ challenger \in Reporters
  BY <1>1, <1>2 DEF ClaimIsWellFormed
<1>4. \A a : Refund(a) \in Nat
  BY BondFacts DEF Refund
<1>5. Refund(Market) = 0
  BY <1>3, BondFacts DEF Refund
<1>6. balance' \in [Accounts -> Nat]
  BY <1>1, <1>2, <1>4, BondFacts
<1>7. balance'[Question] = balance[Question] - 2 * Bond /\ balance'[Market] = balance[Market]
  BY <1>1, <1>2, <1>5, BondFacts, AddressesAreDistinct
<1>8. QuestionTypeOK'
  <2>1. bondsPosted' \in [Reporters -> Int]
    BY <1>1, <1>2, <1>4 DEF QuestionTypeOK
  <2> QED
    BY <1>1, <1>2, <2>1 DEF QuestionTypeOK, Settled
<1>9. ClaimIsWellFormed'
  BY <1>1, <1>2, <1>3 DEF ClaimIsWellFormed
<1>10. DisclosureStands'
  BY <1>2, ProposalKept
<1>11. BondsFollowTheAnswer'
  <2>1. balance[Question] = Bond * 2 /\ \A a \in Reporters : bondsPosted[a] = Refund(a)
    BY <1>1, <1>2 DEF BondsFollowTheAnswer
  <2>2. balance'[Question] = Bond * 0
    BY <1>7, <2>1, BondFacts
  <2>3. \A a \in Reporters : bondsPosted'[a] = 0
    BY <1>2, <1>4, <2>1
  <2> QED
    BY <1>2, <2>2, <2>3 DEF BondsFollowTheAnswer
<1> QED
  BY <1>2, <1>6, <1>7, <1>8, <1>9, <1>10, <1>11, QuestionMoves

\* The owner's two acts move no bond and no claim.
LEMMA OwnerMoves ==
  ASSUME QuestionInv, UntouchedByQuestion,
         \/ \E next \in Arbiters : setArbiter(next)
         \/ \E id \in RoundIds : setMarket(id)
  PROVE  QuestionInv'
<1> USE DEF claimVars, proposalVars, challengeVars, UntouchedByQuestion
<1>1. /\ balance \in [Accounts -> Nat]
      /\ QuestionTypeOK /\ ClaimIsWellFormed /\ BondsFollowTheAnswer
  BY DEF QuestionInv, MoneyInv, Books, IInv, TypeOK
<1>2. UNCHANGED <<claimVars, balance, now>>
  BY DEF setArbiter, setMarket
<1>3. arbiter' \in Arbiters /\ marketRoundId' \in RoundIds \cup {0}
  BY <1>1 DEF setArbiter, setMarket, QuestionTypeOK, ClaimIsWellFormed
<1>4. RoundIds \subseteq Nat
  BY InputsAreNaturals DEF RoundIds
<1>5. QuestionTypeOK'
  BY <1>1, <1>2, <1>3, <1>4 DEF QuestionTypeOK
<1>6. ClaimIsWellFormed'
  BY <1>1, <1>2, <1>3 DEF ClaimIsWellFormed
<1>7. DisclosureStands'
  <2>1. CASE state = "Open"
    BY <1>2, <2>1 DEF DisclosureStands
  <2>2. CASE state # "Open"
    <3>1. UNCHANGED marketRoundId
      BY <2>2 DEF setArbiter, setMarket
    <3> QED
      BY <1>2, <2>2, <3>1, ProposalKept
  <2> QED
    BY <2>1, <2>2
<1>8. BondsFollowTheAnswer'
  BY <1>1, <1>2 DEF BondsFollowTheAnswer, Refund
<1> QED
  BY <1>1, <1>2, <1>5, <1>6, <1>7, <1>8, QuestionMoves

-----------------------------------------------------------------------------
LEMMA QuestionStep ==
  QuestionInv /\ [EventMarketNext]_eventMarketVars => QuestionInv'
<1> SUFFICES ASSUME QuestionInv, [EventMarketNext]_eventMarketVars PROVE QuestionInv'
  OBVIOUS
<1>1. CASE NextButResolve /\ UNCHANGED questionVars /\ FitsTheEvent'
  BY <1>1, UnresolvedMoves
<1>2. ASSUME NEW id \in RoundIds, resolveWithAnswer(id) PROVE QuestionInv'
  BY <1>2, ResolveMoves
<1>3. CASE QuestionNext /\ UntouchedByQuestion
  BY <1>3, ProposeMoves, ChallengeMoves, FinaliseMoves, RuleMoves, AbandonMoves, OwnerMoves
     DEF QuestionNext
<1>4. CASE UNCHANGED eventMarketVars
  <2>1. UNCHANGED vars /\ UNCHANGED questionVars
    BY <1>4 DEF eventMarketVars
  <2>2. UNCHANGED <<rounds, state, outcome>>
    BY <2>1 DEF vars, roundVars, questionVars, claimVars
  <2>3. FitsTheEvent' /\ OutcomePays'
    BY <2>2 DEF QuestionInv, FitsTheEvent, OutcomePays
  <2> QED
    BY <2>1, <2>3, MarketMoves
<1> QED
  BY <1>1, <1>2, <1>3, <1>4 DEF EventMarketNext

THEOREM QuestionInvariance == EventMarketSpec => []QuestionInv
  BY InitQuestion, QuestionStep, PTL DEF EventMarketSpec

(***************************************************************************)
(* Market and question stay well typed together: no bond and no stake is   *)
(* ever paid out of a balance that lacks it.                               *)
(***************************************************************************)
THEOREM EventMarketTypeCorrect == EventMarketSpec => []EventMarketTypeOK
<1>1. QuestionInv => EventMarketTypeOK
  BY DEF QuestionInv, MoneyInv, Books, IInv, EventMarketTypeOK
<1> QED
  BY <1>1, QuestionInvariance, PTL

(***************************************************************************)
(* A resolved round paid the side the final answer names, and none         *)
(* resolves on a claim that is open, contested or abandoned (readAt,       *)
(* resolveRound).                                                          *)
(***************************************************************************)
THEOREM PaysTheAnswer == EventMarketSpec => []OutcomePays
<1>1. QuestionInv => OutcomePays
  BY DEF QuestionInv
<1> QED
  BY <1>1, QuestionInvariance, PTL

(***************************************************************************)
(* The interest a proposer disclosed stays theirs: a market scheduled      *)
(* around the event takes no stake once a claim can be made (propose,      *)
(* _stakeOf, _takePosition).                                               *)
(***************************************************************************)
THEOREM DisclosureIsFinal == EventMarketSpec => []DisclosureStands
<1>1. QuestionInv => DisclosureStands
  BY DEF QuestionInv
<1> QED
  BY <1>1, QuestionInvariance, PTL

(***************************************************************************)
(* The question holds exactly the bonds of an open claim and none after;   *)
(* who was out of pocket at the end is who the arbiter ruled against       *)
(* (finalise, rule, abandon).                                              *)
(***************************************************************************)
THEOREM BondsAreAccountedFor == EventMarketSpec => []BondsFollowTheAnswer
<1>1. QuestionInv => BondsFollowTheAnswer
  BY DEF QuestionInv
<1> QED
  BY <1>1, QuestionInvariance, PTL

(***************************************************************************)
(* Bonds and stakes are one token and never pay for each other: the market *)
(* stays solvent whatever becomes of the claim (propose, challenge,        *)
(* finalise, rule, abandon next to claim and withdrawFees).                *)
(***************************************************************************)
THEOREM BondsSpareThePools == EventMarketSpec => [](Solvent /\ NothingStranded)
<1>1. QuestionInv => Solvent /\ NothingStranded
  BY DEF QuestionInv, MoneyInv
<1> QED
  BY <1>1, QuestionInvariance, PTL
-----------------------------------------------------------------------------
(***************************************************************************)
(* The market as an escrow.  A bond goes between its poster and the        *)
(* question, which the escrow does not see.                                *)
(***************************************************************************)
LEMMA BondsMissTheMarket ==
  ASSUME QuestionInv, QuestionNext
  PROVE  balance'[Market] = balance[Market]
<1>1. balance \in [Accounts -> Nat] /\ Bond \in Nat /\ 2 * Bond \in Nat /\ ClaimIsWellFormed
  BY BondFacts DEF QuestionInv, MoneyInv, Books, IInv, TypeOK
<1>2. ASSUME NEW who \in Reporters, NEW answer, NEW disclosed,
             propose(who, answer, disclosed) \/ challenge(who)
      PROVE  balance'[Market] = balance[Market]
  <2>1. Transfer(who, Question, Bond)
    BY <1>2 DEF propose, challenge
  <2> QED BY <1>1, <2>1, BondTransfer
<1>3. CASE finalise
  <2>1. Transfer(Question, proposer, Bond) /\ proposer \in Reporters
    BY <1>1, <1>3 DEF finalise, PayOut, ClaimIsWellFormed
  <2> QED BY <1>1, <2>1, BondTransfer
<1>4. ASSUME NEW answer \in Outcomes, rule(answer)
      PROVE  balance'[Market] = balance[Market]
  <2>1. Transfer(Question, Vindicated(answer), 2 * Bond)
    BY <1>4 DEF rule, PayOut
  <2>2. Vindicated(answer) \in Reporters
    BY <1>1, <1>4 DEF rule, Vindicated, ClaimIsWellFormed
  <2> QED BY <1>1, <2>1, <2>2, BondTransfer
<1>5. CASE abandon
  <2>1. /\ proposer \in Reporters /\ challenger \in Reporters
        /\ balance' = [a \in Accounts |->
             IF a = Question THEN balance[a] - 2 * Bond ELSE balance[a] + Refund(a)]
    BY <1>1, <1>5 DEF abandon, ClaimIsWellFormed
  <2>2. Market \in Accounts /\ Market # Question /\ Market # proposer /\ Market # challenger
    BY <2>1, BondFacts, AddressesAreDistinct
  <2>3. Refund(Market) = 0
    BY <2>2 DEF Refund
  <2> QED BY <1>1, <2>1, <2>2, <2>3
<1>6. ASSUME NEW next, NEW id, setArbiter(next) \/ setMarket(id)
      PROVE  balance'[Market] = balance[Market]
  BY <1>6 DEF setArbiter, setMarket
<1> QED
  BY <1>2, <1>3, <1>4, <1>5, <1>6 DEF QuestionNext

LEMMA EventStepImplements ==
  QuestionInv /\ [EventMarketNext]_eventMarketVars => [Escrow!EscrowNext]_(Escrow!escrowVars)
<1> SUFFICES ASSUME QuestionInv, [EventMarketNext]_eventMarketVars
             PROVE  [Escrow!EscrowNext]_(Escrow!escrowVars)
  OBVIOUS
<1>1. IInv
  BY DEF QuestionInv, MoneyInv, Books
<1>2. CASE [Step]_vars
  BY <1>1, <1>2, StepImplements
<1>3. CASE QuestionNext /\ UntouchedByQuestion
  <2>1. UNCHANGED <<rounds, stakeOf, claimed, protocolFees>>
    BY <1>3 DEF UntouchedByQuestion, bookVars
  <2>2. balance'[Market] = balance[Market]
    BY <1>3, BondsMissTheMarket
  <2>3. UNCHANGED <<EscrowPhase, EscrowStake, EscrowDue>>
    BY <2>1, SameView
  <2> QED BY <2>1, <2>2, <2>3 DEF Escrow!escrowVars
<1>4. [Step]_vars \/ (QuestionNext /\ UntouchedByQuestion)
  <2>1. ASSUME NEW id \in RoundIds, resolveWithAnswer(id) PROVE Step
    BY <2>1, ReadIsOutcome DEF resolveWithAnswer, Step
  <2> QED BY <2>1 DEF EventMarketNext, eventMarketVars, Step
<1> QED
  BY <1>2, <1>3, <1>4

(***************************************************************************)
(* A question market keeps the promise of every round: claims, bonds,      *)
(* rulings and abandoned questions, in any order, leave its holders what   *)
(* an escrow would (readAt, resolveRound, claim next to propose, rule).    *)
(***************************************************************************)
THEOREM EventMarketImplementsEscrow == EventMarketSpec => RefinesPullEscrow
<1>1. EventMarketInit => Escrow!EscrowInit
  BY InitEscrow DEF EventMarketInit
<1> QED
  BY <1>1, EventStepImplements, QuestionInvariance, PTL
     DEF EventMarketSpec, RefinesPullEscrow, Escrow!EscrowSpec
==============================================================================
