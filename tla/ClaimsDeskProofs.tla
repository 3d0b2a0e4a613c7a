--------------------------- MODULE ClaimsDeskProofs ---------------------------
(***************************************************************************)
(* The claims pages for any rounds, stakes, rake and settlements: what     *)
(* they show is what the chain pays, however old each read is, and what a  *)
(* claim run reports is what its transactions did.                         *)
(*                                                                         *)
(* The chain only grows, a round settles once, and is paid once after      *)
(* that, so whatever a read of any age says of a settled round still holds *)
(* of the chain as it is.                                                  *)
(***************************************************************************)
EXTENDS ClaimsDesk, SumTheorems

ChainOK == IsChain(log)

ReadsOK ==
  /\ {listing, roundsAt, positionsAt} \subseteq NotRead..Now
  /\ claimReads.at \in NotRead..Now
  /\ Range(claimReads.asked) \subseteq Rounds

\* The run's claims, in the order they are sent, and how far it is.
Items ==
  [round : Rounds, amount : Nat,
   state : {"pending", "skipped", "cancelled", "failed", "claimed"},
   tx : {"none", "chain", "mined", "reverted"}]
Answered == {"skipped", "failed", "claimed"}

ItemsHold ==
  \A i \in DOMAIN run.items :
    /\ ResultAt(Now, run.items[i].round) # "open"
    /\ run.items[i].amount = Payout(run.items[i].round, ResultAt(Now, run.items[i].round))
ItemsDescend ==
  \A i, j \in DOMAIN run.items : i < j => run.items[i].amount >= run.items[j].amount
StatesFollowTheRun ==
  \A i \in DOMAIN run.items :
    /\ Running /\ i < run.at => run.items[i].state \in Answered
    /\ Running /\ i >= run.at => run.items[i].state = "pending"
    /\ ~Running /\ run.items[i].state = "pending" =>
         \E k \in DOMAIN run.items : k < i /\ run.items[k].state = "cancelled"
    /\ run.items[i].state = "cancelled" =>
         \A j \in DOMAIN run.items :
           /\ j < i => run.items[j].state \in Answered
           /\ j > i => run.items[j].state = "pending"
SentAsReported ==
  \A i \in DOMAIN run.items :
    /\ run.items[i].state = "claimed" => run.items[i].tx = "mined"
    /\ run.items[i].state \in {"skipped", "cancelled"} => run.items[i].tx = "none"
    /\ run.items[i].state = "pending" =>
         \/ run.items[i].tx = "none"
         \/ i = run.at /\ run.step = "receipt"

RunOK ==
  /\ run \in [at : Nat, step : {"idle", "simulate", "prompt", "receipt"}, items : Seq(Items)]
  /\ run.at <= Len(run.items)
  /\ Running <=> run.step # "idle"
  /\ ItemsHold
  /\ ItemsDescend
  /\ StatesFollowTheRun
  /\ SentAsReported

AlertIds == [kind : {"health", "claim"}, band : Bands \cup {""}, rounds : SUBSET Rounds]

SeenOK ==
  /\ band \in Bands
  /\ seen \in Seq(AlertIds)
  /\ Len(seen) <= SeenLimit
  /\ Len(Alerts) <= Len(seen)

DeskInv == ChainOK /\ ReadsOK /\ RunOK /\ SeenOK

-----------------------------------------------------------------------------
\* What a settlement pays.

LEMMA PoolsAreAmounts ==
  ASSUME NEW r \in Rounds
  PROVE  /\ TotalStake(r) \in Nat /\ Rake \in Nat /\ TotalPool(r) \in Nat
         /\ \A side \in {"up", "down"} :
              /\ Mine[r][side] \in Nat /\ Pool(r, side) \in Nat
              /\ Mine[r][side] <= Pool(r, side)
         /\ TotalPool(r) = Pool(r, "up") + Pool(r, "down")
  BY StakesAreAmounts DEF TotalStake, Pool, TotalPool

LEMMA PayoutIsAmount ==
  ASSUME NEW r \in Rounds, NEW result, CanSettle(r, result)
  PROVE  /\ Payout(r, result) \in Nat
         /\ result = "void" => Payout(r, result) = TotalStake(r)
         /\ result # "void" /\ Mine[r][result] = 0 => Payout(r, result) = 0
         /\ result # "void" => Payout(r, result) <= TotalPool(r) - Rake
<1>1. CASE result = "void"
  BY <1>1, PoolsAreAmounts DEF Payout
<1>2. CASE result # "void"
  <2> DEFINE pot == TotalPool(r) - Rake
             mine == Mine[r][result]
             pool == Pool(r, result)
  <2>1. result \in {"up", "down"} /\ pool > 0 /\ Rake <= TotalPool(r)
    BY <1>2 DEF CanSettle
  <2>2. pot \in Nat /\ mine \in Nat /\ pool \in Nat /\ mine <= pool
    BY <2>1, PoolsAreAmounts
  <2>3. Payout(r, result) = (pot * mine) \div pool
    BY <1>2 DEF Payout
  <2>4. result \notin {"void"} /\ TotalPool(r) - Rake = pot /\ Mine[r][result] = mine
    BY <1>2
  <2> HIDE DEF pot, mine, pool
  <2>5. pot * mine \in Nat
    BY <2>2
  <2>6. (pot * mine) \div pool \in Nat /\ pool * ((pot * mine) \div pool) <= pot * mine
    BY <2>1, <2>2, <2>5, FloorIsNat
  <2>7. pot * mine <= pot * pool
    BY <2>2
  <2>8. (pot * mine) \div pool <= pot
    <3> DEFINE q == (pot * mine) \div pool
    <3>1. q \in Nat /\ pool * q <= pot * pool
      BY <2>2, <2>5, <2>6, <2>7
    <3> HIDE DEF q
    <3>2. q > pot => pool * q > pot * pool
      BY <2>1, <2>2, <3>1
    <3>3. q <= pot
      BY <2>2, <3>1, <3>2
    <3> QED BY <3>3 DEF q
  <2>9. mine = 0 => (pot * mine) \div pool = 0
    BY <2>1, <2>2
  <2> QED BY <2>3, <2>4, <2>6, <2>8, <2>9
<1> QED BY <1>1, <1>2

-----------------------------------------------------------------------------
\* A read of any age.

Moments == NotRead..Now

LEMMA ChainTypes ==
  ASSUME ChainOK
  PROVE  /\ log \in Seq(Events) /\ Now \in Nat /\ DOMAIN log = 1..Now
         /\ \A n \in Moments : n \in Int /\ n <= Now /\ 1..n \subseteq DOMAIN log
         /\ \A i \in DOMAIN log : log[i] \in Events /\ log[i].round \in Rounds
<1>1. log \in Seq(Events)
  BY DEF ChainOK, IsChain
<1>2. Now \in Nat /\ DOMAIN log = 1..Now /\ \A i \in DOMAIN log : log[i] \in Events
  BY <1>1 DEF Now
<1>3. \A i \in DOMAIN log : log[i].round \in Rounds
  BY <1>2 DEF Events
<1> QED BY <1>1, <1>2, <1>3 DEF Moments, NotRead

LEMMA ReadResult ==
  ASSUME ChainOK, NEW n \in Moments, NEW r
  PROVE  /\ ResultAt(n, r) # "open" => \E i \in 1..n : Tells(i, "settled", r) /\ log[i].result = ResultAt(n, r)
         /\ \A i \in 1..n : Tells(i, "settled", r) =>
              ResultAt(n, r) = log[i].result /\ ResultAt(n, r) # "open"
<1>1. 1..n \subseteq DOMAIN log /\ \A i \in DOMAIN log : log[i] \in Events
  BY ChainTypes
<1>2. \A i, j \in 1..n : Tells(i, "settled", r) /\ Tells(j, "settled", r) => i = j
  BY <1>1 DEF ChainOK, IsChain, Tells
<1>3. \A i \in 1..n : Tells(i, "settled", r) => log[i].result # "open"
  BY <1>1 DEF Tells, Events
<1>4. CASE \E i \in 1..n : Tells(i, "settled", r)
  <2> DEFINE k == CHOOSE i \in 1..n : Tells(i, "settled", r)
  <2>1. k \in 1..n /\ Tells(k, "settled", r) /\ ResultAt(n, r) = log[k].result
    BY <1>4 DEF ResultAt
  <2> QED BY <2>1, <1>2, <1>3
<1>5. CASE ~\E i \in 1..n : Tells(i, "settled", r)
  BY <1>5 DEF ResultAt
<1> QED BY <1>4, <1>5

LEMMA ResultStays ==
  ASSUME ChainOK, NEW m \in Moments, NEW n \in Moments, m <= n, NEW r, ResultAt(m, r) # "open"
  PROVE  ResultAt(n, r) = ResultAt(m, r)
<1>1. PICK i \in 1..m : Tells(i, "settled", r) /\ log[i].result = ResultAt(m, r)
  BY ReadResult
<1>2. i \in 1..n
  BY ChainTypes
<1> QED BY <1>1, <1>2, ReadResult

LEMMA NowIsAMoment == ASSUME ChainOK PROVE Now \in Moments
  BY ChainTypes DEF Moments, NotRead

\* Once a read calls a round settled, it is, with that result, and can be paid for.
LEMMA SettledIsKnown ==
  ASSUME ChainOK, NEW n \in Moments, NEW r, ResultAt(n, r) # "open"
  PROVE  /\ ResultAt(Now, r) = ResultAt(n, r)
         /\ r \in Rounds
         /\ ResultAt(n, r) \in {"up", "down", "void"}
         /\ CanSettle(r, ResultAt(n, r))
<1>1. n <= Now
  BY ChainTypes
<1>2. ResultAt(Now, r) = ResultAt(n, r)
  BY <1>1, ResultStays, NowIsAMoment
<1>3. PICK i \in 1..n : Tells(i, "settled", r) /\ log[i].result = ResultAt(n, r)
  BY ReadResult
<1>4. i \in DOMAIN log /\ log[i] \in Events
  BY ChainTypes
<1>5. r \in Rounds /\ log[i].result \in {"up", "down", "void"}
  BY <1>3, <1>4 DEF Tells, Events
<1>6. CanSettle(r, log[i].result)
  BY <1>3, <1>4 DEF ChainOK, IsChain, Tells
<1> QED BY <1>2, <1>3, <1>5, <1>6

\* What was paid was settled before, for something.
LEMMA PaidIsSettled ==
  ASSUME ChainOK, NEW n \in Moments, NEW r, PaidAt(n, r)
  PROVE  ResultAt(n, r) # "open" /\ Payout(r, ResultAt(n, r)) > 0
<1>1. PICK i \in 1..n : Tells(i, "paid", r)
  BY DEF PaidAt
<1>2. i \in DOMAIN log /\ n \in Int
  BY ChainTypes
<1>3. PICK j \in 1..(i - 1) : /\ log[j].kind = "settled" /\ log[j].round = log[i].round
                              /\ Payout(log[j].round, log[j].result) > 0
  BY <1>1, <1>2 DEF ChainOK, IsChain, Tells
<1>4. j \in 1..n /\ Tells(j, "settled", r) /\ Payout(r, log[j].result) > 0
  BY <1>1, <1>2, <1>3 DEF Tells
<1> QED BY <1>4, ReadResult

\* What a read of any age calls claimable is what the round pays.
LEMMA ClaimableIsThePayout ==
  ASSUME ChainOK, NEW n \in Moments, NEW r, ClaimableAt(n, r) # 0
  PROVE  /\ r \in Rounds /\ ResultAt(Now, r) # "open"
         /\ ResultAt(n, r) = ResultAt(Now, r) /\ ~PaidAt(n, r)
         /\ ClaimableAt(n, r) = Payout(r, ResultAt(Now, r))
         /\ ClaimableAt(n, r) \in Nat
<1>1. ResultAt(n, r) # "open" /\ ~PaidAt(n, r) /\ ClaimableAt(n, r) = Payout(r, ResultAt(n, r))
  BY DEF ClaimableAt
<1>2. r \in Rounds /\ ResultAt(Now, r) = ResultAt(n, r) /\ CanSettle(r, ResultAt(n, r))
  BY <1>1, SettledIsKnown
<1>3. Payout(r, ResultAt(n, r)) \in Nat
  BY <1>2, PayoutIsAmount
<1> QED BY <1>1, <1>2, <1>3

-----------------------------------------------------------------------------
\* A step of the chain.

Grows == \E e \in Events : log' = Append(log, e)

LEMMA GrowthKeepsReads ==
  ASSUME ChainOK, Grows \/ log' = log
  PROVE  /\ \A n \in Moments : \A r : /\ ResultAt(n, r)' = ResultAt(n, r)
                                      /\ PaidAt(n, r)' = PaidAt(n, r)
                                      /\ ClaimableAt(n, r)' = ClaimableAt(n, r)
         /\ Now' \in Nat /\ Now' >= Now /\ Moments \subseteq NotRead..Now'
<1>1. \A i \in DOMAIN log : log'[i] = log[i]
  BY ChainTypes DEF Grows
<1>2. Len(log') \in Nat /\ Len(log') >= Len(log)
  BY ChainTypes DEF Grows, Now
<1>3. \A n \in Moments : \A i \in 1..n : \A kind, r : Tells(i, kind, r)' = Tells(i, kind, r)
  BY <1>1, ChainTypes DEF Tells
<1>4. ASSUME NEW n \in Moments, NEW r
      PROVE  /\ ResultAt(n, r)' = ResultAt(n, r)
             /\ PaidAt(n, r)' = PaidAt(n, r)
             /\ ClaimableAt(n, r)' = ClaimableAt(n, r)
  <2>1. PaidAt(n, r)' = PaidAt(n, r)
    BY <1>3 DEF PaidAt
  <2>2. ResultAt(n, r)' = ResultAt(n, r)
    <3> DEFINE told == {i \in 1..n : Tells(i, "settled", r)}
    <3>1. {i \in 1..n : Tells(i, "settled", r)'} = told
      BY <1>3
    <3>2. CASE told = {}
      BY <3>1, <3>2 DEF ResultAt
    <3>3. CASE told # {}
      <4>1. PICK i \in 1..n : Tells(i, "settled", r)
        BY <3>3
      <4>2. \A j \in 1..n : Tells(j, "settled", r) => j = i
        BY <4>1, ChainTypes DEF ChainOK, IsChain, Tells
      <4>3. ResultAt(n, r) = log[i].result
        BY <4>1, ReadResult
      <4>4. (CHOOSE j \in 1..n : Tells(j, "settled", r)') = i
        BY <4>1, <4>2, <1>3
      <4>5. ResultAt(n, r)' = log'[i].result
        BY <4>1, <4>4, <1>3 DEF ResultAt
      <4> QED BY <4>1, <4>3, <4>5, <1>1, ChainTypes
    <3> QED BY <3>2, <3>3
  <2> QED BY <2>1, <2>2 DEF ClaimableAt
<1> QED BY <1>2, <1>4, ChainTypes DEF Now, Moments, NotRead

LEMMA GrowthKeepsSettled ==
  ASSUME ChainOK, ChainOK', Grows \/ log' = log, NEW r, ResultAt(Now, r) # "open"
  PROVE  ResultAt(Now, r)' = ResultAt(Now, r)
<1>1. PICK i \in 1..Now : Tells(i, "settled", r) /\ log[i].result = ResultAt(Now, r)
  BY ReadResult, NowIsAMoment
<1>2. log'[i] = log[i] /\ i \in 1..Now'
  BY ChainTypes, GrowthKeepsReads DEF Grows
<1>3. Tells(i, "settled", r)'
  BY <1>1, <1>2 DEF Tells
<1>4. \A j \in 1..Now' : Tells(j, "settled", r)' => j = i
  <2>1. IsChain(log') /\ DOMAIN log' = 1..Now'
    BY DEF ChainOK, IsChain, Now
  <2> QED BY <1>2, <1>3, <2>1 DEF IsChain, Tells
<1>5. (CHOOSE j \in 1..Now' : Tells(j, "settled", r)') = i
  BY <1>2, <1>3, <1>4
<1>6. ResultAt(Now, r)' = log'[i].result
  BY <1>2, <1>3, <1>5 DEF ResultAt
<1> QED BY <1>1, <1>2, <1>6

LEMMA Appended ==
  ASSUME ChainOK, NEW e \in Events, Logs(e)
  PROVE  /\ Grows /\ log' \in Seq(Events) /\ DOMAIN log' = 1..(Now + 1)
         /\ log'[Now + 1] = e /\ \A i \in DOMAIN log : log'[i] = log[i]
         /\ DOMAIN log = 1..Now /\ Now \in Nat
  BY ChainTypes DEF Logs, Grows, Now

LEMMA SettlingGrows ==
  ASSUME ChainOK, NEW r \in Rounds, NEW result \in Results[r], Settles(r, result)
  PROVE  ChainOK' /\ Grows
<1> DEFINE e == [kind |-> "settled", round |-> r, result |-> result]
<1>1. CanSettle(r, result) /\ result \in {"up", "down", "void"}
  BY ResultsAreSettlements DEF CanSettle
<1>2. e \in Events /\ Logs(e)
  BY <1>1 DEF Events, Settles
<1>3. \A i \in DOMAIN log : ~Tells(i, "settled", r)
  BY ReadResult, NowIsAMoment, ChainTypes DEF Settles
<1>a. /\ Grows /\ log' \in Seq(Events) /\ DOMAIN log' = 1..(Now + 1)
      /\ log'[Now + 1] = e /\ \A i \in DOMAIN log : log'[i] = log[i]
      /\ DOMAIN log = 1..Now /\ Now \in Nat
  BY <1>2, Appended
<1>b. \A i \in DOMAIN log' : i \in DOMAIN log \/ i = Now + 1
  BY <1>a
<1>4. \A i, j \in DOMAIN log' : log'[i].kind = log'[j].kind /\ log'[i].round = log'[j].round => i = j
  BY <1>a, <1>b, <1>3 DEF ChainOK, IsChain, Tells
<1>5. \A i \in DOMAIN log' : log'[i].kind = "settled" => CanSettle(log'[i].round, log'[i].result)
  BY <1>a, <1>b, <1>1 DEF ChainOK, IsChain
<1>6. \A i \in DOMAIN log' : log'[i].kind = "paid" =>
        \E j \in 1..(i - 1) :
          log'[j].kind = "settled" /\ log'[j].round = log'[i].round /\ Payout(log'[j].round, log'[j].result) > 0
  <2> SUFFICES ASSUME NEW i \in DOMAIN log', log'[i].kind = "paid"
               PROVE  \E j \in 1..(i - 1) :
                        log'[j].kind = "settled" /\ log'[j].round = log'[i].round /\ Payout(log'[j].round, log'[j].result) > 0
    OBVIOUS
  <2>1. i \in DOMAIN log /\ log[i].kind = "paid"
    BY <1>a, <1>b
  <2>2. PICK j \in 1..(i - 1) :
          log[j].kind = "settled" /\ log[j].round = log[i].round /\ Payout(log[j].round, log[j].result) > 0
    BY <2>1 DEF ChainOK, IsChain
  <2>3. j \in DOMAIN log
    BY <2>1, <1>a
  <2> QED BY <1>a, <2>1, <2>2, <2>3
<1>7. IsChain(log')
  BY <1>a, <1>4, <1>5, <1>6 DEF IsChain
<1> QED BY <1>7, <1>a DEF ChainOK

LEMMA PayingGrows ==
  ASSUME ChainOK, NEW r, ClaimableAt(Now, r) > 0, NEW by \in {"run", "other"},
         Logs([kind |-> "paid", round |-> r, by |-> by])
  PROVE  ChainOK' /\ Grows
<1> DEFINE e == [kind |-> "paid", round |-> r, by |-> by]
<1>1. /\ r \in Rounds /\ ResultAt(Now, r) # "open"
      /\ ResultAt(Now, r) = ResultAt(Now, r) /\ ~PaidAt(Now, r)
      /\ ClaimableAt(Now, r) = Payout(r, ResultAt(Now, r))
      /\ ClaimableAt(Now, r) \in Nat
  BY ClaimableIsThePayout, NowIsAMoment
<1>2. e \in Events
  BY <1>1 DEF Events
<1>3. \A i \in DOMAIN log : ~Tells(i, "paid", r)
  BY <1>1, ChainTypes DEF PaidAt
<1>a. /\ Grows /\ log' \in Seq(Events) /\ DOMAIN log' = 1..(Now + 1)
      /\ log'[Now + 1] = e /\ \A i \in DOMAIN log : log'[i] = log[i]
      /\ DOMAIN log = 1..Now /\ Now \in Nat
  BY <1>2, Appended
<1>b. \A i \in DOMAIN log' : i \in DOMAIN log \/ i = Now + 1
  BY <1>a
<1>4. \A i, j \in DOMAIN log' : log'[i].kind = log'[j].kind /\ log'[i].round = log'[j].round => i = j
  BY <1>a, <1>b, <1>3 DEF ChainOK, IsChain, Tells
<1>5. \A i \in DOMAIN log' : log'[i].kind = "settled" => CanSettle(log'[i].round, log'[i].result)
  BY <1>a, <1>b DEF ChainOK, IsChain
<1>6. \A i \in DOMAIN log' : log'[i].kind = "paid" =>
        \E j \in 1..(i - 1) :
          log'[j].kind = "settled" /\ log'[j].round = log'[i].round /\ Payout(log'[j].round, log'[j].result) > 0
  <2> SUFFICES ASSUME NEW i \in DOMAIN log', log'[i].kind = "paid"
               PROVE  \E j \in 1..(i - 1) :
                        log'[j].kind = "settled" /\ log'[j].round = log'[i].round /\ Payout(log'[j].round, log'[j].result) > 0
    OBVIOUS
  <2>1. CASE i = Now + 1
    <3>1. PICK j \in 1..Now : Tells(j, "settled", r) /\ log[j].result = ResultAt(Now, r)
      BY <1>1, ReadResult, NowIsAMoment
    <3>2. j \in 1..(i - 1) /\ log'[j] = log[j]
      BY <1>a, <2>1
    <3>3. log[j].kind = "settled" /\ log[j].round = r /\ log'[i].round = r
      BY <1>a, <2>1, <3>1 DEF Tells
    <3>4. Payout(r, log[j].result) > 0
      BY <1>1, <3>1
    <3> QED BY <3>2, <3>3, <3>4
  <2>2. CASE i \in DOMAIN log
    <3>1. log[i].kind = "paid"
      BY <1>a, <2>2
    <3>2. PICK j \in 1..(i - 1) :
            log[j].kind = "settled" /\ log[j].round = log[i].round /\ Payout(log[j].round, log[j].result) > 0
      BY <2>2, <3>1 DEF ChainOK, IsChain
    <3>3. j \in DOMAIN log
      BY <2>2, <1>a
    <3> QED BY <1>a, <2>2, <3>2, <3>3
  <2> QED BY <1>b, <2>1, <2>2
<1>7. IsChain(log')
  BY <1>a, <1>4, <1>5, <1>6 DEF IsChain
<1> QED BY <1>7, <1>a DEF ChainOK

\* Every step leaves the chain alone or appends what a contract may do to it.
LEMMA ChainStep ==
  ASSUME ChainOK, [DeskNext]_deskVars
  PROVE  ChainOK' /\ (Grows \/ log' = log)
<1>1. CASE log' = log
  BY <1>1 DEF ChainOK
<1>2. CASE log' # log
  <2>1. \/ \E r \in Rounds : PaidByOther(r)
        \/ \E r \in Rounds : \E result \in Results[r] : Settles(r, result)
        \/ \E i \in DOMAIN run.items : RunIsMined(i)
    BY <1>2 DEF DeskNext, deskVars, RunStarts, Simulates, Prompted, ReceiptAnswers, ListingFetched,
                RoundsPoll, PositionsPoll, ClaimsConfirmed, BandMoves, SomebodyClaims, RowClaims, CardClaims
  <2>2. ASSUME NEW r \in Rounds, PaidByOther(r) PROVE ChainOK' /\ Grows
    <3>1. ClaimableAt(Now, r) > 0 /\ Logs([kind |-> "paid", round |-> r, by |-> "other"])
      BY <2>2 DEF PaidByOther
    <3> QED BY <3>1, PayingGrows
  <2>3. ASSUME NEW r \in Rounds, NEW result \in Results[r], Settles(r, result) PROVE ChainOK' /\ Grows
    BY <2>3, SettlingGrows
  <2>4. ASSUME NEW i \in DOMAIN run.items, RunIsMined(i) PROVE ChainOK' /\ Grows
    <3> DEFINE r == run.items[i].round
    <3>1. ClaimableAt(Now, r) > 0 /\ Logs([kind |-> "paid", round |-> r, by |-> "run"])
      BY <1>2, <2>4 DEF RunIsMined
    <3> QED BY <3>1, PayingGrows
  <2> QED BY <2>1, <2>2, <2>3, <2>4
<1> QED BY <1>1, <1>2

-----------------------------------------------------------------------------
\* A finite set in the order of a key.

LEMMA HasGreatest ==
  ASSUME NEW S, IsFiniteSet(S), S # {}, NEW key \in [S -> Int]
  PROVE  \E m \in S : \A x \in S : key[x] <= key[m]
<1> DEFINE Good == {T \in SUBSET S : T = {} \/ \E m \in T : \A x \in T : key[x] <= key[m]}
<1>1. {} \in Good
  OBVIOUS
<1>2. ASSUME NEW T \in SUBSET S, T # {}, \A x \in T : T \ {x} \in Good PROVE T \in Good
  <2>1. PICK x \in T : T \ {x} \in Good
    BY <1>2
  <2>2. CASE T \ {x} = {}
    <3>1. \A y \in T : y = x
      BY <2>2
    <3> QED BY <2>1, <3>1
  <2>3. CASE T \ {x} # {}
    <3>1. PICK m \in T \ {x} : \A y \in T \ {x} : key[y] <= key[m]
      BY <2>1, <2>3
    <3>2. CASE key[x] <= key[m]
      BY <3>1, <3>2
    <3>3. CASE ~(key[x] <= key[m])
      <4>1. \A y \in T : key[y] <= key[x]
        BY <3>1, <3>3
      <4> QED BY <4>1, <2>1
    <3> QED BY <3>2, <3>3
  <2> QED BY <2>2, <2>3
<1> HIDE DEF Good
<1>3. S \in Good
  BY <1>1, <1>2, SetInduction
<1> QED BY <1>3 DEF Good

InOrder(order, key) ==
  \A i, j \in DOMAIN order : i < j => key[order[i]] >= key[order[j]] /\ order[i] # order[j]

LEMMA GreatestGoesFirst ==
  ASSUME NEW n \in Nat, NEW T, NEW m \in T, NEW key, \A x \in T : key[x] \in Int /\ key[x] <= key[m],
         NEW order \in [1..n -> T \ {m}],
         InOrder(order, key)
  PROVE  \E longer \in [1..(n + 1) -> T] : InOrder(longer, key)
<1> DEFINE longer == [i \in 1..(n + 1) |-> IF i = 1 THEN m ELSE order[i - 1]]
<1>1. \A i \in 1..(n + 1) : i # 1 => i - 1 \in 1..n /\ longer[i] = order[i - 1]
  OBVIOUS
<1>2. longer[1] = m
  OBVIOUS
<1>3. \A i \in 1..(n + 1) : i # 1 => longer[i] \in T \ {m}
  BY <1>1
<1>4. longer \in [1..(n + 1) -> T]
  OBVIOUS
<1>5. DOMAIN longer = 1..(n + 1) /\ DOMAIN order = 1..n
  OBVIOUS
<1> HIDE DEF longer
<1>6. ASSUME NEW i \in 1..(n + 1), NEW j \in 1..(n + 1), i < j
      PROVE  key[longer[i]] >= key[longer[j]] /\ longer[i] # longer[j]
  <2>1. j # 1 /\ longer[j] \in T \ {m} /\ longer[j] = order[j - 1] /\ j - 1 \in 1..n
    BY <1>1, <1>3, <1>6
  <2>2. CASE i = 1
    BY <2>1, <2>2, <1>2
  <2>3. CASE i # 1
    <3>1. longer[i] = order[i - 1] /\ i - 1 \in 1..n /\ i - 1 < j - 1
      BY <1>1, <1>6, <2>3
    <3> QED BY <3>1, <2>1, <1>5 DEF InOrder
  <2> QED BY <2>2, <2>3
<1> QED BY <1>4, <1>5, <1>6 DEF InOrder

LEMMA CanBeOrdered ==
  ASSUME NEW S, IsFiniteSet(S), NEW key \in [S -> Int]
  PROVE  \E order \in [1..Cardinality(S) -> S] : InOrder(order, key)
<1> DEFINE Good == {T \in SUBSET S : \E order \in [1..Cardinality(T) -> T] : InOrder(order, key)}
<1>1. {} \in Good
  <2> DEFINE none == [i \in 1..0 |-> 0]
  <2>1. Cardinality({}) = 0
    BY FS_EmptySet
  <2>2. none \in [1..0 -> {}] /\ InOrder(none, key)
    BY DEF InOrder
  <2> QED BY <2>1, <2>2
<1>2. ASSUME NEW T \in SUBSET S, T # {}, \A x \in T : T \ {x} \in Good PROVE T \in Good
  <2>1. IsFiniteSet(T) /\ \A x \in T : x \in S
    BY FS_Subset
  <2>2. PICK m \in T : \A x \in T : key[x] <= key[m]
    <3> DEFINE part == [x \in T |-> key[x]]
    <3>1. part \in [T -> Int]
      BY <2>1
    <3>2. \E m \in T : \A x \in T : part[x] <= part[m]
      BY <1>2, <2>1, <3>1, HasGreatest
    <3> QED BY <3>2
  <2>3. Cardinality(T) \in Nat /\ Cardinality(T \ {m}) \in Nat /\ Cardinality(T \ {m}) = Cardinality(T) - 1
    BY <2>1, FS_RemoveElement, FS_CardinalityType
  <2>4. PICK n \in Nat : n = Cardinality(T \ {m}) /\ n + 1 = Cardinality(T)
    BY <2>3
  <2>5. PICK order \in [1..n -> T \ {m}] : InOrder(order, key)
    BY <1>2, <2>4
  <2>6. \A x \in T : key[x] \in Int /\ key[x] <= key[m]
    BY <2>1, <2>2
  <2>7. \E longer \in [1..(n + 1) -> T] : InOrder(longer, key)
    BY <2>5, <2>6, GreatestGoesFirst
  <2> QED BY <2>4, <2>7
<1> HIDE DEF Good
<1>3. S \in Good
  BY <1>1, <1>2, SetInduction
<1> QED BY <1>3 DEF Good

\* The claims the panel counts, biggest first.
LEMMA ClaimablesAreAmounts ==
  ASSUME ChainOK, ReadsOK
  PROVE  /\ IsFiniteSet(Claimables)
         /\ \A c \in Claimables :
              /\ c.round \in Rounds /\ c.amount \in Nat
              /\ ResultAt(Now, c.round) # "open" /\ c.amount = Payout(c.round, ResultAt(Now, c.round))
<1>1. CASE Claimables = {}
  BY <1>1, FS_EmptySet
<1>2. CASE Claimables # {}
  <2> DEFINE Won == {q \in Recent : ClaimableAt(positionsAt, q) > 0 /\ ~PaidAt(positionsAt, q)}
             Claim(q) == [round |-> q, amount |-> ClaimableAt(positionsAt, q)]
             claim == [q \in Won |-> Claim(q)]
  <2>1. Claimables = {Claim(q) : q \in Won}
    BY <1>2 DEF Claimables
  <2>2. Won \subseteq Rounds /\ positionsAt \in Moments
    BY DEF Recent, ReadsOK, Moments
  <2>3. ASSUME NEW q \in Won
        PROVE  /\ q \in Rounds /\ ClaimableAt(positionsAt, q) \in Nat /\ ResultAt(Now, q) # "open"
               /\ ClaimableAt(positionsAt, q) = Payout(q, ResultAt(Now, q))
    <3>1. ClaimableAt(positionsAt, q) # 0
      OBVIOUS
    <3> HIDE DEF Won
    <3>2. /\ q \in Rounds /\ ResultAt(Now, q) # "open"
          /\ ResultAt(positionsAt, q) = ResultAt(Now, q) /\ ~PaidAt(positionsAt, q)
          /\ ClaimableAt(positionsAt, q) = Payout(q, ResultAt(Now, q))
          /\ ClaimableAt(positionsAt, q) \in Nat
      BY <2>2, <3>1, ClaimableIsThePayout
    <3> QED BY <3>2
  <2>4. IsFiniteSet(Won)
    BY <2>2, RoundsAreListed, FS_Subset
  <2>5. claim \in Surjection(Won, {Claim(q) : q \in Won})
    BY DEF Surjection
  <2>6. IsFiniteSet({Claim(q) : q \in Won})
    <3> HIDE DEF Won, claim
    <3> QED BY <2>4, <2>5, FS_Surjection
  <2>7. ASSUME NEW c \in Claimables
        PROVE  /\ c.round \in Rounds /\ c.amount \in Nat
               /\ ResultAt(Now, c.round) # "open" /\ c.amount = Payout(c.round, ResultAt(Now, c.round))
    <3>1. PICK q \in Won : c = Claim(q)
      BY <2>1
    <3>2. c.round = q /\ c.amount = ClaimableAt(positionsAt, q)
      BY <3>1
    <3> HIDE DEF Won
    <3> QED BY <3>2, <2>3
  <2> QED BY <2>1, <2>6, <2>7
<1> QED BY <1>1, <1>2

LEMMA QueueDescends ==
  ASSUME ChainOK, ReadsOK
  PROVE  /\ Cardinality(Claimables) \in Nat
         /\ OrderClaims(Claimables) \in [1..Cardinality(Claimables) -> Claimables]
         /\ \A i, j \in 1..Cardinality(Claimables) :
              i < j => OrderClaims(Claimables)[i].amount >= OrderClaims(Claimables)[j].amount
         /\ Claimables # {} => Cardinality(Claimables) > 0
<1> DEFINE key == [c \in Claimables |-> c.amount]
           Sorted(order) == \A i, j \in DOMAIN order : i < j => order[i].amount >= order[j].amount /\ order[i] # order[j]
<1>1. IsFiniteSet(Claimables) /\ key \in [Claimables -> Int]
  BY ClaimablesAreAmounts
<1>2. Cardinality(Claimables) \in Nat /\ (Claimables # {} => Cardinality(Claimables) > 0)
  BY <1>1, FS_CardinalityType, FS_EmptySet
<1>3. PICK order \in [1..Cardinality(Claimables) -> Claimables] : InOrder(order, key)
  <2> HIDE DEF key
  <2> QED BY <1>1, CanBeOrdered
<1>4. Sorted(order)
  BY <1>3 DEF InOrder
<1>5. OrderClaims(Claimables) = CHOOSE o \in [1..Cardinality(Claimables) -> Claimables] : Sorted(o)
  BY DEF OrderClaims, Descending
<1>6. OrderClaims(Claimables) \in [1..Cardinality(Claimables) -> Claimables] /\ Sorted(OrderClaims(Claimables))
  <2> HIDE DEF Sorted
  <2> QED BY <1>3, <1>4, <1>5
<1> QED BY <1>2, <1>6

\* The rounds asked of the chain are the listing's unclaimed ones.
LEMMA PendingIsListed ==
  ASSUME NEW r \in Range(Pending)
  PROVE  r \in History /\ IsUnclaimed(Position(listing, r))
<1> DEFINE S == {q \in History : IsUnclaimed(Position(listing, q))}
           key == [q \in S |-> q]
           Sorted(order) == \A i, j \in DOMAIN order : i < j => order[i] >= order[j] /\ order[i] # order[j]
<1>1. S \subseteq Rounds
  BY DEF History, Listed
<1>2. IsFiniteSet(S) /\ key \in [S -> Int]
  <2> HIDE DEF S
  <2>1. IsFiniteSet(S)
    BY <1>1, RoundsAreListed, FS_Subset
  <2> QED BY <1>1, <2>1, RoundsAreListed
<1>3. PICK order \in [1..Cardinality(S) -> S] : InOrder(order, key)
  <2> HIDE DEF key, S
  <2> QED BY <1>2, CanBeOrdered
<1>4. Sorted(order)
  <2> HIDE DEF S
  <2> QED BY <1>3 DEF InOrder
<1>5. Pending = CHOOSE o \in [1..Cardinality(S) -> S] : Sorted(o)
  BY DEF Pending, NewestFirst, Descending
<1>6. Pending \in [1..Cardinality(S) -> S]
  <2> HIDE DEF Sorted, S
  <2> QED BY <1>3, <1>4, <1>5
<1>7. r \in S
  <2> HIDE DEF S
  <2> QED BY <1>6 DEF Range
<1> QED BY <1>7

-----------------------------------------------------------------------------
\* Alerts: what is new is remembered.

LEMMA NewAlerts ==
  ASSUME NEW s \in Seq(AlertIds), NEW known \in Seq(AlertIds)
  PROVE  /\ Unseen(s, known) \in Seq(AlertIds)
         /\ IsFiniteSet({i \in DOMAIN s : s[i] \notin Range(known)})
         /\ Len(Unseen(s, known)) = Cardinality({i \in DOMAIN s : s[i] \notin Range(known)})
<1> DEFINE S == {i \in DOMAIN s : s[i] \notin Range(known)}
           key == [i \in S |-> -i]
           Sorted(order) == \A i, j \in DOMAIN order : i < j => -order[i] >= -order[j] /\ order[i] # order[j]
           at == CHOOSE o \in [1..Cardinality(S) -> S] : Sorted(o)
<1>1. IsFiniteSet(S) /\ key \in [S -> Int]
  <2>1. S \subseteq 1..Len(s) /\ IsFiniteSet(1..Len(s))
    BY FS_Interval
  <2> HIDE DEF S
  <2>2. IsFiniteSet(S)
    BY <2>1, FS_Subset
  <2> QED BY <2>1, <2>2
<1>2. PICK order \in [1..Cardinality(S) -> S] : InOrder(order, key)
  <2> HIDE DEF key, S
  <2> QED BY <1>1, CanBeOrdered
<1>3. Sorted(order)
  <2> HIDE DEF S
  <2> QED BY <1>2 DEF InOrder
<1>4. at \in [1..Cardinality(S) -> S]
  <2> HIDE DEF Sorted, S
  <2> QED BY <1>2, <1>3
<1>5. Unseen(s, known) = [k \in DOMAIN at |-> s[at[k]]]
  BY DEF Unseen, Those, Descending
<1>6. Cardinality(S) \in Nat
  BY <1>1, FS_CardinalityType
<1>7. \A i \in S : s[i] \in AlertIds
  OBVIOUS
<1> HIDE DEF S, at
<1>8. Unseen(s, known) \in [1..Cardinality(S) -> AlertIds]
  BY <1>4, <1>5, <1>7
<1>9. Unseen(s, known) \in Seq(AlertIds) /\ Len(Unseen(s, known)) = Cardinality(S)
  BY <1>6, <1>8
<1> QED BY <1>1, <1>9 DEF S

AlertsFit ==
  /\ Alerts \in Seq(AlertIds) /\ Len(Alerts) <= 2
  /\ Len(Alerts) = 2 => Alerts[1] # Alerts[2]

LEMMA AlertsAreTwo == band \in Bands => AlertsFit
<1> SUFFICES ASSUME band \in Bands PROVE AlertsFit
  OBVIOUS
<1>1. HealthAlert \in AlertIds
  BY DEF HealthAlert, AlertIds
<1>2. ClaimAlert \in AlertIds
  <2>1. \A c \in Claimables : c.round \in Rounds
    BY DEF Claimables, Recent
  <2> QED BY <2>1 DEF ClaimAlert, AlertIds
<1>3. HealthAlert # ClaimAlert
  BY DEF HealthAlert, ClaimAlert
<1> QED BY <1>1, <1>2, <1>3 DEF Alerts, AlertsFit

LEMMA NextAlertsAreTwo == (band \in Bands)' => AlertsFit'
  BY AlertsAreTwo, PTL

\* Alerts that stand are remembered, or were: their number is no more than the ids'.
LEMMA AnnouncedAreRemembered ==
  ASSUME NEW s \in Seq(AlertIds), Len(s) <= 2, Len(s) = 2 => s[1] # s[2],
         NEW known \in Seq(AlertIds), Len(known) <= SeenLimit,
         NEW after, after = Remembered(known \o Unseen(s, known))
  PROVE  after \in Seq(AlertIds) /\ Len(after) <= SeenLimit /\ Len(s) <= Len(after)
<1> DEFINE new == {i \in DOMAIN s : s[i] \notin Range(known)}
           more == Unseen(s, known)
<1>1. SeenLimit \in Nat /\ SeenLimit >= 2
  BY DeskBounds, SeenHoldsTheAlerts
<1>2. more \in Seq(AlertIds) /\ IsFiniteSet(new) /\ Len(more) = Cardinality(new)
  BY NewAlerts
<1>3. Len(s) <= Len(known) + Len(more)
  <2>1. Cardinality(new) \in Nat /\ (new # {} => Cardinality(new) > 0)
    BY <1>2, FS_CardinalityType, FS_EmptySet
  <2>2. \A i \in DOMAIN s : i \notin new => \E k \in DOMAIN known : known[k] = s[i]
    BY DEF Range
  <2> HIDE DEF new, more
  <2>3. Len(known) \in Nat /\ DOMAIN known = 1..Len(known) /\ Len(s) \in Nat /\ DOMAIN s = 1..Len(s)
    OBVIOUS
  <2>4. CASE Len(s) = 0
    BY <2>4, <2>1, <1>2, <2>3
  <2>5. CASE Len(s) = 1
    <3>1. CASE 1 \in new
      <4>1. Cardinality(new) > 0
        BY <3>1, <2>1
      <4> QED BY <4>1, <2>1, <2>3, <2>5, <1>2
    <3>2. CASE 1 \notin new
      <4>1. 1 \in DOMAIN s
        BY <2>3, <2>5
      <4>2. PICK k \in DOMAIN known : known[k] = s[1]
        BY <3>2, <4>1, <2>2
      <4>3. Len(known) >= 1
        BY <4>2, <2>3
      <4> QED BY <4>3, <2>1, <2>3, <2>5, <1>2
    <3> QED BY <3>1, <3>2
  <2>6. CASE Len(s) = 2
    <3>1. DOMAIN s = {1, 2}
      BY <2>6, <2>3
    <3>2. CASE 1 \in new /\ 2 \in new
      <4>1. /\ IsFiniteSet(new \ {1}) /\ Cardinality(new \ {1}) \in Nat
            /\ Cardinality(new \ {1}) = Cardinality(new) - 1
        BY <3>2, <1>2, FS_RemoveElement, FS_CardinalityType
      <4>2. Cardinality(new \ {1}) # 0
        <5>1. 2 \in new \ {1}
          BY <3>2
        <5>2. IsFiniteSet(new \ {1}) /\ new \ {1} # {}
          BY <4>1, <5>1
        <5> QED BY <5>2, FS_EmptySet
      <4> QED BY <4>1, <4>2, <2>1, <2>3, <2>6, <1>2
    <3>3. CASE 1 \notin new /\ 2 \notin new
      <4>1. PICK k \in DOMAIN known : known[k] = s[1]
        BY <3>1, <3>3, <2>2
      <4>2. PICK l \in DOMAIN known : known[l] = s[2]
        BY <3>1, <3>3, <2>2
      <4>3. k # l
        BY <4>1, <4>2, <2>6
      <4>4. Len(known) >= 2
        BY <4>3, <2>3
      <4> QED BY <4>4, <2>1, <2>3, <2>6, <1>2
    <3>4. ASSUME NEW i \in {1, 2}, NEW j \in {1, 2}, i \in new, j \notin new
          PROVE  Len(s) <= Len(known) + Len(more)
      <4>1. PICK k \in DOMAIN known : known[k] = s[j]
        BY <3>1, <3>4, <2>2
      <4>2. Len(known) >= 1
        BY <4>1, <2>3
      <4>3. Cardinality(new) > 0
        BY <3>4, <2>1
      <4> QED BY <4>2, <4>3, <2>1, <2>3, <2>6, <1>2
    <3> QED BY <3>2, <3>3, <3>4
  <2> QED BY <2>3, <2>4, <2>5, <2>6
<1> HIDE DEF more, new
<1> DEFINE all == known \o more
           first == IF Len(all) > SeenLimit THEN Len(all) - SeenLimit + 1 ELSE 1
<1>4. all \in Seq(AlertIds) /\ Len(all) = Len(known) + Len(more) /\ Len(all) \in Nat
  BY <1>2
<1>5. after = SubSeq(all, first, Len(all))
  BY DEF Remembered, more
<1> HIDE DEF all
<1>6. first \in 1..(Len(all) + 1)
  BY <1>1, <1>4
<1>7. after \in Seq(AlertIds) /\ Len(after) = Len(all) - first + 1
  BY <1>4, <1>5, <1>6
<1> QED BY <1>1, <1>3, <1>4, <1>7

-----------------------------------------------------------------------------
\* The reads and the alerts, step by step.

LEMMA InitDesk == DeskInit => DeskInv
<1> SUFFICES ASSUME DeskInit PROVE DeskInv
  OBVIOUS
<1>1. ChainOK
  BY OpensOnAChain DEF DeskInit, ChainOK
<1>2. Now \in Nat
  BY <1>1, ChainTypes
<1>3. ReadsOK
  BY <1>2 DEF DeskInit, ReadsOK, NotRead, Range
<1>4. RunOK
  BY DEF DeskInit, RunOK, Idle, Running, ItemsHold, ItemsDescend, StatesFollowTheRun, SentAsReported
<1>5. SeenOK
  <2>1. Alerts = <<>>
    BY DEF DeskInit, Alerts, Claimables, NotRead
  <2> QED BY <2>1, OpensInASafeBand, DeskBounds DEF DeskInit, SeenOK
<1> QED BY <1>1, <1>3, <1>4, <1>5 DEF DeskInv

LEMMA ReadsStep ==
  ASSUME ChainOK, ReadsOK, [DeskNext]_deskVars
  PROVE  ReadsOK'
<1>1. Now \in Nat /\ Now' \in Nat /\ Now' >= Now
  BY ChainStep, ChainTypes, GrowthKeepsReads
<1>2. \A n \in NotRead..Now : n \in NotRead..Now'
  BY <1>1 DEF NotRead
<1>3. Range(Pending) \subseteq Rounds
  BY PendingIsListed DEF History, Listed
<1>4. CASE ListingFetched
  <2>1. listing' \in NotRead..Now
    BY <1>4, <1>1 DEF ListingFetched, ReadsOK, NotRead
  <2> QED BY <1>4, <2>1, <1>2 DEF ListingFetched, ReadsOK
<1>5. CASE RoundsPoll
  <2>1. roundsAt' \in NotRead..Now
    BY <1>5, <1>1 DEF RoundsPoll, NotRead
  <2> QED BY <1>5, <2>1, <1>2 DEF RoundsPoll, ReadsOK
<1>6. CASE PositionsPoll
  <2>1. positionsAt' \in NotRead..Now
    BY <1>6, <1>1 DEF PositionsPoll, NotRead
  <2> QED BY <1>6, <2>1, <1>2 DEF PositionsPoll, ReadsOK
<1>7. ASSUME NEW unreadable \in BOOLEAN, ClaimsConfirmed(unreadable) PROVE ReadsOK'
  <2>1. claimReads'.at \in NotRead..Now /\ claimReads'.asked = Pending
    BY <1>7, <1>1 DEF ClaimsConfirmed, NotRead
  <2> QED BY <1>7, <2>1, <1>2, <1>3 DEF ClaimsConfirmed, ReadsOK
<1>8. CASE UNCHANGED <<listing, roundsAt, positionsAt, claimReads>>
  BY <1>8, <1>2 DEF ReadsOK
<1>9. \/ ListingFetched \/ RoundsPoll \/ PositionsPoll
      \/ \E unreadable \in BOOLEAN : ClaimsConfirmed(unreadable)
      \/ UNCHANGED <<listing, roundsAt, positionsAt, claimReads>>
  BY DEF DeskNext, deskVars, RunStarts, Simulates, Prompted, ReceiptAnswers, BandMoves,
         SomebodyClaims, RowClaims, CardClaims, PaidByOther, Settles, RunIsMined
<1> QED BY <1>4, <1>5, <1>6, <1>7, <1>8, <1>9

LEMMA AnnouncedStep ==
  ASSUME SeenOK, band' \in Bands, Announces
  PROVE  SeenOK'
<1>1. AlertsFit'
  BY NextAlertsAreTwo
<1>2. PICK alerts \in {Alerts'} : seen' = Remembered(seen \o Unseen(alerts, seen))
  BY DEF Announces
<1>3. alerts = Alerts'
  BY <1>2
<1>4. alerts \in Seq(AlertIds) /\ Len(alerts) <= 2 /\ (Len(alerts) = 2 => alerts[1] # alerts[2])
  BY <1>1, <1>3 DEF AlertsFit
<1>5. seen \in Seq(AlertIds) /\ Len(seen) <= SeenLimit
  BY DEF SeenOK
<1>6. seen' \in Seq(AlertIds) /\ Len(seen') <= SeenLimit /\ Len(alerts) <= Len(seen')
  BY <1>2, <1>4, <1>5, AnnouncedAreRemembered
<1> QED BY <1>3, <1>6 DEF SeenOK

LEMMA SeenStep ==
  ASSUME ChainOK, ReadsOK, SeenOK, [DeskNext]_deskVars
  PROVE  SeenOK'
<1>1. CASE UNCHANGED <<roundsAt, positionsAt, band, seen>>
  <2>1. \A r : PaidAt(positionsAt, r)' = PaidAt(positionsAt, r) /\ ClaimableAt(positionsAt, r)' = ClaimableAt(positionsAt, r)
    <3>1. positionsAt \in Moments
      BY DEF ReadsOK, Moments
    <3>2. \A n \in Moments : \A r : /\ ResultAt(n, r)' = ResultAt(n, r)
                                    /\ PaidAt(n, r)' = PaidAt(n, r)
                                    /\ ClaimableAt(n, r)' = ClaimableAt(n, r)
      BY ChainStep, GrowthKeepsReads
    <3>3. PICK n \in Moments : n = positionsAt /\ n = positionsAt'
      BY <3>1, <1>1
    <3> SUFFICES ASSUME NEW r
                 PROVE  /\ PaidAt(positionsAt, r)' = PaidAt(positionsAt, r)
                        /\ ClaimableAt(positionsAt, r)' = ClaimableAt(positionsAt, r)
      OBVIOUS
    <3>4. PaidAt(positionsAt, r)' = PaidAt(n, r)'
      BY <3>3 DEF PaidAt
    <3>5. ResultAt(positionsAt, r)' = ResultAt(n, r)'
      BY <3>3 DEF ResultAt
    <3>6. ClaimableAt(positionsAt, r)' = ClaimableAt(n, r)'
      BY <3>4, <3>5 DEF ClaimableAt
    <3> QED BY <3>2, <3>3, <3>4, <3>6
  <2>2. Claimables' = Claimables
    BY <1>1, <2>1 DEF Claimables
  <2>3. Alerts' = Alerts
    BY <1>1, <2>2 DEF Alerts, HealthAlert, ClaimAlert
  <2> QED BY <1>1, <2>3 DEF SeenOK
<1>2. CASE RoundsPoll \/ PositionsPoll
  BY <1>2, AnnouncedStep DEF RoundsPoll, PositionsPoll, SeenOK
<1>3. ASSUME NEW to \in Bands, BandMoves(to) PROVE SeenOK'
  BY <1>3, AnnouncedStep DEF BandMoves
<1>4. \/ RoundsPoll \/ PositionsPoll \/ \E to \in Bands : BandMoves(to)
      \/ UNCHANGED <<roundsAt, positionsAt, band, seen>>
  BY DEF DeskNext, deskVars, RunStarts, Simulates, Prompted, ReceiptAnswers, ListingFetched, ClaimsConfirmed,
         SomebodyClaims, RowClaims, CardClaims, PaidByOther, Settles, RunIsMined
<1> QED BY <1>1, <1>2, <1>3, <1>4

-----------------------------------------------------------------------------
\* The claim run, step by step.

\* A step that answers for one claim at most, and sends, mines or drops no other.
SameClaims ==
  /\ run'.items \in Seq(Items) /\ Len(run'.items) = Len(run.items)
  /\ \A i \in DOMAIN run.items :
       run'.items[i].round = run.items[i].round /\ run'.items[i].amount = run.items[i].amount

LEMMA ItemsTyped ==
  ASSUME RunOK
  PROVE  /\ run.items \in Seq(Items) /\ DOMAIN run.items = 1..Len(run.items) /\ Len(run.items) \in Nat
         /\ \A i \in DOMAIN run.items : run.items[i] \in Items
         /\ run.at \in Nat /\ run.at <= Len(run.items)
         /\ (Running <=> run.step # "idle") /\ (Running <=> run.at > 0)
         /\ Running => run.at \in DOMAIN run.items /\ run.items[run.at].state = "pending"
         /\ run.step \in {"idle", "simulate", "prompt", "receipt"}
<1>1. run \in [at : Nat, step : {"idle", "simulate", "prompt", "receipt"}, items : Seq(Items)]
  BY DEF RunOK
<1>2. /\ run.items \in Seq(Items) /\ DOMAIN run.items = 1..Len(run.items) /\ Len(run.items) \in Nat
      /\ \A i \in DOMAIN run.items : run.items[i] \in Items
  BY <1>1
<1>3. Running => run.at \in DOMAIN run.items /\ run.items[run.at].state = "pending"
  <2>1. Running => run.at \in DOMAIN run.items
    BY <1>1, <1>2 DEF RunOK, Running
  <2> QED BY <2>1, <1>1 DEF RunOK, StatesFollowTheRun
<1> QED BY <1>1, <1>2, <1>3 DEF RunOK, Running

LEMMA ClaimsKeep ==
  ASSUME ChainOK, ChainOK', Grows \/ log' = log, RunOK, SameClaims
  PROVE  ItemsHold' /\ ItemsDescend'
<1>1. DOMAIN run'.items = DOMAIN run.items
  BY ItemsTyped DEF SameClaims
<1>2. ASSUME NEW i \in DOMAIN run.items
      PROVE  /\ ResultAt(Now, run.items[i].round)' # "open"
             /\ run'.items[i].amount = Payout(run.items[i].round, ResultAt(Now, run.items[i].round))'
  <2>1. PICK r : r = run.items[i].round
    OBVIOUS
  <2>2. run'.items[i].round = r /\ run'.items[i].amount = run.items[i].amount
    BY <2>1 DEF SameClaims
  <2>3. ResultAt(Now, r) # "open" /\ run.items[i].amount = Payout(r, ResultAt(Now, r))
    BY <2>1 DEF RunOK, ItemsHold
  <2>4. ResultAt(Now, r)' = ResultAt(Now, r)
    BY <2>3, GrowthKeepsSettled
  <2>5. ResultAt(Now, run.items[i].round)' = ResultAt(Now, r)'
    BY <2>2 DEF ResultAt, Tells
  <2>6. Payout(run.items[i].round, ResultAt(Now, run.items[i].round))' = Payout(r, ResultAt(Now, r))
    BY <2>2, <2>4, <2>5 DEF Payout, TotalStake, TotalPool, Pool
  <2> QED BY <2>2, <2>3, <2>4, <2>5, <2>6
<1>3. ItemsHold'
  BY <1>1, <1>2 DEF ItemsHold
<1>4. ItemsDescend'
  BY <1>1 DEF ItemsDescend, RunOK, SameClaims
<1> QED BY <1>3, <1>4

LEMMA SettleStep ==
  ASSUME ChainOK, log' = log, RunOK, Running, NEW state \in Answered, Settle(state),
         state = "claimed" => run.items[run.at].tx = "mined",
         state = "skipped" => run.items[run.at].tx = "none"
  PROVE  RunOK'
<1> DEFINE at == run.at
           n == Len(run.items)
           items == [run.items EXCEPT ![run.at].state = state]
<1>1. /\ run.items \in Seq(Items) /\ DOMAIN run.items = 1..n /\ n \in Nat
      /\ at \in 1..n /\ run.items[at].state = "pending"
      /\ \A i \in 1..n : run.items[i] \in Items
  BY ItemsTyped
<1>2. /\ \A i \in 1..n : items[i] = IF i = at THEN [run.items[i] EXCEPT !.state = state] ELSE run.items[i]
      /\ DOMAIN items = 1..n /\ items \in Seq(Items) /\ Len(items) = n
  <2>1. \A i \in 1..n : items[i] = IF i = at THEN [run.items[i] EXCEPT !.state = state] ELSE run.items[i]
    BY <1>1
  <2>2. \A i \in 1..n : [run.items[i] EXCEPT !.state = state] \in Items
    BY <1>1 DEF Items, Answered
  <2>3. items \in [1..n -> Items]
    BY <1>1, <2>1, <2>2
  <2> QED BY <1>1, <2>1, <2>3
<1>3. \A i \in 1..n : /\ items[i].round = run.items[i].round /\ items[i].amount = run.items[i].amount
                      /\ items[i].tx = run.items[i].tx
                      /\ items[i].state = IF i = at THEN state ELSE run.items[i].state
  BY <1>1, <1>2 DEF Items
<1>4. /\ run'.items = items
      /\ run'.at = IF at + 1 > n THEN 0 ELSE at + 1
      /\ run'.step = IF at + 1 > n THEN "idle" ELSE "simulate"
      /\ run' \in [at : Nat, step : {"idle", "simulate", "prompt", "receipt"}, items : Seq(Items)]
  BY <1>1, <1>2 DEF Settle
<1> HIDE DEF items
<1>5. SameClaims
  BY <1>1, <1>2, <1>3, <1>4 DEF SameClaims
<1>6. ItemsHold' /\ ItemsDescend'
  BY <1>5, ClaimsKeep DEF ChainOK
<1>7. /\ \A i \in 1..n : i < at => run.items[i].state \in Answered
      /\ \A i \in 1..n : i >= at => run.items[i].state = "pending"
  BY <1>1 DEF RunOK, StatesFollowTheRun
<1>8. Running' <=> at + 1 <= n
  BY <1>1, <1>4 DEF Running
<1>9. StatesFollowTheRun'
  <2>1. \A i \in 1..n : i <= at => items[i].state \in Answered
    BY <1>1, <1>3, <1>7
  <2>2. \A i \in 1..n : i > at => items[i].state = "pending"
    BY <1>1, <1>3, <1>7
  <2>3. \A i \in 1..n : items[i].state # "cancelled"
    BY <1>1, <2>1, <2>2 DEF Answered
  <2>4. Running' => run'.at = at + 1
    BY <1>1, <1>4, <1>8
  <2>5. ~Running' => at = n
    BY <1>1, <1>8
  <2>6. \A i \in 1..n : ~Running' => items[i].state # "pending"
    BY <1>1, <2>1, <2>5 DEF Answered
  <2> QED BY <1>1, <1>2, <1>4, <2>1, <2>2, <2>3, <2>4, <2>6 DEF StatesFollowTheRun
<1>10. SentAsReported'
  <2> SUFFICES ASSUME NEW i \in 1..n
               PROVE  /\ items[i].state = "claimed" => items[i].tx = "mined"
                      /\ items[i].state \in {"skipped", "cancelled"} => items[i].tx = "none"
                      /\ items[i].state = "pending" => items[i].tx = "none"
    BY <1>2, <1>4 DEF SentAsReported
  <2>1. CASE i = at
    BY <2>1, <1>3 DEF Answered
  <2>2. CASE i # at
    BY <2>2, <1>1, <1>3 DEF RunOK, SentAsReported
  <2> QED BY <2>1, <2>2
<1> QED BY <1>1, <1>2, <1>4, <1>6, <1>8, <1>9, <1>10 DEF RunOK

\* The wallet's answer, a claim that passed its simulation, and a claim mined: one
\* claim's state or its transaction changes, and the run stays at it or ends.
LEMMA DismissedStep ==
  ASSUME ChainOK, log' = log, RunOK, Dismissed
  PROVE  RunOK'
<1> DEFINE at == run.at
           n == Len(run.items)
           items == [run.items EXCEPT ![run.at].state = "cancelled"]
<1>1. /\ run.items \in Seq(Items) /\ DOMAIN run.items = 1..n /\ n \in Nat
      /\ at \in 1..n /\ run.items[at].state = "pending" /\ Running /\ run.step = "prompt"
      /\ \A i \in 1..n : run.items[i] \in Items
  BY ItemsTyped DEF Dismissed
<1>2. /\ \A i \in 1..n : items[i] = IF i = at THEN [run.items[i] EXCEPT !.state = "cancelled"] ELSE run.items[i]
      /\ DOMAIN items = 1..n /\ items \in Seq(Items) /\ Len(items) = n
  <2>1. \A i \in 1..n : items[i] = IF i = at THEN [run.items[i] EXCEPT !.state = "cancelled"] ELSE run.items[i]
    BY <1>1
  <2>2. \A i \in 1..n : [run.items[i] EXCEPT !.state = "cancelled"] \in Items
    BY <1>1 DEF Items
  <2>3. items \in [1..n -> Items]
    BY <1>1, <2>1, <2>2
  <2> QED BY <1>1, <2>1, <2>3
<1>3. \A i \in 1..n : /\ items[i].round = run.items[i].round /\ items[i].amount = run.items[i].amount
                      /\ items[i].tx = run.items[i].tx
                      /\ items[i].state = IF i = at THEN "cancelled" ELSE run.items[i].state
  BY <1>1, <1>2 DEF Items
<1>4. /\ run'.items = items /\ run'.at = 0 /\ run'.step = "idle" /\ ~Running'
      /\ run' \in [at : Nat, step : {"idle", "simulate", "prompt", "receipt"}, items : Seq(Items)]
  BY <1>1, <1>2 DEF Dismissed, Running
<1> HIDE DEF items
<1>5. SameClaims
  BY <1>1, <1>2, <1>3, <1>4 DEF SameClaims
<1>6. ItemsHold' /\ ItemsDescend'
  BY <1>5, ClaimsKeep DEF ChainOK
<1>7. /\ \A i \in 1..n : i < at => items[i].state \in Answered
      /\ \A i \in 1..n : i > at => items[i].state = "pending"
      /\ items[at].state = "cancelled"
  BY <1>1, <1>3 DEF RunOK, StatesFollowTheRun
<1>8. StatesFollowTheRun'
  <2>1. \A i \in 1..n : items[i].state = "cancelled" => i = at
    BY <1>1, <1>7 DEF Answered
  <2>2. \A i \in 1..n : items[i].state = "pending" => i > at
    BY <1>1, <1>7 DEF Answered
  <2> QED BY <1>1, <1>2, <1>4, <1>7, <2>1, <2>2 DEF StatesFollowTheRun
<1>9. SentAsReported'
  <2> SUFFICES ASSUME NEW i \in 1..n
               PROVE  /\ items[i].state = "claimed" => items[i].tx = "mined"
                      /\ items[i].state \in {"skipped", "cancelled"} => items[i].tx = "none"
                      /\ items[i].state = "pending" => items[i].tx = "none"
    BY <1>2, <1>4 DEF SentAsReported
  <2>1. /\ run.items[i].state = "claimed" => run.items[i].tx = "mined"
        /\ run.items[i].state \in {"skipped", "cancelled", "pending"} => run.items[i].tx = "none"
    BY <1>1 DEF RunOK, SentAsReported
  <2> QED BY <2>1, <1>1, <1>3
<1> QED BY <1>1, <1>2, <1>4, <1>6, <1>8, <1>9 DEF RunOK

LEMMA SentStep ==
  ASSUME ChainOK, log' = log, RunOK, Running,
         \/ run.step = "prompt" /\ run' = [run EXCEPT !.step = "receipt", !.items[run.at].tx = "chain"]
         \/ run.step = "simulate" /\ run' = [run EXCEPT !.step = "prompt"]
  PROVE  RunOK'
<1> DEFINE at == run.at
           n == Len(run.items)
<1>1. /\ run.items \in Seq(Items) /\ DOMAIN run.items = 1..n /\ n \in Nat
      /\ at \in 1..n /\ run.items[at].state = "pending"
      /\ \A i \in 1..n : run.items[i] \in Items
  BY ItemsTyped
<1>2. run \in [at : Nat, step : {"idle", "simulate", "prompt", "receipt"}, items : Seq(Items)]
  BY DEF RunOK
<1>3. /\ run' \in [at : Nat, step : {"idle", "simulate", "prompt", "receipt"}, items : Seq(Items)]
      /\ Len(run'.items) = n /\ DOMAIN run'.items = 1..n
      /\ run'.at = at /\ run'.step \in {"prompt", "receipt"} /\ Running'
      /\ \A i \in 1..n : /\ run'.items[i].round = run.items[i].round /\ run'.items[i].amount = run.items[i].amount
                         /\ run'.items[i].state = run.items[i].state
                         /\ i # at => run'.items[i].tx = run.items[i].tx
                         /\ run'.step = "prompt" => run'.items[i].tx = run.items[i].tx
  <2>1. CASE run.step = "simulate" /\ run' = [run EXCEPT !.step = "prompt"]
    BY <2>1, <1>1, <1>2 DEF Running
  <2>2. CASE run.step = "prompt" /\ run' = [run EXCEPT !.step = "receipt", !.items[run.at].tx = "chain"]
    <3> DEFINE items == [run.items EXCEPT ![run.at].tx = "chain"]
    <3>1. \A i \in 1..n : items[i] = IF i = at THEN [run.items[i] EXCEPT !.tx = "chain"] ELSE run.items[i]
      BY <1>1
    <3>2. \A i \in 1..n : [run.items[i] EXCEPT !.tx = "chain"] \in Items
      BY <1>1 DEF Items
    <3>3. items \in [1..n -> Items]
      BY <1>1, <3>1, <3>2
    <3>4. items \in Seq(Items) /\ Len(items) = n /\ DOMAIN items = 1..n
      BY <1>1, <3>3
    <3>5. run'.items = items /\ run'.at = at /\ run'.step = "receipt" /\ DOMAIN run' = DOMAIN run
      BY <2>2, <1>2
    <3>6. run' \in [at : Nat, step : {"idle", "simulate", "prompt", "receipt"}, items : Seq(Items)]
      BY <2>2, <1>2, <3>4
    <3>7. \A i \in 1..n : /\ items[i].round = run.items[i].round /\ items[i].amount = run.items[i].amount
                          /\ items[i].state = run.items[i].state
                          /\ i # at => items[i].tx = run.items[i].tx
      BY <1>1, <3>1 DEF Items
    <3> HIDE DEF items
    <3> QED BY <1>1, <3>4, <3>5, <3>6, <3>7 DEF Running
  <2> QED BY <2>1, <2>2
<1>4. SameClaims
  BY <1>1, <1>3 DEF SameClaims
<1>5. ItemsHold' /\ ItemsDescend'
  BY <1>4, ClaimsKeep DEF ChainOK
<1>6. StatesFollowTheRun'
  BY <1>1, <1>3 DEF StatesFollowTheRun, RunOK
<1>7. SentAsReported'
  <2> SUFFICES ASSUME NEW i \in 1..n
               PROVE  /\ run'.items[i].state = "claimed" => run'.items[i].tx = "mined"
                      /\ run'.items[i].state \in {"skipped", "cancelled"} => run'.items[i].tx = "none"
                      /\ run'.items[i].state = "pending" => \/ run'.items[i].tx = "none"
                                                            \/ i = at /\ run'.step = "receipt"
    BY <1>3 DEF SentAsReported
  <2>1. /\ run.items[i].state = "claimed" => run.items[i].tx = "mined"
        /\ run.items[i].state \in {"skipped", "cancelled", "pending"} => run.items[i].tx = "none"
    BY <1>1 DEF RunOK, SentAsReported
  <2> QED BY <2>1, <1>1, <1>3
<1> QED BY <1>1, <1>3, <1>5, <1>6, <1>7 DEF RunOK

LEMMA StatesKeep ==
  ASSUME StatesFollowTheRun, run'.at = run.at, Running' <=> Running, DOMAIN run'.items = DOMAIN run.items,
         \A i \in DOMAIN run.items : run'.items[i].state = run.items[i].state
  PROVE  StatesFollowTheRun'
  BY DEF StatesFollowTheRun

LEMMA MinedStep ==
  ASSUME ChainOK, ChainOK', Grows \/ log' = log, RunOK, NEW i \in DOMAIN run.items,
         run.items[i].tx = "chain", NEW tx \in {"mined", "reverted"}, run' = [run EXCEPT !.items[i].tx = tx]
  PROVE  RunOK'
<1> DEFINE n == Len(run.items)
           items == [run.items EXCEPT ![i].tx = tx]
<1>1. /\ run.items \in Seq(Items) /\ DOMAIN run.items = 1..n /\ n \in Nat /\ i \in 1..n
      /\ \A j \in 1..n : run.items[j] \in Items
  BY ItemsTyped
<1>2. run \in [at : Nat, step : {"idle", "simulate", "prompt", "receipt"}, items : Seq(Items)]
  BY DEF RunOK
<1>3. /\ \A j \in 1..n : items[j] = IF j = i THEN [run.items[j] EXCEPT !.tx = tx] ELSE run.items[j]
      /\ DOMAIN items = 1..n /\ items \in Seq(Items) /\ Len(items) = n
  <2>1. \A j \in 1..n : items[j] = IF j = i THEN [run.items[j] EXCEPT !.tx = tx] ELSE run.items[j]
    BY <1>1
  <2>2. \A j \in 1..n : [run.items[j] EXCEPT !.tx = tx] \in Items
    BY <1>1 DEF Items
  <2>3. items \in [1..n -> Items]
    BY <1>1, <2>1, <2>2
  <2> QED BY <1>1, <2>1, <2>3
<1>4. \A j \in 1..n : /\ items[j].round = run.items[j].round /\ items[j].amount = run.items[j].amount
                      /\ items[j].state = run.items[j].state
                      /\ j # i => items[j].tx = run.items[j].tx
  BY <1>1, <1>3 DEF Items
<1>5. run'.items = items /\ run'.at = run.at /\ run'.step = run.step /\ (Running' <=> Running)
  BY <1>2 DEF Running
<1>6. run' \in [at : Nat, step : {"idle", "simulate", "prompt", "receipt"}, items : Seq(Items)]
  BY <1>2, <1>3
<1> HIDE DEF items
<1>7. SameClaims
  BY <1>1, <1>3, <1>4, <1>5 DEF SameClaims
<1>8. ItemsHold' /\ ItemsDescend'
  BY <1>7, ClaimsKeep
<1>9. StatesFollowTheRun'
  <2>1. StatesFollowTheRun
    BY DEF RunOK
  <2>2. DOMAIN run'.items = 1..n /\ \A j \in 1..n : run'.items[j].state = run.items[j].state
    BY <1>3, <1>4, <1>5
  <2> QED BY <2>1, <2>2, <1>1, <1>5, StatesKeep
<1>10. SentAsReported'
  <2> SUFFICES ASSUME NEW j \in 1..n
               PROVE  /\ items[j].state = "claimed" => items[j].tx = "mined"
                      /\ items[j].state \in {"skipped", "cancelled"} => items[j].tx = "none"
                      /\ items[j].state = "pending" => items[j].tx = "none" \/ (j = run.at /\ run.step = "receipt")
    BY <1>3, <1>5 DEF SentAsReported
  <2>1. /\ run.items[j].state = "claimed" => run.items[j].tx = "mined"
        /\ run.items[j].state \in {"skipped", "cancelled"} => run.items[j].tx = "none"
        /\ run.items[j].state = "pending" => run.items[j].tx = "none" \/ (j = run.at /\ run.step = "receipt")
    BY <1>1 DEF RunOK, SentAsReported
  <2> QED BY <2>1, <1>4
<1> QED BY <1>1, <1>3, <1>5, <1>6, <1>8, <1>9, <1>10 DEF RunOK

LEMMA RunStartsStep ==
  ASSUME ChainOK, ReadsOK, log' = log, RunOK, RunStarts
  PROVE  RunOK'
<1> DEFINE n == Cardinality(Claimables)
           queue == OrderClaims(Claimables)
           items == [i \in DOMAIN queue |-> [round |-> queue[i].round, amount |-> queue[i].amount,
                                              state |-> "pending", tx |-> "none"]]
<1>1. /\ n \in Nat /\ n > 0 /\ queue \in [1..n -> Claimables]
      /\ \A i, j \in 1..n : i < j => queue[i].amount >= queue[j].amount
  BY QueueDescends DEF RunStarts
<1>2. run' = [at |-> 1, step |-> "simulate", items |-> items]
  BY DEF RunStarts
<1>3. \A i \in 1..n : /\ queue[i].round \in Rounds /\ queue[i].amount \in Nat
                      /\ ResultAt(Now, queue[i].round) # "open"
                      /\ queue[i].amount = Payout(queue[i].round, ResultAt(Now, queue[i].round))
  BY <1>1, ClaimablesAreAmounts
<1> HIDE DEF n, queue
<1>4. items \in [1..n -> Items]
  BY <1>1, <1>3 DEF Items
<1>5. items \in Seq(Items) /\ DOMAIN items = 1..n /\ Len(items) = n
  BY <1>1, <1>4
<1>6. \A i \in 1..n : /\ items[i].round = queue[i].round /\ items[i].amount = queue[i].amount
                      /\ items[i].state = "pending" /\ items[i].tx = "none"
  BY <1>1
<1> HIDE DEF items
<1>7. /\ run' \in [at : Nat, step : {"idle", "simulate", "prompt", "receipt"}, items : Seq(Items)]
      /\ run'.at = 1 /\ run'.step = "simulate" /\ run'.items = items /\ Running'
  BY <1>2, <1>5 DEF Running
<1>8. ItemsHold'
  <2> SUFFICES ASSUME NEW i \in 1..n
               PROVE  /\ ResultAt(Now, run.items[i].round)' # "open"
                      /\ run'.items[i].amount = Payout(run.items[i].round, ResultAt(Now, run.items[i].round))'
    BY <1>5, <1>7 DEF ItemsHold
  <2>1. PICK r : r = queue[i].round
    OBVIOUS
  <2>2. run'.items[i].round = r /\ run'.items[i].amount = Payout(r, ResultAt(Now, r)) /\ ResultAt(Now, r) # "open"
    BY <2>1, <1>3, <1>6, <1>7
  <2>3. ResultAt(Now, run.items[i].round)' = ResultAt(Now, r)
    BY <2>2 DEF ResultAt, Tells, Now
  <2>4. Payout(run.items[i].round, ResultAt(Now, run.items[i].round))' = Payout(r, ResultAt(Now, r))
    BY <2>2, <2>3 DEF Payout, TotalStake, TotalPool, Pool
  <2> QED BY <2>2, <2>3, <2>4
<1>9. ItemsDescend'
  BY <1>1, <1>5, <1>6, <1>7 DEF ItemsDescend
<1>10. StatesFollowTheRun'
  BY <1>5, <1>6, <1>7 DEF StatesFollowTheRun
<1>11. SentAsReported'
  BY <1>5, <1>6, <1>7 DEF SentAsReported
<1> QED BY <1>1, <1>5, <1>7, <1>8, <1>9, <1>10, <1>11 DEF RunOK

\* What a chain that grows elsewhere leaves of the run.
LEMMA RunKept ==
  ASSUME ChainOK, ChainOK', Grows \/ log' = log, RunOK, run' = run
  PROVE  RunOK'
<1>1. SameClaims
  BY DEF SameClaims, RunOK
<1>2. ItemsHold' /\ ItemsDescend'
  BY <1>1, ClaimsKeep
<1>3. StatesFollowTheRun' /\ SentAsReported'
  BY DEF RunOK, StatesFollowTheRun, SentAsReported, Running
<1> QED BY <1>2, <1>3 DEF RunOK, Running

LEMMA RunStep ==
  ASSUME ChainOK, ReadsOK, RunOK, [DeskNext]_deskVars
  PROVE  RunOK'
<1>1. ChainOK' /\ (Grows \/ log' = log)
  BY ChainStep
<1>2. CASE RunStarts
  <2>1. log' = log
    BY <1>2 DEF RunStarts
  <2> QED BY <1>2, <2>1, RunStartsStep
<1>3. CASE Simulates
  <2>1. log' = log /\ run.step = "simulate" /\ Running
    BY <1>3, ItemsTyped DEF Simulates
  <2>2. run.items[run.at].tx = "none"
    BY <2>1, ItemsTyped DEF RunOK, SentAsReported
  <2>3. run' = [run EXCEPT !.step = "prompt"] \/ Settle("skipped")
    BY <1>3 DEF Simulates
  <2>4. CASE run' = [run EXCEPT !.step = "prompt"]
    BY <2>1, <2>4, SentStep
  <2>5. CASE Settle("skipped")
    <3>1. "skipped" \in Answered
      BY DEF Answered
    <3> QED BY <2>1, <2>2, <2>5, <3>1, SettleStep
  <2> QED BY <2>3, <2>4, <2>5
<1>4. CASE Prompted
  <2>1. log' = log /\ run.step = "prompt" /\ Running
    BY <1>4, ItemsTyped DEF Prompted
  <2>2. \/ run' = [run EXCEPT !.step = "receipt", !.items[run.at].tx = "chain"]
        \/ Dismissed
        \/ Settle("failed")
    BY <1>4 DEF Prompted
  <2>3. CASE run' = [run EXCEPT !.step = "receipt", !.items[run.at].tx = "chain"]
    BY <2>1, <2>3, SentStep
  <2>4. CASE Dismissed
    BY <2>1, <2>4, DismissedStep
  <2>5. CASE Settle("failed")
    <3>1. "failed" \in Answered
      BY DEF Answered
    <3> QED BY <2>1, <2>5, <3>1, SettleStep
  <2> QED BY <2>2, <2>3, <2>4, <2>5
<1>5. CASE ReceiptAnswers
  <2>1. log' = log /\ run.step = "receipt" /\ Running
    BY <1>5, ItemsTyped DEF ReceiptAnswers, ReceiptRead
  <2>2. \/ run.items[run.at].tx = "mined" /\ Settle("claimed")
        \/ Settle("failed")
    BY <1>5 DEF ReceiptAnswers, ReceiptRead
  <2>3. "claimed" \in Answered /\ "failed" \in Answered
    BY DEF Answered
  <2>4. CASE run.items[run.at].tx = "mined" /\ Settle("claimed")
    BY <2>1, <2>3, <2>4, SettleStep
  <2>5. CASE Settle("failed")
    BY <2>1, <2>3, <2>5, SettleStep
  <2> QED BY <2>2, <2>4, <2>5
<1>6. ASSUME NEW i \in DOMAIN run.items, RunIsMined(i) PROVE RunOK'
  <2>1. run.items[i].tx = "chain"
    BY <1>6 DEF RunIsMined
  <2>2. PICK tx \in {"mined", "reverted"} : run' = [run EXCEPT !.items[i].tx = tx]
    BY <1>6 DEF RunIsMined
  <2> QED BY <1>1, <2>1, <2>2, MinedStep
<1>7. CASE run' = run
  BY <1>1, <1>7, RunKept
<1>8. \/ RunStarts \/ Simulates \/ Prompted \/ ReceiptAnswers
      \/ \E i \in DOMAIN run.items : RunIsMined(i)
      \/ run' = run
  BY DEF DeskNext, deskVars, ListingFetched, RoundsPoll, PositionsPoll, ClaimsConfirmed, BandMoves,
         SomebodyClaims, RowClaims, CardClaims, PaidByOther, Settles
<1> QED BY <1>2, <1>3, <1>4, <1>5, <1>6, <1>7, <1>8

(***************************************************************************)
(* The invariant: the chain settles a round once and pays it once after    *)
(* that, every read is of a moment of it, the run's claims are what the    *)
(* chain pays, in descending order, with states that follow its position,  *)
(* and the ids remembered are no fewer than the alerts that stand.         *)
(***************************************************************************)
THEOREM DeskInvariance == DeskSpec => []DeskInv
<1>1. DeskInv /\ [DeskNext]_deskVars => DeskInv'
  <2> SUFFICES ASSUME DeskInv, [DeskNext]_deskVars PROVE DeskInv'
    OBVIOUS
  <2>1. ChainOK /\ ReadsOK /\ RunOK /\ SeenOK
    BY DEF DeskInv
  <2>2. ChainOK'
    BY <2>1, ChainStep
  <2>3. ReadsOK'
    BY <2>1, ReadsStep
  <2>4. RunOK'
    BY <2>1, RunStep
  <2>5. SeenOK'
    BY <2>1, SeenStep
  <2> QED BY <2>2, <2>3, <2>4, <2>5 DEF DeskInv
<1> QED BY <1>1, InitDesk, PTL DEF DeskSpec

-----------------------------------------------------------------------------
(***************************************************************************)
(* Reads stay moments of the chain, and the bell never counts more alerts  *)
(* than the browser remembers (usePositions, useAlerts).                   *)
(***************************************************************************)
THEOREM DeskTypeCorrect == DeskSpec => []DeskTypeOK
<1>1. DeskInv => DeskTypeOK
  <2> SUFFICES ASSUME DeskInv PROVE DeskTypeOK
    OBVIOUS
  <2>1. run.at \in 0..Len(run.items) /\ (Running <=> run.step \in {"simulate", "prompt", "receipt"})
    BY ItemsTyped DEF DeskInv
  <2>2. BellShows.count <= Len(seen)
    BY DEF DeskInv, SeenOK, BellShows
  <2> QED BY <2>1, <2>2 DEF DeskTypeOK, DeskInv, ReadsOK, SeenOK
<1> QED BY <1>1, DeskInvariance, PTL

\* A settled row, whenever it was listed.
LEMMA SettledRow ==
  ASSUME ChainOK, ReadsOK, NEW r \in History
  PROVE  LET p == Position(listing, r)
             result == ResultAt(Now, r) IN
         /\ r \in Rounds /\ CanSettle(r, result) /\ result \in {"up", "down", "void"}
         /\ p.winner = result /\ p.upStake = Mine[r].up /\ p.downStake = Mine[r].down
         /\ p.status = IF result = "void" THEN "void" ELSE "resolved"
         /\ Returned(p) = Payout(r, result) /\ Payout(r, result) \in Nat
         /\ NetOf(p) = Payout(r, result) - TotalStake(r)
         /\ Returned([p EXCEPT !.winner = "absent"]) = Payout(r, result)
         /\ [p EXCEPT !.winner = "absent"].status = p.status
         /\ [p EXCEPT !.winner = "absent"].winner = "absent"
<1> DEFINE p == Position(listing, r)
           result == ResultAt(listing, r)
<1>1. listing \in Moments /\ result # "open"
  BY DEF ReadsOK, Moments, History
<1>2. /\ ResultAt(Now, r) = result /\ r \in Rounds
      /\ result \in {"up", "down", "void"} /\ CanSettle(r, result)
  BY <1>1, SettledIsKnown
<1>3. Payout(r, result) \in Nat
  BY <1>2, PayoutIsAmount
<1>4. /\ p.winner = result /\ p.upStake = Mine[r].up /\ p.downStake = Mine[r].down
      /\ p.status = (IF result = "void" THEN "void" ELSE "resolved")
      /\ p.claimed = PaidAt(listing, r) /\ p.claimable = ClaimableAt(listing, r)
      /\ p.claimedAmount = (IF PaidAt(listing, r) THEN Payout(r, result) ELSE 0)
  <2> HIDE DEF result
  <2> QED BY <1>2 DEF Position, result
<1>5. ClaimableAt(listing, r) = IF PaidAt(listing, r) THEN 0 ELSE Payout(r, result)
  BY <1>1 DEF ClaimableAt
<1>6. Returned(p) = Payout(r, result)
  BY <1>4, <1>5 DEF Returned
<1>7. NetOf(p) = Payout(r, result) - TotalStake(r)
  BY <1>4, <1>6 DEF NetOf, TotalStake
<1>8. /\ [p EXCEPT !.winner = "absent"].status = p.status
      /\ [p EXCEPT !.winner = "absent"].winner = "absent"
      /\ [p EXCEPT !.winner = "absent"].claimed = p.claimed
      /\ [p EXCEPT !.winner = "absent"].claimable = p.claimable
      /\ [p EXCEPT !.winner = "absent"].claimedAmount = p.claimedAmount
  BY DEF Position
<1>9. Returned([p EXCEPT !.winner = "absent"]) = Returned(p)
  <2> HIDE DEF p
  <2> QED BY <1>8 DEF Returned
<1> HIDE DEF p, result
<1> QED BY <1>2, <1>3, <1>4, <1>6, <1>7, <1>8, <1>9 DEF p, result

LEMMA RowsTellTheMoney ==
  ASSUME ChainOK, ReadsOK, NEW r \in History
  PROVE  LET p == Position(listing, r)
             pays == Payout(r, ResultAt(Now, r))
             row == TableRows.settled[r] IN
         /\ row.outcome = "lost" => pays = 0
         /\ row.outcome = "void" => pays = TotalStake(r) /\ row.net = {0}
         /\ row.outcome = "won" => row.side \in {p.winner, "both"}
         /\ (row.outcome = "won" => pays > 0) => OutcomeOf([p EXCEPT !.winner = "absent"]) = row.outcome
<1> DEFINE p == Position(listing, r)
           absent == [p EXCEPT !.winner = "absent"]
           result == ResultAt(Now, r)
           pays == Payout(r, result)
           outcome == OutcomeOf(p)
<1>1. /\ r \in Rounds /\ CanSettle(r, result) /\ result \in {"up", "down", "void"}
      /\ p.winner = result /\ p.upStake = Mine[r].up /\ p.downStake = Mine[r].down
      /\ p.status = (IF result = "void" THEN "void" ELSE "resolved")
      /\ Returned(p) = pays /\ pays \in Nat
      /\ NetOf(p) = pays - TotalStake(r)
      /\ Returned(absent) = pays /\ absent.status = p.status /\ absent.winner = "absent"
  BY SettledRow
<1>2. /\ TotalStake(r) \in Nat /\ Mine[r].up \in Nat /\ Mine[r].down \in Nat
  BY <1>1, StakesAreAmounts DEF TotalStake
<1>3. /\ result = "void" => pays = TotalStake(r)
      /\ result # "void" /\ Mine[r][result] = 0 => pays = 0
  BY <1>1, PayoutIsAmount
<1>4. TableRows.settled[r] = RowShows(r)
  BY DEF TableRows
<1>5. /\ RowShows(r).outcome = outcome /\ RowShows(r).side = SideTaken(p)
      /\ outcome # "open" => RowShows(r).net = {NetOf(p)}
  BY DEF RowShows
<1> HIDE DEF p, absent, result, pays
<1>6. CASE result = "void"
  <2>1. outcome = "void" /\ OutcomeOf(absent) = "void"
    BY <1>1, <1>6 DEF OutcomeOf
  <2>2. NetOf(p) = 0 /\ pays = TotalStake(r)
    BY <1>1, <1>2, <1>3, <1>6
  <2> QED BY <2>1, <2>2, <1>4, <1>5 DEF p, absent, result, pays
<1>7. CASE result \in {"up", "down"}
  <2>1. p.status = "resolved" /\ result # "void"
    BY <1>1, <1>7
  <2>2. outcome = IF Mine[r][result] > 0 THEN "won" ELSE "lost"
    BY <2>1, <1>1, <1>7 DEF OutcomeOf
  <2>3. OutcomeOf(absent) = IF pays > 0 THEN "won" ELSE "lost"
    BY <2>1, <1>1 DEF OutcomeOf
  <2>4. outcome = "lost" => pays = 0
    BY <2>1, <2>2, <1>2, <1>3, <1>7
  <2>5. outcome = "won" => SideTaken(p) \in {p.winner, "both"}
    <3>1. CASE result = "up"
      BY <3>1, <2>2, <1>1, <1>2 DEF SideTaken
    <3>2. CASE result = "down"
      BY <3>2, <2>2, <1>1, <1>2 DEF SideTaken
    <3> QED BY <3>1, <3>2, <1>7
  <2>6. (outcome = "won" => pays > 0) => OutcomeOf(absent) = outcome
    BY <2>2, <2>3, <2>4, <1>1
  <2>7. outcome # "void"
    BY <2>2
  <2> QED BY <2>4, <2>5, <2>6, <2>7, <1>4, <1>5 DEF p, absent, result, pays
<1> QED BY <1>1, <1>6, <1>7

LEMMA DetailTellsTheMoney ==
  ASSUME ChainOK, ReadsOK, NEW r \in Rounds
  PROVE  LET shown == Detail(r)
             pays == Payout(r, ResultAt(Now, r)) IN
         /\ shown.outcome = "voided" => pays = TotalStake(r)
         /\ shown.outcome = "yes" /\ Mine[r].up = 0 => pays = 0
         /\ shown.outcome = "no" /\ Mine[r].down = 0 => pays = 0
         /\ \A rake \in shown.rakeTaken : pays <= shown.yes + shown.no - rake
<1> DEFINE p == Position(listing, r)
           result == ResultAt(listing, r)
           pays == Payout(r, ResultAt(Now, r))
<1>1. p.status = (IF result \in {"up", "down"} THEN "resolved" ELSE result) /\ p.winner = result
  BY DEF Position
<1>2. /\ Detail(r).outcome = Outcome(p)
      /\ Detail(r).yes = Pool(r, "up") /\ Detail(r).no = Pool(r, "down")
      /\ Detail(r).rakeTaken = IF p.status = "resolved" THEN {Rake} ELSE {}
  BY DEF Detail, Pool
<1>3. listing \in Moments
  BY DEF ReadsOK, Moments
<1>a. Detail(r).yes + Detail(r).no - Rake = TotalPool(r) - Rake
  <2>1. Pool(r, "up") \in Nat /\ Pool(r, "down") \in Nat /\ Rake \in Nat /\ TotalPool(r) = Pool(r, "up") + Pool(r, "down")
    BY PoolsAreAmounts
  <2> QED BY <1>2, <2>1
<1>4. CASE result = "open"
  <2>1. p.status = "open"
    BY <1>1, <1>4
  <2>2. Outcome(p) = "running"
    BY <2>1 DEF Outcome
  <2> QED BY <2>1, <2>2, <1>2
<1>5. CASE result # "open"
  <2>1. /\ ResultAt(Now, r) = result /\ r \in Rounds
        /\ result \in {"up", "down", "void"} /\ CanSettle(r, result)
    BY <1>3, <1>5, SettledIsKnown
  <2>2. /\ pays \in Nat
        /\ result = "void" => pays = TotalStake(r)
        /\ result # "void" /\ Mine[r][result] = 0 => pays = 0
        /\ result # "void" => pays <= TotalPool(r) - Rake
    BY <2>1, PayoutIsAmount
  <2>3. TotalPool(r) = Pool(r, "up") + Pool(r, "down")
    BY DEF TotalPool
  <2> HIDE DEF result, pays, p
  <2>4. CASE result = "void"
    <3>1. p.status = "void"
      BY <1>1, <2>4
    <3>2. Outcome(p) = "voided"
      BY <3>1 DEF Outcome
    <3> QED BY <3>1, <3>2, <2>2, <2>4, <1>2 DEF pays
  <2>5. CASE result = "up"
    <3>1. p.status = "resolved" /\ Outcome(p) = "yes"
      BY <1>1, <2>5 DEF Outcome
    <3>2. Detail(r).rakeTaken = {Rake} /\ pays <= TotalPool(r) - Rake /\ Detail(r).outcome = "yes"
      BY <3>1, <1>2, <2>2, <2>5
    <3>3. \A rake \in Detail(r).rakeTaken : pays <= Detail(r).yes + Detail(r).no - rake
      BY <3>2, <1>a
    <3>4. Mine[r].up = 0 => pays = 0
      BY <2>2, <2>5
    <3> QED BY <3>2, <3>3, <3>4 DEF pays
  <2>6. CASE result = "down"
    <3>1. p.status = "resolved" /\ Outcome(p) = "no"
      BY <1>1, <2>6 DEF Outcome
    <3>2. Detail(r).rakeTaken = {Rake} /\ pays <= TotalPool(r) - Rake /\ Detail(r).outcome = "no"
      BY <3>1, <1>2, <2>2, <2>6
    <3>3. \A rake \in Detail(r).rakeTaken : pays <= Detail(r).yes + Detail(r).no - rake
      BY <3>2, <1>a
    <3>4. Mine[r].down = 0 => pays = 0
      BY <2>2, <2>6
    <3> QED BY <3>2, <3>3, <3>4 DEF pays
  <2> QED BY <2>1, <2>4, <2>5, <2>6
<1> QED BY <1>4, <1>5

(***************************************************************************)
(* However far behind the listing is, and whether or not a round has been  *)
(* collected, the record's net and the outcomes agree with what the round  *)
(* pays (netOf, outcomeOf, Record).                                        *)
(***************************************************************************)
THEOREM ListingIsTrue == DeskSpec => []ListingTellsTheMoney
<1>1. DeskInv => ListingTellsTheMoney
  <2> SUFFICES ASSUME DeskInv PROVE ListingTellsTheMoney
    OBVIOUS
  <2>1. ChainOK /\ ReadsOK
    BY DEF DeskInv
  <2>2. Record.net = SumFunction([r \in History |-> Payout(r, ResultAt(Now, r))]) - Record.staked
    <3> DEFINE net == [r \in History |-> NetOf(Position(listing, r))]
               staked == [r \in History |-> TotalStake(r)]
               paid == [r \in History |-> Payout(r, ResultAt(Now, r))]
    <3>1. \A r \in History : /\ Payout(r, ResultAt(Now, r)) \in Nat /\ TotalStake(r) \in Nat
                             /\ NetOf(Position(listing, r)) = Payout(r, ResultAt(Now, r)) - TotalStake(r)
      <4> SUFFICES ASSUME NEW r \in History
                   PROVE  /\ Payout(r, ResultAt(Now, r)) \in Nat /\ TotalStake(r) \in Nat
                          /\ NetOf(Position(listing, r)) = Payout(r, ResultAt(Now, r)) - TotalStake(r)
        OBVIOUS
      <4>1. r \in Rounds
        BY DEF History, Listed
      <4> QED BY <4>1, <2>1, SettledRow, PoolsAreAmounts
    <3>2. IsFiniteSet(History)
      <4>1. History \subseteq Rounds
        BY DEF History, Listed
      <4> QED BY <4>1, RoundsAreListed, FS_Subset
    <3>3. IntOn(net, History) /\ IntOn(staked, History) /\ \A r \in History : paid[r] = net[r] + staked[r]
      BY <3>1 DEF IntOn
    <3>4. /\ Record.net = SumFunctionOnSet(net, History) /\ Record.staked = SumFunctionOnSet(staked, History)
          /\ SumFunction(paid) = SumFunctionOnSet(paid, History)
      BY DEF Record, SumFunction
    <3> HIDE DEF net, staked, paid
    <3>5. SumFunctionOnSet(paid, History) = SumFunctionOnSet(net, History) + SumFunctionOnSet(staked, History)
      BY <3>2, <3>3, SumPlus
    <3>6. SumFunctionOnSet(net, History) \in Int /\ SumFunctionOnSet(staked, History) \in Int
      BY <3>2, <3>3, SumIsInt
    <3>7. Record.net = SumFunction(paid) - Record.staked
      BY <3>4, <3>5, <3>6
    <3> QED BY <3>7 DEF paid
  <2> QED BY <2>1, <2>2, RowsTellTheMoney, DetailTellsTheMoney DEF ListingTellsTheMoney
<1> QED BY <1>1, DeskInvariance, PTL

-----------------------------------------------------------------------------
(***************************************************************************)
(* Every amount beside a Claim button, in the rows, the panel or the bell, *)
(* is what that round pays, and what is said to be at risk is no less than *)
(* what is (useClaimConfirmation, useClaimables, PipelineStrip).           *)
(***************************************************************************)
THEOREM AmountsHold == DeskSpec => []ShownAmountsHold
<1>1. DeskInv => ShownAmountsHold
  <2> SUFFICES ASSUME DeskInv PROVE ShownAmountsHold
    OBVIOUS
  <2>1. ChainOK /\ ReadsOK
    BY DEF DeskInv
  <2>2. ASSUME NEW r \in OfferedRows
        PROVE  ResultAt(Now, r) # "open" /\ Confirmed[r] = Payout(r, ResultAt(Now, r))
    <3> DEFINE answered == IF Answers.at = NotRead THEN {} ELSE DOMAIN Pending \cap DOMAIN Answers.asked
               place == CHOOSE i \in answered : Pending[i] = r
    <3>1. r \in DOMAIN Confirmed /\ Confirmed[r] > 0
      BY DEF OfferedRows
    <3>2. DOMAIN Confirmed = {Pending[i] : i \in answered}
      BY DEF Confirmed
    <3>3. Confirmed[r] = ClaimableAt(Answers.at, Answers.asked[place])
      BY <3>1, <3>2 DEF Confirmed
    <3>4. \E i \in answered : Pending[i] = r
      BY <3>1, <3>2
    <3>5. place \in answered /\ Pending[place] = r
      BY <3>4
    <3>6. Answers.at # NotRead
      BY <3>4
    <3> HIDE DEF answered, place
    <3>7. Answers = claimReads /\ claimReads.asked = Pending
      BY <3>6 DEF Answers
    <3>8. Confirmed[r] = ClaimableAt(claimReads.at, r) /\ claimReads.at \in Moments
      BY <2>1, <3>3, <3>5, <3>7 DEF ReadsOK, Moments
    <3>9. ClaimableAt(claimReads.at, r) # 0
      BY <3>1, <3>8
    <3>10. /\ r \in Rounds /\ ResultAt(Now, r) # "open"
           /\ ResultAt(claimReads.at, r) = ResultAt(Now, r) /\ ~PaidAt(claimReads.at, r)
           /\ ClaimableAt(claimReads.at, r) = Payout(r, ResultAt(Now, r))
           /\ ClaimableAt(claimReads.at, r) \in Nat
      BY <2>1, <3>8, <3>9, ClaimableIsThePayout
    <3> QED BY <3>8, <3>10
  <2>3. \A c \in Claimables : ResultAt(Now, c.round) # "open" /\ c.amount = Payout(c.round, ResultAt(Now, c.round))
    BY <2>1, ClaimablesAreAmounts
  <2>4. ASSUME {roundsAt, positionsAt} \subseteq Nat
        PROVE  AtRisk >= SumFunction([r \in {q \in Recent : ResultAt(Now, q) = "open"} |-> TotalStake(r)])
    <3> DEFINE risked == Recent \ SettledCards
               open == {q \in Recent : ResultAt(Now, q) = "open"}
               all == [r \in risked |-> TotalStake(r)]
               part == [r \in open |-> TotalStake(r)]
    <3>1. roundsAt # NotRead /\ positionsAt # NotRead /\ roundsAt \in Moments
      BY <2>1, <2>4 DEF NotRead, ReadsOK, Moments
    <3>2. open \subseteq risked
      <4> SUFFICES ASSUME NEW r \in open, r \in SettledCards PROVE FALSE
        OBVIOUS
      <4>1. ResultAt(roundsAt, r) # "open" /\ ResultAt(Now, r) = "open"
        BY DEF SettledCards
      <4> QED BY <4>1, <2>1, <3>1, SettledIsKnown
    <3>3. IsFiniteSet(risked)
      <4>1. risked \subseteq Rounds
        BY DEF Recent
      <4> QED BY <4>1, RoundsAreListed, FS_Subset
    <3>4. \A r \in risked : TotalStake(r) \in Nat
      BY PoolsAreAmounts DEF Recent
    <3>5. AtRisk = SumFunctionOnSet(all, risked) /\ SumFunction(part) = SumFunctionOnSet(part, open)
      BY <3>1 DEF AtRisk, SumFunction
    <3>6. \A r \in risked : all[r] \in Nat
      BY <3>4
    <3>7. \A r \in open : part[r] = all[r]
      BY <3>2
    <3>8. IsFiniteSet(open) /\ open \in SUBSET risked
      BY <3>2, <3>3, FS_Subset
    <3> HIDE DEF risked, open, all, part
    <3>9. SumFunctionOnSet(part, open) = SumFunctionOnSet(all, open)
      BY <3>7, <3>8, SumSame
    <3>10. SumFunctionOnSet(all, open) <= SumFunctionOnSet(all, risked)
      BY <3>3, <3>6, <3>8, SubsetWithinSum
    <3>11. SumFunctionOnSet(all, open) \in Nat /\ SumFunctionOnSet(all, risked) \in Nat
      BY <3>3, <3>6, <3>8, SumIsNat
    <3>12. AtRisk >= SumFunction(part)
      BY <3>5, <3>9, <3>10, <3>11
    <3> QED BY <3>12 DEF part, open
  <2> QED BY <2>2, <2>3, <2>4 DEF ShownAmountsHold
<1> QED BY <1>1, DeskInvariance, PTL

(***************************************************************************)
(* What a claim run says it collected is what its own transactions were    *)
(* paid; what it skipped, was not signed or still waits was never sent;    *)
(* and only a dismissed prompt leaves claims waiting (useClaimAll).        *)
(***************************************************************************)
THEOREM RunReports == DeskSpec => []RunReportIsTrue
<1>1. DeskInv => RunReportIsTrue
  <2> SUFFICES ASSUME DeskInv PROVE RunReportIsTrue
    OBVIOUS
  <2> DEFINE paidByRun == {i \in DOMAIN run.items : run.items[i].tx = "mined" /\ run.items[i].state # "failed"
                                                    /\ (run.at = 0 \/ i < run.at)}
             said == {i \in DOMAIN run.items : run.items[i].state = "claimed"}
             shown == [i \in said |-> run.items[i].amount]
             due == [i \in paidByRun |-> Payout(run.items[i].round, ResultAt(Now, run.items[i].round))]
  <2>1. RunOK
    BY DEF DeskInv
  <2>2. /\ DOMAIN run.items = 1..Len(run.items) /\ Len(run.items) \in Nat /\ run.at \in Nat
        /\ \A i \in DOMAIN run.items : run.items[i] \in Items
        /\ Running <=> run.at > 0
        /\ Running <=> run.step # "idle"
    BY <2>1, ItemsTyped
  <2>3. StatesFollowTheRun /\ SentAsReported /\ ItemsHold
    BY <2>1 DEF RunOK
  <2>4. paidByRun = said
    <3>1. ASSUME NEW i \in said PROVE i \in paidByRun
      <4>1. run.items[i].tx = "mined"
        BY <2>3 DEF SentAsReported
      <4>2. run.at = 0 \/ i < run.at
        BY <2>2, <2>3 DEF StatesFollowTheRun
      <4> QED BY <4>1, <4>2
    <3>2. ASSUME NEW i \in paidByRun PROVE i \in said
      <4>1. run.items[i].state \in {"pending", "skipped", "cancelled", "failed", "claimed"}
        BY <2>2 DEF Items
      <4>2. run.items[i].state \notin {"skipped", "cancelled", "failed"}
        BY <2>3 DEF SentAsReported
      <4>3. run.items[i].state # "pending"
        <5>1. i # run.at
          BY <2>2
        <5> QED BY <2>3, <5>1 DEF SentAsReported
      <4> QED BY <4>1, <4>2, <4>3
    <3> QED BY <3>1, <3>2
  <2>5. Collected = SumFunction(due)
    <3>1. \A i \in said : shown[i] = due[i]
      BY <2>3, <2>4 DEF ItemsHold
    <3>2. Collected = SumFunctionOnSet(shown, said) /\ SumFunction(due) = SumFunctionOnSet(due, said)
      BY <2>4 DEF Collected, SumFunction
    <3>3. IsFiniteSet(said)
      <4>1. said \subseteq 1..Len(run.items) /\ IsFiniteSet(1..Len(run.items))
        BY <2>2, FS_Interval
      <4> HIDE DEF said
      <4> QED BY <4>1, FS_Subset
    <3> HIDE DEF said, shown, due
    <3> QED BY <3>1, <3>2, <3>3, SumSame
  <2>6. PanelReport.collected = SumFunction(due)
    BY <2>5 DEF PanelReport
  <2>7. ~Running => PanelReport.cancelled <= 1 /\ (PanelReport.left > 0 => PanelReport.cancelled = 1)
    <3> DEFINE dismissed == {i \in DOMAIN run.items : run.items[i].state = "cancelled"}
               waiting == {i \in DOMAIN run.items : run.items[i].state = "pending"}
    <3> SUFFICES ASSUME ~Running
                 PROVE  Cardinality(dismissed) <= 1 /\ (Cardinality(waiting) > 0 => Cardinality(dismissed) = 1)
      BY DEF PanelReport, Count
    <3>1. \A i, j \in dismissed : i = j
      <4> SUFFICES ASSUME NEW i \in dismissed, NEW j \in dismissed, i < j PROVE FALSE
        BY <2>2
      <4>1. run.items[j].state = "pending"
        BY <2>3 DEF StatesFollowTheRun
      <4> QED BY <4>1
    <3>2. waiting # {} => dismissed # {}
      BY <2>3 DEF StatesFollowTheRun
    <3>3. CASE dismissed = {}
      <4>1. waiting = {}
        BY <3>2, <3>3
      <4> HIDE DEF waiting, dismissed
      <4>2. Cardinality(dismissed) = 0 /\ Cardinality(waiting) = 0
        BY <3>3, <4>1, FS_EmptySet
      <4> QED BY <4>2
    <3>4. CASE dismissed # {}
      <4>1. PICK i : dismissed = {i}
        BY <3>1, <3>4
      <4> HIDE DEF waiting, dismissed
      <4>2. Cardinality(dismissed) = 1
        BY <4>1, FS_Singleton
      <4> QED BY <4>2
    <3> QED BY <3>3, <3>4
  <2>8. ASSUME NEW i \in DOMAIN run.items
        PROVE  /\ run.items[i].state \in {"skipped", "cancelled"} => run.items[i].tx = "none"
               /\ run.items[i].state = "pending" /\ (run.at = 0 \/ i > run.at) => run.items[i].tx = "none"
    <3>1. run.at = 0 \/ i > run.at => i # run.at
      BY <2>2
    <3> QED BY <2>3, <3>1 DEF SentAsReported
  <2> QED BY <2>6, <2>7, <2>8 DEF RunReportIsTrue
<1> QED BY <1>1, DeskInvariance, PTL

(***************************************************************************)
(* However a run ends, what it answered for is worth at least any claim    *)
(* left waiting, and nothing past a dismissed prompt was touched           *)
(* (orderClaims).                                                          *)
(***************************************************************************)
THEOREM BiggestIsFirst == DeskSpec => []BiggestFirst
<1>1. DeskInv => BiggestFirst
  <2> SUFFICES ASSUME DeskInv, NEW i \in DOMAIN run.items, NEW j \in DOMAIN run.items,
                      run.items[j].state = "pending", run.items[i].state # "pending"
               PROVE  /\ Payout(run.items[i].round, ResultAt(Now, run.items[i].round))
                           >= Payout(run.items[j].round, ResultAt(Now, run.items[j].round))
                      /\ run.items[i].state = "cancelled" => ~Running
    BY DEF BiggestFirst
  <2>1. RunOK
    BY DEF DeskInv
  <2>2. /\ DOMAIN run.items = 1..Len(run.items) /\ Len(run.items) \in Nat /\ run.at \in Nat
        /\ Running <=> run.at > 0
    BY <2>1, ItemsTyped
  <2>3. StatesFollowTheRun /\ ItemsHold /\ ItemsDescend
    BY <2>1 DEF RunOK
  <2>4. run.items[i].state = "cancelled" => ~Running
    BY <2>2, <2>3 DEF StatesFollowTheRun, Answered
  <2>5. i < j
    <3>1. CASE Running
      <4>1. ~(i >= run.at) /\ ~(j < run.at)
        BY <3>1, <2>3 DEF StatesFollowTheRun, Answered
      <4> QED BY <4>1, <2>2
    <3>2. CASE ~Running
      <4>1. PICK k \in DOMAIN run.items : k < j /\ run.items[k].state = "cancelled"
        BY <3>2, <2>3 DEF StatesFollowTheRun
      <4>2. ~(i > k)
        BY <4>1, <2>3 DEF StatesFollowTheRun
      <4> QED BY <4>1, <4>2, <2>2
    <3> QED BY <3>1, <3>2
  <2>6. run.items[i].amount >= run.items[j].amount
    BY <2>3, <2>5 DEF ItemsDescend
  <2> QED BY <2>3, <2>4, <2>6 DEF ItemsHold
<1> QED BY <1>1, DeskInvariance, PTL
=============================================================================
