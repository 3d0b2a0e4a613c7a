------------------------ MODULE PositionTicketProofs ------------------------
(* The ticket, for any number of forms, sends and stops and any amounts: a retry
   never inherits the verdict of an earlier wait, what forms and toasts say of a
   send is true, and a permission that stands is for a position not yet taken.
   The first two need of a step only what it does to Transaction's variables,
   TxStep; the last needs the calls of a job in their order, to the chain. *)
EXTENDS PositionTicket, TLAPS

Calls == {"approve", "delegate", "open"}
Waits == {"signing", "pending"}
Statuses == {"idle", "signing", "pending", "confirmed", "cancelled", "failed"}
JobRecord == [form : Forms, own : Nat, borrow : Nat, rest : Seq(Calls)]
SendRecord ==
  [form : Forms, job : Nat, call : Calls, mine : Nat,
   at : {"wallet", "chain", "refused", "mined", "reverted"},
   awaits : {"signature", "receipt", "nothing"},
   toast : {"none", "loading", "success", "error"}, ok : BOOLEAN]

-----------------------------------------------------------------------------
(* What a step of the ticket does to the forms and their sends. *)

\* A block decides a send; nobody has heard yet.
Executes(s) ==
  /\ sends[s].at = "chain"
  /\ \E end \in {"mined", "reverted"} : sends' = [sends EXCEPT ![s].at = end]
  /\ UNCHANGED <<state, live, attempt, stalled, stops>>

SendStep == \E f \in Forms, call \in Calls, job \in DOMAIN jobs' : Send(f, job, call)
SettleStep ==
  \E s \in DOMAIN sends :
    \/ Signed(s)
    \/ \E dismissed \in BOOLEAN : Refused(s, dismissed)
    \/ Receipt(s)
    \/ Unread(s)
    \/ Executes(s)
FormStep == \E f \in Forms : Abandon(f) \/ Stalls(f)

TxStep == SendStep \/ SettleStep \/ FormStep \/ UNCHANGED txVars

-----------------------------------------------------------------------------
(* Type correctness, as far as the proofs below need it. *)
TxTypeOK ==
  /\ state \in [Forms -> [status : Statuses, send : Nat]]
  /\ live \in [Forms -> Nat]
  /\ attempt \in [Forms -> Nat]
  /\ stalled \in [Forms -> [Waits -> Nat]]
  /\ sends \in Seq(SendRecord)
  /\ jobs \in Seq(JobRecord)
  /\ \A s \in DOMAIN sends : sends[s].job \in DOMAIN jobs

\* One element of a sequence changed.
LEMMA SeqReplace ==
  ASSUME NEW S, NEW q \in Seq(S), NEW i \in DOMAIN q, NEW e \in S
  PROVE  /\ [q EXCEPT ![i] = e] \in Seq(S)
         /\ DOMAIN [q EXCEPT ![i] = e] = DOMAIN q
         /\ Len([q EXCEPT ![i] = e]) = Len(q)
OBVIOUS

\* The calls of a submit, whatever the form read: at least one, the position last.
LEMMA PlanIsCalls ==
  ASSUME NEW own, NEW borrow
  PROVE  /\ Plan(own, borrow) \in Seq(Calls)
         /\ Plan(own, borrow) # <<>>
<1> DEFINE first == IF own > 0 /\ seen.token < own THEN <<"approve">> ELSE <<>>
           second == IF borrow > 0 /\ seen.lend < borrow THEN <<"delegate">> ELSE <<>>
<1>1. first \in Seq(Calls) /\ second \in Seq(Calls) /\ <<"open">> \in Seq(Calls)
  <2>1. /\ <<"approve">> \in Seq(Calls) /\ <<"delegate">> \in Seq(Calls)
        /\ <<"open">> \in Seq(Calls) /\ <<>> \in Seq(Calls)
    BY DEF Calls
  <2> QED BY <2>1, Zenon
<1>2. Len(<<"open">>) = 1
  OBVIOUS
<1> HIDE DEF first, second
<1>3. first \o second \in Seq(Calls) /\ Len(first \o second) \in Nat
  BY <1>1
<1>4. /\ (first \o second) \o <<"open">> \in Seq(Calls)
      /\ Len((first \o second) \o <<"open">>) = Len(first \o second) + 1
  BY <1>1, <1>2, <1>3
<1>5. (first \o second) \o <<"open">> # <<>>
  BY <1>3, <1>4
<1>6. Plan(own, borrow) = (first \o second) \o <<"open">>
  BY DEF Plan, first, second
<1> QED BY <1>4, <1>5, <1>6

JobsGrow == jobs' \in Seq(JobRecord) /\ DOMAIN jobs \subseteq DOMAIN jobs'

LEMMA JobsOnlyGrow ==
  ASSUME TxTypeOK, [TicketNext]_ticketVars
  PROVE  JobsGrow
<1> USE DEF JobsGrow
<1>1. ASSUME NEW f \in Forms, NEW i \in Inputs, submit(f, i.own, i.borrow)
      PROVE  JobsGrow
  <2>1. i.own \in Nat /\ i.borrow \in Nat
    BY InputsAreAmounts
  <2>2. Tail(Plan(i.own, i.borrow)) \in Seq(Calls)
    BY PlanIsCalls
  <2>3. [form |-> f, own |-> i.own, borrow |-> i.borrow, rest |-> Tail(Plan(i.own, i.borrow))] \in JobRecord
    BY <2>1, <2>2 DEF JobRecord
  <2> QED BY <1>1, <2>3 DEF submit, TxTypeOK
<1>2. ASSUME NEW s \in DOMAIN sends, NextCall(s)
      PROVE  JobsGrow
  <2> DEFINE j == sends[s].job
  <2>1. jobs' = [jobs EXCEPT ![j].rest = Tail(@)] /\ jobs[j].rest # <<>>
    BY <1>2 DEF NextCall
  <2>2. j \in DOMAIN jobs
    BY DEF TxTypeOK
  <2>3. jobs[j] \in JobRecord
    BY <2>2 DEF TxTypeOK
  <2>4. Tail(jobs[j].rest) \in Seq(Calls)
    BY <2>1, <2>3 DEF JobRecord
  <2> DEFINE e == [jobs[j] EXCEPT !.rest = Tail(@)]
  <2>5. e \in JobRecord
    BY <2>3, <2>4 DEF JobRecord
  <2>6. jobs' = [jobs EXCEPT ![j] = e]
    BY <2>1
  <2> HIDE DEF e
  <2> QED BY <2>2, <2>5, <2>6, SeqReplace DEF TxTypeOK
<1>3. CASE Take BY <1>3 DEF Take, TxTypeOK
<1>4. CASE CloseTicket BY <1>4 DEF CloseTicket, TxTypeOK
<1>5. CASE Rereads BY <1>5 DEF Rereads, TxTypeOK
<1>6. ASSUME NEW f \in Forms, GivesUp(f) \/ TimerFires(f)
      PROVE  JobsGrow
  BY <1>6 DEF GivesUp, TimerFires, TxTypeOK
<1>7. ASSUME NEW s \in DOMAIN sends,
             \/ \E entry \in BOOLEAN : Mines(s, entry)
             \/ WalletAnswers(s) \/ ReceiptArrives(s) \/ ReceiptUnread(s)
      PROVE  JobsGrow
  BY <1>7 DEF Mines, WalletAnswers, ReceiptArrives, ReceiptUnread, TxTypeOK
<1>8. CASE UNCHANGED ticketVars BY <1>8 DEF ticketVars, TxTypeOK
<1> QED BY <1>1, <1>2, <1>3, <1>4, <1>5, <1>6, <1>7, <1>8 DEF TicketNext

(* Every step of the ticket is a step of its forms and sends. *)
LEMMA TicketStepsAreTxSteps ==
  ASSUME TxTypeOK, [TicketNext]_ticketVars
  PROVE  TxStep
<1>1. ASSUME NEW f \in Forms, NEW i \in Inputs, submit(f, i.own, i.borrow)
      PROVE  SendStep
  <2> DEFINE plan == Plan(i.own, i.borrow)
  <2>1. Head(plan) \in Calls
    BY PlanIsCalls
  <2>2. Len(jobs) + 1 \in DOMAIN jobs'
    BY <1>1 DEF submit, TxTypeOK
  <2>3. Send(f, Len(jobs) + 1, Head(plan))
    BY <1>1 DEF submit
  <2> QED BY <2>1, <2>2, <2>3 DEF SendStep
<1>2. ASSUME NEW s \in DOMAIN sends, NextCall(s)
      PROVE  SendStep
  <2> DEFINE j == sends[s].job
  <2>1. sends[s] \in SendRecord
    BY DEF TxTypeOK
  <2>2. sends[s].form \in Forms /\ j \in DOMAIN jobs /\ j \in DOMAIN jobs'
    BY <2>1, JobsOnlyGrow DEF SendRecord, TxTypeOK, JobsGrow
  <2>3. Send(sends[s].form, j, Head(jobs[j].rest))
    BY <1>2 DEF NextCall
  <2>4. Head(jobs[j].rest) \in Calls
    <3>1. jobs[j].rest \in Seq(Calls) /\ jobs[j].rest # <<>>
      <4>1. jobs[j] \in JobRecord
        BY <2>2 DEF TxTypeOK
      <4> QED BY <1>2, <4>1 DEF NextCall, JobRecord
    <3> QED BY <3>1
  <2> QED BY <2>2, <2>3, <2>4 DEF SendStep
<1>3. ASSUME NEW s \in DOMAIN sends, WalletAnswers(s) \/ ReceiptArrives(s) \/ ReceiptUnread(s)
      PROVE  SettleStep
  BY <1>3 DEF WalletAnswers, ReceiptArrives, ReceiptUnread, SettleStep
<1>4. ASSUME NEW s \in DOMAIN sends, NEW entry \in BOOLEAN, Mines(s, entry)
      PROVE  SettleStep
  <2>1. Executes(s)
    BY <1>4 DEF Mines, Executes
  <2> QED BY <2>1 DEF SettleStep
<1>5. ASSUME NEW f \in Forms, GivesUp(f) \/ TimerFires(f)
      PROVE  FormStep
  BY <1>5 DEF GivesUp, TimerFires, stopWaiting, FormStep
<1>6. CASE Take \/ CloseTicket \/ Rereads \/ UNCHANGED ticketVars
  BY <1>6 DEF Take, CloseTicket, Rereads, ticketVars, TxStep
<1> QED BY <1>1, <1>2, <1>3, <1>4, <1>5, <1>6 DEF TicketNext, TxStep

-----------------------------------------------------------------------------
(* The inductive invariant. *)

\* A timer's verdict is on an attempt the form has begun.
VerdictsArePast == \A f \in Forms, w \in Waits : stalled[f][w] <= attempt[f]

\* Of two sends of a form the later has the larger number, and live is at least that.
SendsAreNumbered ==
  /\ \A s \in DOMAIN sends : sends[s].mine <= live[sends[s].form]
  /\ \A r, s \in DOMAIN sends : sends[r].form = sends[s].form /\ r < s => sends[r].mine < sends[s].mine

\* The send a form is about is its own, and the one it listens to.
FormsListen ==
  \A f \in Forms : state[f].send # 0 =>
    /\ state[f].send \in DOMAIN sends
    /\ sends[state[f].send].form = f
    /\ sends[state[f].send].mine = live[f]

\* How far a send is, by where it stands, what is awaited and what was said.
StagesAgree ==
  \A s \in DOMAIN sends :
    /\ sends[s].at = "wallet" => sends[s].awaits = "signature" /\ sends[s].toast = "none"
    /\ sends[s].awaits = "signature" => sends[s].at = "wallet"
    /\ sends[s].toast = "success" => sends[s].at = "mined" /\ sends[s].awaits = "nothing"

StatusTold(status, x) ==
  /\ status = "signing" => x.at = "wallet"
  /\ status = "pending" => x.awaits = "receipt"
  /\ status = "cancelled" => x.at = "refused"
  /\ status = "confirmed" => x.at = "mined"
  /\ status = "failed" => x.toast = "error" /\ x.awaits = "nothing"

FormsTell ==
  \A f \in Forms :
    /\ state[f].status = "idle" <=> state[f].send = 0
    /\ state[f].send # 0 => StatusTold(state[f].status, sends[state[f].send])

IInv == TxTypeOK /\ VerdictsArePast /\ SendsAreNumbered /\ FormsListen /\ StagesAgree /\ FormsTell

LEMMA InitIInv == TicketInit => IInv
<1> SUFFICES ASSUME TicketInit PROVE IInv
  OBVIOUS
<1> USE DEF TicketInit, TxInit
<1>1. sends = <<>> /\ jobs = <<>> /\ DOMAIN sends = {}
  OBVIOUS
<1>2. TxTypeOK
  BY <1>1 DEF TxTypeOK, Statuses, Waits
<1>3. VerdictsArePast /\ SendsAreNumbered /\ FormsListen /\ StagesAgree /\ FormsTell
  BY <1>1 DEF VerdictsArePast, SendsAreNumbered, FormsListen, StagesAgree, FormsTell, Waits
<1> QED BY <1>2, <1>3 DEF IInv

\* A new send: the latest of its form, and the one the form is about.
LEMMA SendKeepsIInv ==
  ASSUME IInv, JobsGrow, NEW f \in Forms, NEW call \in Calls, NEW job \in DOMAIN jobs', Send(f, job, call)
  PROVE  IInv'
<1> DEFINE new == [form |-> f, job |-> job, call |-> call, mine |-> live[f] + 1, at |-> "wallet",
                   awaits |-> "signature", toast |-> "none", ok |-> FALSE]
           n == Len(sends) + 1
<1> USE DEF IInv
<1>1. new \in SendRecord
  BY DEF SendRecord, TxTypeOK, JobsGrow
<1>2. sends' = Append(sends, new)
  BY DEF Send
<1>3. /\ new.form = f /\ new.mine = live[f] + 1 /\ new.job = job
      /\ new.at = "wallet" /\ new.awaits = "signature" /\ new.toast = "none"
  OBVIOUS
<1> HIDE DEF new
<1>4. /\ sends' \in Seq(SendRecord)
      /\ n \in Nat \ {0} /\ n \notin DOMAIN sends
      /\ DOMAIN sends' = DOMAIN sends \cup {n} /\ DOMAIN sends \subseteq 1..(n - 1)
      /\ \A r \in DOMAIN sends : sends'[r] = sends[r] /\ sends[r] \in SendRecord
      /\ sends'[n] = new
  BY <1>1, <1>2 DEF TxTypeOK
<1>5. /\ live' = [live EXCEPT ![f] = @ + 1]
      /\ attempt' = [attempt EXCEPT ![f] = @ + 1]
      /\ state' = [state EXCEPT ![f] = [status |-> "signing", send |-> n]]
      /\ stalled' = stalled
  BY DEF Send, Shows
<1> HIDE DEF n
<1>6. TxTypeOK'
  <2>1. \A r \in DOMAIN sends' : sends'[r].job \in DOMAIN jobs'
    BY <1>3, <1>4 DEF TxTypeOK, JobsGrow
  <2> QED BY <1>4, <1>5, <2>1 DEF TxTypeOK, Statuses, JobsGrow
<1>7. VerdictsArePast'
  BY <1>5 DEF VerdictsArePast, TxTypeOK
<1>8. SendsAreNumbered'
  <2>1. \A r \in DOMAIN sends : sends[r].mine \in Nat /\ sends[r].form \in Forms /\ r < n
    BY <1>4 DEF SendRecord
  <2>2. \A g \in Forms : live[g] \in Nat /\ live'[g] = IF g = f THEN live[f] + 1 ELSE live[g]
    BY <1>5 DEF TxTypeOK
  <2>3. ASSUME NEW r \in DOMAIN sends' PROVE sends'[r].mine <= live'[sends'[r].form]
    BY <1>3, <1>4, <2>1, <2>2 DEF SendsAreNumbered
  <2>4. ASSUME NEW r \in DOMAIN sends', NEW t \in DOMAIN sends', sends'[r].form = sends'[t].form, r < t
        PROVE  sends'[r].mine < sends'[t].mine
    <3>1. CASE t = n
      <4>1. r \in DOMAIN sends
        BY <1>4, <2>4, <3>1
      <4> QED BY <1>3, <1>4, <2>1, <2>2, <2>4, <3>1, <4>1 DEF SendsAreNumbered
    <3>2. CASE t # n
      <4>1. t \in DOMAIN sends /\ r # n
        BY <1>4, <2>1, <2>4, <3>2
      <4> QED BY <1>4, <2>4, <4>1 DEF SendsAreNumbered
    <3> QED BY <3>1, <3>2
  <2> QED BY <2>3, <2>4 DEF SendsAreNumbered
<1>9. FormsListen'
  BY <1>3, <1>4, <1>5 DEF FormsListen, TxTypeOK, SendRecord
<1>10. StagesAgree'
  BY <1>3, <1>4, <1>5 DEF StagesAgree
<1>11. FormsTell'
  <2> SUFFICES ASSUME NEW g \in Forms
               PROVE  /\ state'[g].status = "idle" <=> state'[g].send = 0
                      /\ state'[g].send # 0 => StatusTold(state'[g].status, sends'[state'[g].send])
    BY DEF FormsTell, StatusTold
  <2>1. CASE g = f
    BY <1>3, <1>4, <1>5, <2>1 DEF StatusTold, TxTypeOK
  <2>2. CASE g # f
    BY <1>4, <1>5, <2>2 DEF FormsTell, FormsListen, TxTypeOK
  <2> QED BY <2>1, <2>2
<1> QED BY <1>6, <1>7, <1>8, <1>9, <1>10, <1>11

\* What a settling step is: one send changes, its form with it if it still listens.
Settles(s, x) ==
  /\ s \in DOMAIN sends
  /\ x \in SendRecord /\ x.form = sends[s].form /\ x.mine = sends[s].mine /\ x.job = sends[s].job
  /\ sends' = [sends EXCEPT ![s] = x]
  /\ UNCHANGED <<live, attempt, stalled>>

LEMMA SettlingKeepsOrder ==
  ASSUME IInv, JobsGrow, NEW s, NEW x, Settles(s, x),
         \/ state' = state
         \/ IsLive(s) /\ \E status \in Statuses : state' = Shows(x.form, status, s)
  PROVE  TxTypeOK' /\ VerdictsArePast' /\ SendsAreNumbered' /\ FormsListen'
<1> USE DEF IInv
<1>1. /\ sends' \in Seq(SendRecord)
      /\ DOMAIN sends' = DOMAIN sends
      /\ sends'[s] = x
      /\ \A r \in DOMAIN sends : r # s => sends'[r] = sends[r]
      /\ s \in Nat \ {0}
  BY SeqReplace DEF Settles, TxTypeOK
<1>2. \A r \in DOMAIN sends :
        sends'[r].form = sends[r].form /\ sends'[r].mine = sends[r].mine /\ sends'[r].job = sends[r].job
  BY <1>1 DEF Settles
<1>3. x.form \in Forms
  BY DEF Settles, SendRecord
<1>4. TxTypeOK'
  <2>1. state' \in [Forms -> [status : Statuses, send : Nat]]
    <3>1. CASE state' = state
      BY <3>1 DEF TxTypeOK
    <3>2. ASSUME NEW status \in Statuses, state' = Shows(x.form, status, s)
          PROVE  state' \in [Forms -> [status : Statuses, send : Nat]]
      <4>1. [status |-> status, send |-> s] \in [status : Statuses, send : Nat]
        BY <1>1
      <4> QED BY <3>2, <4>1 DEF TxTypeOK, Shows
    <3> QED BY <3>1, <3>2
  <2>2. \A r \in DOMAIN sends' : sends'[r].job \in DOMAIN jobs'
    BY <1>1, <1>2 DEF TxTypeOK, JobsGrow
  <2> QED BY <1>1, <2>1, <2>2 DEF TxTypeOK, Settles, JobsGrow
<1>5. VerdictsArePast'
  BY DEF VerdictsArePast, Settles
<1>6. SendsAreNumbered'
  BY <1>1, <1>2 DEF SendsAreNumbered, Settles
<1>7. FormsListen'
  <2>1. CASE state' = state
    BY <1>1, <1>2, <2>1 DEF FormsListen, Settles
  <2>2. ASSUME IsLive(s), NEW status \in Statuses, state' = Shows(x.form, status, s)
        PROVE  FormsListen'
    BY <1>1, <1>2, <1>3, <2>2 DEF FormsListen, Settles, IsLive, Shows, TxTypeOK
  <2> QED BY <2>1, <2>2
<1> QED BY <1>4, <1>5, <1>6, <1>7

\* The two ways a settling step can go: its form no longer listens, or shows it.
LEMMA SettlingKeepsIInv ==
  ASSUME IInv, JobsGrow, NEW s, NEW x, Settles(s, x), NEW status \in Statuses \ {"idle"},
         \/ state' = state /\ (IsLive(s) => \A st \in Statuses : StatusTold(st, sends[s]) => StatusTold(st, x))
         \/ state' = ShowsIfLive(s, status) /\ StatusTold(status, x),
         /\ x.at = "wallet" => x.awaits = "signature" /\ x.toast = "none"
         /\ x.awaits = "signature" => x.at = "wallet"
         /\ x.toast = "success" => x.at = "mined" /\ x.awaits = "nothing"
  PROVE  IInv'
<1> USE DEF IInv
<1>1. /\ DOMAIN sends' = DOMAIN sends
      /\ sends'[s] = x
      /\ \A r \in DOMAIN sends : r # s => sends'[r] = sends[r]
      /\ s \in Nat \ {0}
      /\ x.form \in Forms /\ x.form = sends[s].form
  <2>1. sends \in Seq(SendRecord) /\ s \in DOMAIN sends /\ x \in SendRecord /\ sends' = [sends EXCEPT ![s] = x]
    BY DEF Settles, TxTypeOK
  <2>2. DOMAIN sends' = DOMAIN sends
    BY <2>1, SeqReplace
  <2>3. x.form \in Forms /\ x.form = sends[s].form
    BY <2>1 DEF Settles, SendRecord
  <2> QED BY <2>1, <2>2, <2>3
<1>2. TxTypeOK' /\ VerdictsArePast' /\ SendsAreNumbered' /\ FormsListen'
  BY SettlingKeepsOrder DEF ShowsIfLive, Settles
<1>3. StagesAgree'
  BY <1>1 DEF StagesAgree
<1>4. FormsTell'
  <2> SUFFICES ASSUME NEW g \in Forms
               PROVE  /\ state'[g].status = "idle" <=> state'[g].send = 0
                      /\ state'[g].send # 0 => StatusTold(state'[g].status, sends'[state'[g].send])
    BY DEF FormsTell, StatusTold
  <2>1. CASE state[g].send # 0 /\ state[g].send = s
    \* The form is about s, so it still listens to it.
    <3>1. IsLive(s) /\ g = x.form
      BY <1>1, <2>1 DEF FormsListen, IsLive
    <3>2. CASE state' = state /\ \A st \in Statuses : StatusTold(st, sends[s]) => StatusTold(st, x)
      <4>1. state[g].status \in Statuses
        BY DEF TxTypeOK
      <4>2. StatusTold(state[g].status, sends[s]) /\ state[g].status # "idle" /\ s # 0
        BY <1>1, <2>1 DEF FormsTell
      <4> QED BY <1>1, <2>1, <3>2, <4>1, <4>2
    <3>3. CASE state' = ShowsIfLive(s, status) /\ StatusTold(status, x)
      BY <1>1, <2>1, <3>1, <3>3 DEF ShowsIfLive, Shows, TxTypeOK
    <3> QED BY <3>1, <3>2, <3>3
  <2>2. CASE state[g].send # s \/ state[g].send = 0
    <3>1. CASE state'[g] = state[g]
      BY <1>1, <2>2, <3>1 DEF FormsTell, FormsListen
    <3>2. CASE state' = Shows(x.form, status, s) /\ StatusTold(status, x) /\ g = x.form
      BY <1>1, <3>2 DEF Shows, TxTypeOK
    <3> QED BY <1>1, <3>1, <3>2 DEF ShowsIfLive, Shows, TxTypeOK
  <2> QED BY <2>1, <2>2
<1> QED BY <1>2, <1>3, <1>4

\* One case per way a send settles.
LEMMA SettleKeepsIInv ==
  ASSUME IInv, JobsGrow, SettleStep
  PROVE  IInv'
<1> USE DEF IInv
<1>0. SUFFICES ASSUME NEW s \in DOMAIN sends,
                      \/ Signed(s)
                      \/ \E dismissed \in BOOLEAN : Refused(s, dismissed)
                      \/ Receipt(s)
                      \/ Unread(s)
                      \/ Executes(s)
               PROVE  IInv'
  BY DEF SettleStep
<1> DEFINE y == sends[s]
<1>1. /\ y \in SendRecord
      /\ y.at = "wallet" => y.awaits = "signature" /\ y.toast = "none"
      /\ y.awaits = "signature" => y.at = "wallet"
      /\ y.toast = "success" => y.at = "mined" /\ y.awaits = "nothing"
  BY DEF TxTypeOK, StagesAgree
<1>2. CASE Signed(s)
  <2> DEFINE x == [y EXCEPT !.at = "chain", !.toast = "loading",
                            !.awaits = IF IsLive(s) THEN "receipt" ELSE "nothing"]
  <2>1. Settles(s, x)
    BY <1>1, <1>2 DEF Signed, Settles, SendRecord
  <2>2. CASE IsLive(s)
    <3>1. state' = ShowsIfLive(s, "pending") /\ StatusTold("pending", x)
      BY <1>1, <1>2, <2>2 DEF Signed, StatusTold, SendRecord
    <3>2. x.at = "chain" /\ x.awaits = "receipt" /\ x.toast = "loading"
      BY <1>1, <2>2 DEF SendRecord
    <3>3. "pending" \in Statuses \ {"idle"}
      BY DEF Statuses
    <3> HIDE DEF x
    <3> QED BY <2>1, <3>1, <3>2, <3>3, SettlingKeepsIInv
  <2>3. CASE ~IsLive(s)
    <3>1. state' = state
      BY <1>2, <2>3 DEF Signed, ShowsIfLive
    <3>2. x.at = "chain" /\ x.awaits = "nothing" /\ x.toast = "loading"
      BY <1>1, <2>3 DEF SendRecord
    <3>3. "pending" \in Statuses \ {"idle"}
      BY DEF Statuses
    <3> HIDE DEF x
    <3> QED BY <2>1, <2>3, <3>1, <3>2, <3>3, SettlingKeepsIInv
  <2> QED BY <2>2, <2>3
<1>3. ASSUME NEW dismissed \in BOOLEAN, Refused(s, dismissed)
      PROVE  IInv'
  <2> DEFINE x == [y EXCEPT !.at = "refused", !.awaits = "nothing",
                            !.toast = IF dismissed THEN "none" ELSE "error"]
             status == IF dismissed THEN "cancelled" ELSE "failed"
  <2>1. Settles(s, x)
    BY <1>1, <1>3 DEF Refused, Settles, SendRecord
  <2>2. x.at = "refused" /\ x.awaits = "nothing" /\ x.toast = IF dismissed THEN "none" ELSE "error"
    BY <1>1 DEF SendRecord
  <2>3. StatusTold(status, x)
    BY <2>2 DEF StatusTold
  <2>4. state' = ShowsIfLive(s, status)
    BY <1>3 DEF Refused
  <2> HIDE DEF x
  <2>5. status \in Statuses \ {"idle"}
    BY DEF Statuses
  <2>6. x.toast # "success"
    BY <2>2
  <2> HIDE DEF status
  <2> QED BY <2>1, <2>2, <2>3, <2>4, <2>5, <2>6, SettlingKeepsIInv
<1>4. CASE Receipt(s)
  <2> DEFINE mined == y.at = "mined"
             x == [y EXCEPT !.awaits = "nothing", !.toast = IF mined THEN "success" ELSE "error",
                            !.ok = mined /\ IsLive(s)]
             status == IF mined THEN "confirmed" ELSE "failed"
  <2>1. Settles(s, x)
    BY <1>1, <1>4 DEF Receipt, Settles, SendRecord
  <2>2. x.at = y.at /\ x.at # "wallet" /\ x.awaits = "nothing" /\ x.toast = IF mined THEN "success" ELSE "error"
    BY <1>1, <1>4 DEF SendRecord, Receipt
  <2>3. StatusTold(status, x)
    BY <2>2 DEF StatusTold
  <2>4. state' = ShowsIfLive(s, status)
    BY <1>4 DEF Receipt
  <2> HIDE DEF x
  <2>5. status \in Statuses \ {"idle"}
    BY DEF Statuses
  <2>6. x.toast = "success" => x.at = "mined"
    BY <2>2
  <2> HIDE DEF status, mined
  <2> QED BY <2>1, <2>2, <2>3, <2>4, <2>5, <2>6, SettlingKeepsIInv
<1>5. CASE Unread(s)
  <2> DEFINE x == [y EXCEPT !.awaits = "nothing", !.toast = "error"]
  <2>1. Settles(s, x)
    BY <1>1, <1>5 DEF Unread, Settles, SendRecord
  <2>2. x.at = y.at /\ x.at # "wallet" /\ x.awaits = "nothing" /\ x.toast = "error"
    BY <1>1, <1>5 DEF SendRecord, Unread
  <2>3. StatusTold("failed", x) /\ "failed" \in Statuses \ {"idle"}
    BY <2>2 DEF StatusTold, Statuses
  <2>4. state' = ShowsIfLive(s, "failed")
    BY <1>5 DEF Unread
  <2> HIDE DEF x
  <2> QED BY <2>1, <2>2, <2>3, <2>4, SettlingKeepsIInv
<1>6. CASE Executes(s)
  <2>1. PICK end \in {"mined", "reverted"} : sends' = [sends EXCEPT ![s].at = end]
    BY <1>6 DEF Executes
  <2> DEFINE x == [y EXCEPT !.at = end]
  <2>2. Settles(s, x)
    BY <1>1, <1>6, <2>1 DEF Executes, Settles, SendRecord
  <2>3. x.at = end /\ x.awaits = y.awaits /\ x.toast = y.toast /\ y.at = "chain"
    BY <1>1, <1>6 DEF SendRecord, Executes
  <2>4. \A st \in Statuses : StatusTold(st, y) => StatusTold(st, x)
    BY <2>3 DEF StatusTold
  <2>5. state' = state /\ "failed" \in Statuses \ {"idle"}
    BY <1>6 DEF Executes, Statuses
  <2>6. /\ x.at # "wallet" /\ x.awaits # "signature" /\ x.toast # "success"
    BY <1>1, <2>3
  <2> HIDE DEF x
  <2> QED BY <2>2, <2>4, <2>5, <2>6, SettlingKeepsIInv
<1> QED BY <1>0, <1>2, <1>3, <1>4, <1>5, <1>6

LEMMA FormKeepsIInv ==
  ASSUME IInv, JobsGrow, NEW f \in Forms, Abandon(f) \/ Stalls(f)
  PROVE  IInv'
<1> USE DEF IInv
<1>1. CASE Abandon(f)
  <2>1. /\ state' = [state EXCEPT ![f] = [status |-> "idle", send |-> 0]]
        /\ live' = [live EXCEPT ![f] = @ + 1]
        /\ UNCHANGED <<attempt, stalled, sends>>
    BY <1>1 DEF Abandon, Shows
  <2>2. TxTypeOK'
    BY <2>1 DEF TxTypeOK, Statuses, JobsGrow
  <2>3. VerdictsArePast' /\ StagesAgree'
    BY <2>1 DEF VerdictsArePast, StagesAgree
  <2>4. SendsAreNumbered'
    <3>1. ASSUME NEW s \in DOMAIN sends PROVE sends[s].mine \in Nat /\ sends[s].form \in Forms
      <4>1. sends[s] \in SendRecord
        BY DEF TxTypeOK
      <4> QED BY <4>1 DEF SendRecord
    <3>2. \A g \in Forms : live[g] \in Nat /\ live'[g] >= live[g] /\ live'[g] \in Nat
      BY <2>1 DEF TxTypeOK
    <3> QED BY <2>1, <3>1, <3>2 DEF SendsAreNumbered
  <2>5. FormsListen'
    BY <2>1 DEF FormsListen, TxTypeOK
  <2>6. FormsTell'
    BY <2>1 DEF FormsTell, TxTypeOK, StatusTold
  <2> QED BY <2>2, <2>3, <2>4, <2>5, <2>6
<1>2. CASE Stalls(f)
  <2>1. state[f].status \in Waits /\ attempt[f] \in Nat
    BY <1>2 DEF Stalls, Waiting, Waits, TxTypeOK
  <2>2. /\ stalled' = [stalled EXCEPT ![f][state[f].status] = attempt[f]]
        /\ UNCHANGED <<state, live, attempt, sends>>
    BY <1>2 DEF Stalls
  <2>3. /\ stalled' \in [Forms -> [Waits -> Nat]]
        /\ \A g \in Forms, w \in Waits :
             stalled'[g][w] = IF g = f /\ w = state[f].status THEN attempt[f] ELSE stalled[g][w]
    BY <2>1, <2>2 DEF TxTypeOK
  <2>4. TxTypeOK'
    BY <2>2, <2>3 DEF TxTypeOK, JobsGrow
  <2>5. VerdictsArePast'
    BY <2>2, <2>3 DEF VerdictsArePast, TxTypeOK
  <2>6. SendsAreNumbered' /\ FormsListen' /\ StagesAgree' /\ FormsTell'
    BY <2>2 DEF SendsAreNumbered, FormsListen, StagesAgree, FormsTell, StatusTold
  <2> QED BY <2>4, <2>5, <2>6
<1> QED BY <1>1, <1>2

LEMMA NextIInv == IInv /\ [TicketNext]_ticketVars => IInv'
<1> SUFFICES ASSUME IInv, [TicketNext]_ticketVars PROVE IInv'
  OBVIOUS
<1>1. TxTypeOK
  BY DEF IInv
<1>2. TxStep /\ JobsGrow
  BY <1>1, TicketStepsAreTxSteps, JobsOnlyGrow
<1>3. CASE SendStep
  BY <1>2, <1>3, SendKeepsIInv DEF SendStep
<1>4. CASE SettleStep
  BY <1>2, <1>4, SettleKeepsIInv
<1>5. CASE FormStep
  BY <1>2, <1>5, FormKeepsIInv DEF FormStep
<1>6. CASE UNCHANGED txVars
  <2>1. UNCHANGED <<state, live, attempt, stalled, sends>>
    BY <1>6 DEF txVars
  <2>2. TxTypeOK'
    BY <1>1, <1>2, <2>1 DEF TxTypeOK, JobsGrow
  <2>3. VerdictsArePast' /\ SendsAreNumbered' /\ FormsListen' /\ StagesAgree' /\ FormsTell'
    BY <2>1 DEF IInv, VerdictsArePast, SendsAreNumbered, FormsListen, StagesAgree, FormsTell, StatusTold
  <2> QED BY <2>2, <2>3 DEF IInv
<1> QED BY <1>2, <1>3, <1>4, <1>5, <1>6 DEF TxStep

(* The invariant of forms, sends and timers holds in every reachable state
   (useTransaction, useStalled). *)
THEOREM TicketInvariance == TicketSpec => []IInv
<1>1. TicketInit => IInv
  BY InitIInv
<1>2. IInv /\ [TicketNext]_ticketVars => IInv'
  BY NextIInv
<1> QED BY <1>1, <1>2, PTL DEF TicketSpec

(* What forms and toasts say of a send is true, whichever sends were abandoned,
   refused, lost or overtaken (useTransaction's live reference). *)
THEOREM OutcomesTold == TicketSpec => []OutcomesAreTrue
<1>1. ASSUME IInv PROVE OutcomesAreTrue
  <2>1. ASSUME NEW f \in Forms, state[f].send # 0
        PROVE  LET s == sends[state[f].send] IN
               /\ \A r \in DOMAIN sends : sends[r].form = f => r <= state[f].send
               /\ CASE state[f].status = "signing" -> s.at = "wallet"
                    [] state[f].status = "pending" -> s.awaits = "receipt"
                    [] state[f].status = "cancelled" -> s.at = "refused"
                    [] state[f].status = "confirmed" -> s.at = "mined"
                    [] state[f].status = "failed" -> s.toast = "error"
    <3> DEFINE n == state[f].send
    <3>1. n \in DOMAIN sends /\ sends[n].form = f /\ sends[n].mine = live[f]
      BY <1>1, <2>1 DEF IInv, FormsListen
    <3>2. ASSUME NEW r \in DOMAIN sends PROVE r \in Nat /\ sends[r].mine \in Nat
      <4>1. r \in Nat /\ sends[r] \in SendRecord
        BY <1>1 DEF IInv, TxTypeOK
      <4> QED BY <4>1 DEF SendRecord
    <3>3. ASSUME NEW r \in DOMAIN sends, sends[r].form = f PROVE r <= n
      \* A later send of the form would have a larger number than live.
      <4>1. sends[r].mine <= live[f] /\ (n < r => sends[n].mine < sends[r].mine)
        BY <1>1, <3>1, <3>3 DEF IInv, SendsAreNumbered
      <4> QED BY <3>1, <3>2, <4>1
    <3>4. state[f].status \in Statuses \ {"idle"} /\ StatusTold(state[f].status, sends[n])
      BY <1>1, <2>1 DEF IInv, FormsTell, TxTypeOK
    <3> QED BY <3>3, <3>4 DEF StatusTold, Statuses
  <2>2. \A s \in DOMAIN sends : sends[s].toast = "success" => sends[s].at = "mined"
    BY <1>1 DEF IInv, StagesAgree
  <2> QED BY <2>1, <2>2 DEF OutcomesAreTrue
<1>2. IInv => OutcomesAreTrue
  BY <1>1
<1> QED BY <1>2, TicketInvariance, PTL

(* A retry waits its own eight seconds (useStalled's restartKey): a new attempt
   is past every verdict reached so far. *)
THEOREM RetriesStartFresh == TicketSpec => RetryStartsFresh
<1>1. ASSUME IInv, [TicketNext]_ticketVars
      PROVE  [\A f \in Forms : attempt'[f] # attempt[f] => ~StopOffered(f)']_ticketVars
  <2> SUFFICES ASSUME NEW f \in Forms, attempt'[f] # attempt[f]
               PROVE  ~StopOffered(f)'
    OBVIOUS
  <2>1. PICK g \in Forms : stalled' = stalled /\ attempt' = [attempt EXCEPT ![g] = @ + 1]
    <3>1. TxStep
      BY <1>1, TicketStepsAreTxSteps DEF IInv
    <3>2. attempt' # attempt
      OBVIOUS
    <3> QED BY <3>1, <3>2 DEF TxStep, SendStep, SettleStep, FormStep, txVars,
                 Send, Signed, Refused, Receipt, Unread, Executes, Abandon, Stalls
  <2>2. attempt'[f] = attempt[f] + 1 /\ attempt[f] \in Nat
    BY <1>1, <2>1 DEF IInv, TxTypeOK
  <2>3. ASSUME NEW w \in Waits PROVE stalled'[f][w] # attempt'[f]
    BY <1>1, <2>1, <2>2 DEF IInv, TxTypeOK, VerdictsArePast
  <2> QED BY <2>3 DEF StopOffered, IsStalled, Waits
<1> QED BY <1>1, TicketInvariance, PTL DEF TicketSpec, RetryStartsFresh

-----------------------------------------------------------------------------
(* Permissions. What a standing allowance or delegation is worth depends on the
   order of a submit's calls: each waits for the one before it to be mined, and
   the position comes last. *)

ChainTypeOK == chain \in [wallet : Nat, headroom : Nat, token : Nat, lend : Nat]

\* A submit carries on only after a call that was mined.
OkIsMined == \A s \in DOMAIN sends : sends[s].ok => sends[s].at = "mined"

\* Of two calls of a submit the earlier was mined, and was not the position.
CallsInOrder ==
  \A r, s \in DOMAIN sends :
    sends[r].job = sends[s].job /\ r < s => sends[r].at = "mined" /\ sends[r].call # "open"

\* The position is the last call of a submit.
OpenEnds(calls) == \A i \in DOMAIN calls : calls[i] = "open" => i = Len(calls)
PositionIsLast ==
  /\ \A j \in DOMAIN jobs : OpenEnds(jobs[j].rest)
  /\ \A s \in DOMAIN sends : sends[s].call = "open" => jobs[sends[s].job].rest = <<>>

PermitInv ==
  /\ IInv
  /\ ChainTypeOK
  /\ OkIsMined
  /\ CallsInOrder
  /\ PositionIsLast
  /\ StandingPermissionIsUnused

LEMMA InitPermitInv == TicketInit => PermitInv
<1> SUFFICES ASSUME TicketInit PROVE PermitInv
  OBVIOUS
<1>1. IInv
  BY InitIInv
<1>2. /\ DOMAIN sends = {} /\ DOMAIN jobs = {}
      /\ chain = [wallet |-> Wallet, headroom |-> Capacity, token |-> 0, lend |-> 0]
  BY DEF TicketInit, TxInit, ChainInit
<1>3. ChainTypeOK /\ StandingPermissionIsUnused
  BY <1>2, HolderHasAmounts DEF ChainTypeOK, StandingPermissionIsUnused
<1>4. OkIsMined /\ CallsInOrder /\ PositionIsLast
  BY <1>2 DEF OkIsMined, CallsInOrder, PositionIsLast
<1> QED BY <1>1, <1>3, <1>4 DEF PermitInv

\* What is left after a call of a plan still ends in the position.
LEMMA RestEndsInOpen ==
  ASSUME NEW calls \in Seq(Calls), calls # <<>>, OpenEnds(calls)
  PROVE  /\ OpenEnds(Tail(calls))
         /\ Head(calls) = "open" => Tail(calls) = <<>>
<1>1. /\ Len(Tail(calls)) = Len(calls) - 1 /\ Len(calls) \in Nat \ {0}
      /\ \A i \in DOMAIN Tail(calls) : Tail(calls)[i] = calls[i + 1] /\ i + 1 \in DOMAIN calls /\ i \in Nat
      /\ Tail(calls) \in Seq(Calls)
  OBVIOUS
<1>2. OpenEnds(Tail(calls))
  BY <1>1 DEF OpenEnds
<1>3. ASSUME Head(calls) = "open" PROVE Tail(calls) = <<>>
  <2>1. calls[1] = "open" /\ 1 \in DOMAIN calls
    BY <1>1, <1>3
  <2>2. Len(Tail(calls)) = 0
    BY <1>1, <2>1 DEF OpenEnds
  <2>3. \A q \in Seq(Calls) : Len(q) = 0 => q = <<>>
    OBVIOUS
  <2> QED BY <1>1, <2>2, <2>3
<1> QED BY <1>2, <1>3

\* Whatever the form read, the position ends the plan and what is left of it.
LEMMA PlanEndsInOpen ==
  ASSUME NEW own, NEW borrow
  PROVE  /\ OpenEnds(Tail(Plan(own, borrow)))
         /\ Head(Plan(own, borrow)) = "open" => Tail(Plan(own, borrow)) = <<>>
<1> DEFINE first == IF own > 0 /\ seen.token < own THEN <<"approve">> ELSE <<>>
           second == IF borrow > 0 /\ seen.lend < borrow THEN <<"delegate">> ELSE <<>>
           asks == first \o second
<1>1. asks \in Seq(Calls \ {"open"})
  <2>1. <<"approve">> \in Seq(Calls \ {"open"}) /\ <<"delegate">> \in Seq(Calls \ {"open"})
        /\ <<>> \in Seq(Calls \ {"open"})
    BY DEF Calls
  <2>2. first \in Seq(Calls \ {"open"}) /\ second \in Seq(Calls \ {"open"})
    BY <2>1, Zenon
  <2> HIDE DEF first, second
  <2> QED BY <2>2
<1>2. Plan(own, borrow) = asks \o <<"open">>
  BY DEF Plan
<1> HIDE DEF asks
<1>3. /\ DOMAIN (asks \o <<"open">>) = 1..(Len(asks) + 1) /\ Len(asks) \in Nat
      /\ Len(asks \o <<"open">>) = Len(asks) + 1
      /\ \A i \in 1..Len(asks) : (asks \o <<"open">>)[i] = asks[i] /\ asks[i] # "open"
  BY <1>1
<1>4. OpenEnds(Plan(own, borrow))
  <2> SUFFICES ASSUME NEW i \in 1..(Len(asks) + 1), (asks \o <<"open">>)[i] = "open"
               PROVE  i = Len(asks) + 1
    BY <1>2, <1>3 DEF OpenEnds
  <2> QED BY <1>3
<1> QED BY <1>4, PlanIsCalls, RestEndsInOpen

\* Nothing that was taken is forgotten, and nothing was taken in this step.
SameJobs == \A k \in DOMAIN jobs :
  k \in DOMAIN jobs' /\ jobs'[k].own = jobs[k].own /\ jobs'[k].borrow = jobs[k].borrow
LEMMA PermissionsStand ==
  ASSUME StandingPermissionIsUnused, chain' = chain, SameJobs,
         \A k \in DOMAIN jobs : Taken(k)' => Taken(k)
  PROVE  StandingPermissionIsUnused'
BY DEF StandingPermissionIsUnused, SameJobs

\* A call is sent once the calls before it were mined.
LEMMA SendKeepsOrder ==
  ASSUME PermitInv, NEW f \in Forms, NEW call \in Calls, NEW j \in DOMAIN jobs', Send(f, j, call),
         chain' = chain, SameJobs,
         DOMAIN jobs' = DOMAIN jobs \cup {j}, \A k \in DOMAIN jobs \ {j} : jobs'[k] = jobs[k],
         \A r \in DOMAIN sends : sends[r].job = j => sends[r].at = "mined" /\ sends[r].call # "open",
         OpenEnds(jobs'[j].rest), call = "open" => jobs'[j].rest = <<>>
  PROVE  OkIsMined' /\ CallsInOrder' /\ PositionIsLast' /\ StandingPermissionIsUnused'
<1> DEFINE new == [form |-> f, job |-> j, call |-> call, mine |-> live[f] + 1, at |-> "wallet",
                   awaits |-> "signature", toast |-> "none", ok |-> FALSE]
           n == Len(sends) + 1
<1>1. sends' = Append(sends, new) /\ sends \in Seq(SendRecord)
  BY DEF Send, PermitInv, IInv, TxTypeOK
<1>2. new.job = j /\ new.call = call /\ new.at = "wallet" /\ new.ok = FALSE
  OBVIOUS
<1> HIDE DEF new
<1>3. /\ DOMAIN sends' = DOMAIN sends \cup {n} /\ n \notin DOMAIN sends
      /\ \A r \in DOMAIN sends : sends'[r] = sends[r] /\ r \in Nat /\ r < n
      /\ sends'[n] = new /\ n \in Nat
  BY <1>1
<1> HIDE DEF n
<1>4. \A r \in DOMAIN sends : sends[r].job \in DOMAIN jobs
  BY DEF PermitInv, IInv, TxTypeOK
<1>5. OkIsMined'
  BY <1>2, <1>3 DEF PermitInv, OkIsMined
<1>6. CallsInOrder'
  <2> SUFFICES ASSUME NEW r \in DOMAIN sends', NEW s \in DOMAIN sends', sends'[r].job = sends'[s].job, r < s
               PROVE  sends'[r].at = "mined" /\ sends'[r].call # "open"
    BY DEF CallsInOrder
  <2>1. r \in DOMAIN sends
    BY <1>3
  <2>2. CASE s = n
    BY <1>2, <1>3, <2>1, <2>2
  <2>3. CASE s \in DOMAIN sends
    BY <1>3, <2>1, <2>3 DEF PermitInv, CallsInOrder
  <2> QED BY <1>3, <2>2, <2>3
<1>7. PositionIsLast'
  <2>1. ASSUME NEW k \in DOMAIN jobs' PROVE OpenEnds(jobs'[k].rest)
    BY DEF PermitInv, PositionIsLast
  <2>2. ASSUME NEW s \in DOMAIN sends', sends'[s].call = "open"
        PROVE  jobs'[sends'[s].job].rest = <<>>
    <3>1. CASE s = n
      BY <1>2, <1>3, <2>2, <3>1
    <3>2. CASE s \in DOMAIN sends
      <4>1. sends[s].call = "open" /\ sends[s].job \in DOMAIN jobs \ {j} /\ sends'[s].job = sends[s].job
        BY <1>3, <1>4, <2>2, <3>2
      <4> QED BY <3>2, <4>1 DEF PermitInv, PositionIsLast
    <3> QED BY <1>3, <3>1, <3>2
  <2> QED BY <2>1, <2>2 DEF PositionIsLast, OpenEnds
<1>8. \A k \in DOMAIN jobs : Taken(k)' => Taken(k)
  BY <1>2, <1>3 DEF Taken
<1>9. StandingPermissionIsUnused'
  BY <1>8, PermissionsStand DEF PermitInv
<1> QED BY <1>5, <1>6, <1>7, <1>9

\* What the wallet and the receipt say of a send does not move the chain.
Hears(s, x) ==
  /\ s \in DOMAIN sends
  /\ x.job = sends[s].job /\ x.call = sends[s].call
  /\ x.at = "mined" <=> sends[s].at = "mined"
  /\ x.ok => x.at = "mined"
  /\ sends' = [sends EXCEPT ![s] = x]
LEMMA HearingKeepsOrder ==
  ASSUME PermitInv, NEW s, NEW x \in SendRecord, Hears(s, x), UNCHANGED <<jobs, chain>>
  PROVE  OkIsMined' /\ CallsInOrder' /\ PositionIsLast' /\ StandingPermissionIsUnused'
<1>1. sends \in Seq(SendRecord) /\ s \in DOMAIN sends
  BY DEF PermitInv, IInv, TxTypeOK, Hears
<1>2. /\ DOMAIN sends' = DOMAIN sends
      /\ \A r \in DOMAIN sends :
           /\ sends'[r].job = sends[r].job /\ sends'[r].call = sends[r].call
           /\ sends'[r].at = "mined" <=> sends[r].at = "mined"
           /\ sends'[r].ok => sends'[r].at = "mined"
  <2>1. DOMAIN sends' = DOMAIN sends
    BY <1>1, SeqReplace DEF Hears
  <2>2. sends'[s] = x /\ \A r \in DOMAIN sends : r # s => sends'[r] = sends[r]
    BY <1>1 DEF Hears
  <2> QED BY <2>1, <2>2 DEF Hears, PermitInv, OkIsMined
<1>3. OkIsMined'
  BY <1>2 DEF OkIsMined
<1>4. CallsInOrder'
  BY <1>2 DEF PermitInv, CallsInOrder
<1>5. PositionIsLast'
  BY <1>2 DEF PermitInv, PositionIsLast, OpenEnds
<1>6. \A k \in DOMAIN jobs : Taken(k)' => Taken(k)
  BY <1>2 DEF Taken
<1>7. StandingPermissionIsUnused'
  BY <1>6, PermissionsStand DEF PermitInv, SameJobs
<1> QED BY <1>3, <1>4, <1>5, <1>7

\* A block takes an approval: the permission is this submit's, and its position
\* has not been taken, for every call before the position's was mined earlier.
LEMMA ApprovalIsUnused ==
  ASSUME PermitInv, NEW s \in DOMAIN sends, sends[s].at = "chain", sends[s].call # "open"
  PROVE  ~Taken(sends[s].job)
<1> SUFFICES ASSUME NEW r \in DOMAIN sends, sends[r].job = sends[s].job,
                    sends[r].call = "open", sends[r].at = "mined"
             PROVE  FALSE
  BY DEF Taken
<1>1. r \in Nat /\ s \in Nat /\ r # s
  BY DEF PermitInv, IInv, TxTypeOK
<1>2. ~(r < s)
  BY DEF PermitInv, CallsInOrder
<1>3. ~(s < r)
  BY DEF PermitInv, CallsInOrder
<1> QED BY <1>1, <1>2, <1>3

LEMMA MiningKeepsOrder ==
  ASSUME PermitInv, NEW s \in DOMAIN sends, NEW entry \in BOOLEAN, Mines(s, entry)
  PROVE  ChainTypeOK' /\ OkIsMined' /\ CallsInOrder' /\ PositionIsLast' /\ StandingPermissionIsUnused'
<1>0. PICK j : j = sends[s].job
  OBVIOUS
<1> DEFINE goes == sends[s].call # "open" \/ (entry /\ Opens(chain, jobs[j].own, jobs[j].borrow))
           at == IF goes THEN "mined" ELSE "reverted"
<1>1. /\ sends[s].at = "chain"
      /\ sends' = [sends EXCEPT ![s].at = at]
      /\ chain' = IF goes THEN AfterCall(chain, jobs[j], sends[s].call) ELSE chain
      /\ jobs' = jobs
  BY <1>0 DEF Mines
<1>2. /\ sends \in Seq(SendRecord) /\ sends[s] \in SendRecord
      /\ j \in DOMAIN jobs /\ \A k \in DOMAIN jobs : jobs[k].own \in Nat /\ jobs[k].borrow \in Nat
  <2>1. \A k \in DOMAIN jobs : jobs[k] \in JobRecord
    BY DEF PermitInv, IInv, TxTypeOK
  <2>2. \A k \in DOMAIN jobs : jobs[k].own \in Nat /\ jobs[k].borrow \in Nat
    BY <2>1 DEF JobRecord
  <2>3. sends \in Seq(SendRecord) /\ sends[s] \in SendRecord /\ j \in DOMAIN jobs
    BY <1>0 DEF PermitInv, IInv, TxTypeOK
  <2> QED BY <2>2, <2>3
<1>3. chain \in [wallet : Nat, headroom : Nat, token : Nat, lend : Nat]
  BY DEF PermitInv, ChainTypeOK
<1> HIDE DEF goes, at
<1>4. /\ DOMAIN sends' = DOMAIN sends
      /\ \A r \in DOMAIN sends :
           /\ sends'[r].job = sends[r].job /\ sends'[r].call = sends[r].call /\ sends'[r].ok = sends[r].ok
           /\ sends'[r].at = IF r = s THEN at ELSE sends[r].at
  <2>1. \A r \in DOMAIN sends : sends[r] \in SendRecord
    BY <1>2
  <2> QED BY <1>1, <2>1 DEF SendRecord
<1>5. OkIsMined'
  BY <1>1, <1>4 DEF PermitInv, OkIsMined
<1>6. CallsInOrder'
  <2> SUFFICES ASSUME NEW r \in DOMAIN sends, NEW t \in DOMAIN sends, sends[r].job = sends[t].job, r < t
               PROVE  sends'[r].at = "mined" /\ sends'[r].call # "open"
    BY <1>4 DEF CallsInOrder
  <2>1. sends[r].at = "mined" /\ sends[r].call # "open"
    BY DEF PermitInv, CallsInOrder
  <2> QED BY <1>1, <1>4, <2>1
<1>7. PositionIsLast'
  BY <1>1, <1>4 DEF PermitInv, PositionIsLast, OpenEnds
\* Only the submit whose position this call takes becomes taken.
<1>8. \A k : Taken(k)' => Taken(k) \/ (k = j /\ sends[s].call = "open")
  BY <1>0, <1>1, <1>4 DEF Taken
<1>9. CASE ~goes
  <2>1. chain' = chain
    BY <1>1, <1>9
  <2>2. \A k \in DOMAIN jobs : Taken(k)' => Taken(k)
    BY <1>1, <1>4, <1>9 DEF Taken, at
  <2>3. StandingPermissionIsUnused'
    BY <1>1, <2>1, <2>2, PermissionsStand DEF PermitInv, SameJobs
  <2> QED BY <1>3, <1>5, <1>6, <1>7, <2>1, <2>3 DEF ChainTypeOK
<1>10. CASE goes /\ sends[s].call = "approve"
  <2>1. chain' = [chain EXCEPT !.token = jobs[j].own]
    BY <1>1, <1>10 DEF AfterCall
  <2>2. ChainTypeOK' /\ chain'.token = jobs[j].own /\ chain'.lend = chain.lend
    BY <1>2, <1>3, <2>1 DEF ChainTypeOK
  <2>3. \A k : Taken(k)' => Taken(k)
    BY <1>8, <1>10
  <2>4. ~Taken(j)
    BY <1>0, <1>1, <1>10, ApprovalIsUnused
  <2>5. \E k \in DOMAIN jobs : ~Taken(k)' /\ chain'.token <= jobs[k].own
    <3>1. ~Taken(j)'
      BY <2>3, <2>4
    <3>2. chain'.token <= jobs[j].own
      BY <1>2, <2>2
    <3> QED BY <1>2, <3>1, <3>2
  <2>6. chain'.lend > 0 => \E k \in DOMAIN jobs : ~Taken(k)' /\ chain'.lend <= jobs[k].borrow
    BY <2>2, <2>3 DEF PermitInv, StandingPermissionIsUnused
  <2>7. StandingPermissionIsUnused'
    BY <1>1, <2>5, <2>6 DEF StandingPermissionIsUnused
  <2> QED BY <1>5, <1>6, <1>7, <2>2, <2>7
<1>11. CASE goes /\ sends[s].call = "delegate"
  <2>1. chain' = [chain EXCEPT !.lend = jobs[j].borrow]
    BY <1>1, <1>11 DEF AfterCall
  <2>2. ChainTypeOK' /\ chain'.token = chain.token /\ chain'.lend = jobs[j].borrow
    BY <1>2, <1>3, <2>1 DEF ChainTypeOK
  <2>3. \A k : Taken(k)' => Taken(k)
    BY <1>8, <1>11
  <2>4. ~Taken(j)
    BY <1>0, <1>1, <1>11, ApprovalIsUnused
  <2>5. \E k \in DOMAIN jobs : ~Taken(k)' /\ chain'.lend <= jobs[k].borrow
    <3>1. ~Taken(j)'
      BY <2>3, <2>4
    <3>2. chain'.lend <= jobs[j].borrow
      BY <1>2, <2>2
    <3> QED BY <1>2, <3>1, <3>2
  <2>6. chain'.token > 0 => \E k \in DOMAIN jobs : ~Taken(k)' /\ chain'.token <= jobs[k].own
    BY <2>2, <2>3 DEF PermitInv, StandingPermissionIsUnused
  <2>7. StandingPermissionIsUnused'
    BY <1>1, <2>5, <2>6 DEF StandingPermissionIsUnused
  <2> QED BY <1>5, <1>6, <1>7, <2>2, <2>7
<1>12. CASE goes /\ sends[s].call = "open"
  \* The position uses its own permission up, so what is left of a standing one
  \* is another submit's.
  <2>1. /\ chain' = AfterOpen(chain, jobs[j].own, jobs[j].borrow)
        /\ Opens(chain, jobs[j].own, jobs[j].borrow)
    BY <1>1, <1>12 DEF AfterCall, goes
  <2>2. /\ ChainTypeOK'
        /\ chain'.token = chain.token - jobs[j].own /\ jobs[j].own <= chain.token
        /\ chain'.lend = chain.lend - jobs[j].borrow /\ jobs[j].borrow <= chain.lend
    <3> DEFINE own == jobs[j].own
               borrow == jobs[j].borrow
    <3>1. /\ own \in Nat /\ borrow \in Nat
          /\ own <= chain.token /\ own <= chain.wallet /\ borrow <= chain.lend /\ borrow <= chain.headroom
      BY <1>2, <2>1 DEF Opens, LendsFor
    <3>2. /\ chain.token \in Nat /\ chain.wallet \in Nat /\ chain.lend \in Nat /\ chain.headroom \in Nat
          /\ DOMAIN chain = {"wallet", "headroom", "token", "lend"}
      BY <1>3
    <3>3. chain' = [chain EXCEPT !.wallet = chain.wallet - own, !.token = chain.token - own,
                                 !.lend = chain.lend - borrow, !.headroom = chain.headroom - borrow]
      BY <2>1 DEF AfterOpen
    <3> HIDE DEF own, borrow
    <3>4. /\ chain.wallet - own \in Nat /\ chain.token - own \in Nat
          /\ chain.lend - borrow \in Nat /\ chain.headroom - borrow \in Nat
      BY <3>1, <3>2
    <3>5. chain' \in [wallet : Nat, headroom : Nat, token : Nat, lend : Nat]
      BY <1>3, <3>3, <3>4
    <3>6. chain'.token = chain.token - own /\ chain'.lend = chain.lend - borrow
      BY <3>2, <3>3
    <3> QED BY <3>1, <3>5, <3>6 DEF ChainTypeOK, own, borrow
  <2>3. ASSUME chain'.token > 0 PROVE \E k \in DOMAIN jobs : ~Taken(k)' /\ chain'.token <= jobs[k].own
    <3>1. chain.token > 0 /\ chain.token \in Nat
      BY <1>2, <1>3, <2>2, <2>3
    <3>2. PICK k \in DOMAIN jobs : ~Taken(k) /\ chain.token <= jobs[k].own
      BY <3>1 DEF PermitInv, StandingPermissionIsUnused
    <3>3. k # j /\ chain'.token <= jobs[k].own
      BY <1>2, <2>2, <2>3, <3>1, <3>2
    <3> QED BY <1>8, <3>2, <3>3
  <2>4. ASSUME chain'.lend > 0 PROVE \E k \in DOMAIN jobs : ~Taken(k)' /\ chain'.lend <= jobs[k].borrow
    <3>1. chain.lend > 0 /\ chain.lend \in Nat
      BY <1>2, <1>3, <2>2, <2>4
    <3>2. PICK k \in DOMAIN jobs : ~Taken(k) /\ chain.lend <= jobs[k].borrow
      BY <3>1 DEF PermitInv, StandingPermissionIsUnused
    <3>3. k # j /\ chain'.lend <= jobs[k].borrow
      BY <1>2, <2>2, <2>4, <3>1, <3>2
    <3> QED BY <1>8, <3>2, <3>3
  <2>5. StandingPermissionIsUnused'
    BY <1>1, <2>3, <2>4 DEF StandingPermissionIsUnused
  <2> QED BY <1>5, <1>6, <1>7, <2>2, <2>5
<1> QED BY <1>2, <1>9, <1>10, <1>11, <1>12 DEF SendRecord, Calls

LEMMA NextPermitInv == PermitInv /\ [TicketNext]_ticketVars => PermitInv'
<1> SUFFICES ASSUME PermitInv, [TicketNext]_ticketVars PROVE PermitInv'
  OBVIOUS
<1> DEFINE Order == OkIsMined /\ CallsInOrder /\ PositionIsLast /\ StandingPermissionIsUnused
<1>1. IInv' /\ TxTypeOK
  BY NextIInv DEF PermitInv, IInv
<1>2. ASSUME NEW f \in Forms, NEW i \in Inputs, submit(f, i.own, i.borrow)
      PROVE  chain' = chain /\ Order'
  <2> DEFINE plan == Plan(i.own, i.borrow)
             job == [form |-> f, own |-> i.own, borrow |-> i.borrow, rest |-> Tail(plan)]
  <2>1. PICK n : n = Len(jobs) + 1
    OBVIOUS
  <2>2. jobs' = Append(jobs, job) /\ Send(f, n, Head(plan)) /\ chain' = chain
    BY <1>2, <2>1 DEF submit
  <2>3. Head(plan) \in Calls /\ OpenEnds(Tail(plan)) /\ (Head(plan) = "open" => Tail(plan) = <<>>)
    BY PlanIsCalls, PlanEndsInOpen
  <2>4. job.rest = Tail(plan)
    OBVIOUS
  <2> HIDE DEF job, plan
  <2>5. /\ DOMAIN jobs' = DOMAIN jobs \cup {n} /\ n \notin DOMAIN jobs
        /\ \A k \in DOMAIN jobs : jobs'[k] = jobs[k]
        /\ jobs'[n] = job
    BY <1>1, <2>1, <2>2 DEF TxTypeOK
  <2>6. \A r \in DOMAIN sends : sends[r].job # n
    BY <1>1, <2>5 DEF TxTypeOK
  <2> QED BY <2>2, <2>3, <2>4, <2>5, <2>6, SendKeepsOrder DEF SameJobs
<1>3. ASSUME NEW s \in DOMAIN sends, NextCall(s)
      PROVE  chain' = chain /\ Order'
  <2> DEFINE calls == jobs[sends[s].job].rest
  <2>1. PICK j : j = sends[s].job
    OBVIOUS
  <2>2. /\ sends[s].ok /\ calls # <<>>
        /\ \A r \in DOMAIN sends : sends[r].job = j => r <= s
        /\ jobs' = [jobs EXCEPT ![j].rest = Tail(@)]
        /\ Send(sends[s].form, j, Head(calls))
        /\ chain' = chain
    BY <1>3, <2>1 DEF NextCall
  <2>3. /\ j \in DOMAIN jobs /\ \A k \in DOMAIN jobs : jobs[k] \in JobRecord
        /\ \A r \in DOMAIN sends : sends[r] \in SendRecord /\ r \in Nat
    BY <1>1, <2>1 DEF TxTypeOK
  <2>4. calls \in Seq(Calls) /\ sends[s].form \in Forms
    BY <2>1, <2>3 DEF JobRecord, SendRecord
  <2>5. Head(calls) \in Calls /\ OpenEnds(Tail(calls)) /\ (Head(calls) = "open" => Tail(calls) = <<>>)
    <3>1. OpenEnds(calls)
      BY <2>1, <2>3 DEF PermitInv, PositionIsLast
    <3>2. Head(calls) \in Calls
      BY <2>2, <2>4
    <3> HIDE DEF calls
    <3> QED BY <2>2, <2>4, <3>1, <3>2, RestEndsInOpen
  <2>6. /\ DOMAIN jobs' = DOMAIN jobs
        /\ \A k \in DOMAIN jobs \ {j} : jobs'[k] = jobs[k]
        /\ jobs'[j].rest = Tail(calls)
        /\ jobs'[j].own = jobs[j].own /\ jobs'[j].borrow = jobs[j].borrow
    BY <2>1, <2>2, <2>3 DEF JobRecord
  <2>7. ASSUME NEW r \in DOMAIN sends, sends[r].job = j
        PROVE  sends[r].at = "mined" /\ sends[r].call # "open"
    <3>1. CASE r = s
      BY <2>1, <2>2, <3>1 DEF PermitInv, OkIsMined, PositionIsLast
    <3>2. CASE r < s
      BY <2>1, <2>7, <3>2 DEF PermitInv, CallsInOrder
    <3> QED BY <2>2, <2>3, <2>7, <3>1, <3>2
  <2>8. SameJobs /\ DOMAIN jobs' = DOMAIN jobs \cup {j} /\ j \in DOMAIN jobs'
    BY <2>3, <2>6 DEF SameJobs
  <2>9. OpenEnds(jobs'[j].rest) /\ (Head(calls) = "open" => jobs'[j].rest = <<>>)
    BY <2>5, <2>6
  <2>10. Send(sends[s].form, j, Head(calls)) /\ sends[s].form \in Forms /\ Head(calls) \in Calls
    BY <2>2, <2>4, <2>5
  <2> HIDE DEF calls
  <2> QED BY <2>2, <2>6, <2>7, <2>8, <2>9, <2>10, SendKeepsOrder
<1>4. ASSUME NEW s \in DOMAIN sends, WalletAnswers(s) \/ ReceiptArrives(s) \/ ReceiptUnread(s)
      PROVE  chain' = chain /\ Order'
  <2> DEFINE y == sends[s]
  <2>1. UNCHANGED <<jobs, chain>> /\ y \in SendRecord
    BY <1>1, <1>4 DEF WalletAnswers, ReceiptArrives, ReceiptUnread, TxTypeOK
  <2>2. y.ok => y.at = "mined"
    BY DEF PermitInv, OkIsMined
  <2>3. CASE Signed(s)
    <3> DEFINE x == [y EXCEPT !.at = "chain", !.toast = "loading",
                              !.awaits = IF IsLive(s) THEN "receipt" ELSE "nothing"]
    <3>1. x \in SendRecord /\ Hears(s, x)
      BY <2>1, <2>2, <2>3 DEF Signed, Hears, SendRecord
    <3> QED BY <2>1, <3>1, HearingKeepsOrder
  <2>4. ASSUME NEW dismissed \in BOOLEAN, Refused(s, dismissed)
        PROVE  chain' = chain /\ Order'
    <3> DEFINE x == [y EXCEPT !.at = "refused", !.awaits = "nothing",
                              !.toast = IF dismissed THEN "none" ELSE "error"]
    <3>1. x \in SendRecord /\ Hears(s, x)
      BY <2>1, <2>2, <2>4 DEF Refused, Hears, SendRecord
    <3> QED BY <2>1, <3>1, HearingKeepsOrder
  <2>5. CASE Receipt(s)
    <3> DEFINE mined == y.at = "mined"
               x == [y EXCEPT !.awaits = "nothing", !.toast = IF mined THEN "success" ELSE "error",
                              !.ok = mined /\ IsLive(s)]
    <3>1. x \in SendRecord /\ Hears(s, x)
      BY <2>1, <2>2, <2>5 DEF Receipt, Hears, SendRecord
    <3> QED BY <2>1, <3>1, HearingKeepsOrder
  <2>6. CASE Unread(s)
    <3> DEFINE x == [y EXCEPT !.awaits = "nothing", !.toast = "error"]
    <3>1. x \in SendRecord /\ Hears(s, x)
      BY <2>1, <2>2, <2>6 DEF Unread, Hears, SendRecord
    <3> QED BY <2>1, <3>1, HearingKeepsOrder
  <2> QED BY <1>4, <2>3, <2>4, <2>5, <2>6 DEF WalletAnswers, ReceiptArrives, ReceiptUnread
<1>5. ASSUME NEW s \in DOMAIN sends, NEW entry \in BOOLEAN, Mines(s, entry)
      PROVE  ChainTypeOK' /\ Order'
  BY <1>5, MiningKeepsOrder
<1>6. ASSUME UNCHANGED <<sends, jobs, chain>>
      PROVE  ChainTypeOK' /\ Order'
  BY <1>6 DEF PermitInv, ChainTypeOK, OkIsMined, CallsInOrder, PositionIsLast, OpenEnds,
              StandingPermissionIsUnused, Taken
<1>7. ASSUME Take \/ CloseTicket \/ Rereads \/ UNCHANGED ticketVars
      PROVE  ChainTypeOK' /\ Order'
  BY <1>7, <1>6 DEF Take, CloseTicket, Rereads, ticketVars, txVars
<1>8. ASSUME NEW f \in Forms, GivesUp(f) \/ TimerFires(f)
      PROVE  ChainTypeOK' /\ Order'
  BY <1>8, <1>6 DEF GivesUp, TimerFires, stopWaiting, Abandon, Stalls
<1>9. chain' = chain => ChainTypeOK'
  BY DEF PermitInv, ChainTypeOK
<1> HIDE DEF Order
<1>10. ChainTypeOK' /\ Order'
  BY <1>2, <1>3, <1>4, <1>5, <1>7, <1>8, <1>9 DEF TicketNext
<1> QED BY <1>1, <1>10 DEF PermitInv, Order

(* A permission that still stands is one ticket's, and that ticket's position
   has not been taken, whatever was abandoned, repeated or mined late
   (PositionForm's submit asks for exactly the amount it goes on to use). *)
THEOREM PermissionsAreUnused == TicketSpec => []StandingPermissionIsUnused
<1>1. TicketInit => PermitInv
  BY InitPermitInv
<1>2. PermitInv /\ [TicketNext]_ticketVars => PermitInv'
  BY NextPermitInv
<1>3. PermitInv => StandingPermissionIsUnused
  BY DEF PermitInv
<1> QED BY <1>1, <1>2, <1>3, PTL DEF TicketSpec

=============================================================================
