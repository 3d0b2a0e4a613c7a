--------------------------- MODULE PositionTicket ---------------------------
(* The ticket that takes a position (PositionForm), over Transaction and a
   chain that moves under it. One ticket is on screen at a time; closing it does
   not stop a submit that is running, and a later ticket is a new instance.
   The chain side is the token's allowance, the vault's delegation and the
   router's openPosition, as the form's calls see them. *)
EXTENDS Transaction, FiniteSets

CONSTANTS Inputs,    \* what may be typed into the two fields: [own, borrow], 0 for empty
          Wallet,    \* the holder's tokens
          Capacity,  \* what the vault lets the holder borrow
          MaxFaults  \* bound: refused prompts, unread receipts and closed entries

ASSUME FormsAreNumbered == Forms = 1..Cardinality(Forms)
ASSUME InputsAreAmounts == Inputs \subseteq [own : Nat, borrow : Nat]
ASSUME HolderHasAmounts == Wallet \in Nat /\ Capacity \in Nat

VARIABLES taking,  \* the ticket on screen, 0 when none
          opened,  \* tickets mounted so far
          jobs,    \* every submit so far: its amounts and the calls it has left
          chain,   \* balances and permissions on chain
          seen,    \* what the form last read of it
          faults   \* faults so far, for the bound alone

ticketVars == <<txVars, taking, opened, jobs, chain, seen, faults>>

Faults(n) == faults + n <= MaxFaults /\ faults' = faults + n

\* The holder's side of the chain: balances, and what the router may move or borrow.
ChainInit == [wallet |-> Wallet, headroom |-> Capacity, token |-> 0, lend |-> 0]

\* borrowFor: the allowance and the LTV ceiling.
LendsFor(c, borrow) == borrow <= c.lend /\ borrow <= c.headroom

\* Whether the router's openPosition goes through up to the round's own entry
\* checks, and what it leaves behind. An allowance of type(uint256).max, which is
\* never decremented, is one this form cannot ask for.
Opens(c, own, borrow) ==
  own + borrow > 0 /\ own <= c.token /\ own <= c.wallet /\ LendsFor(c, borrow)
AfterOpen(c, own, borrow) ==
  [c EXCEPT !.wallet = @ - own, !.token = @ - own, !.lend = @ - borrow, !.headroom = @ - borrow]

\* Mutant: an approval adds to what stands.
ApprovalsAdd(c, job, call) ==
  CASE call = "approve" -> [c EXCEPT !.token = @ + job.own]
    [] call = "delegate" -> [c EXCEPT !.lend = @ + job.borrow]
    [] call = "open" -> AfterOpen(c, job.own, job.borrow)

\* approve and approveBorrowDelegate set the permission, whatever stood before.
AfterCall(c, job, call) ==
  CASE call = "approve" -> [c EXCEPT !.token = job.own]
    [] call = "delegate" -> [c EXCEPT !.lend = job.borrow]
    [] call = "open" -> AfterOpen(c, job.own, job.borrow)

\* The calls a submit will make, from what the form last read: each permission
\* it lacks, for exactly this amount, then the position.
Plan(own, borrow) ==
     (IF own > 0 /\ seen.token < own THEN <<"approve">> ELSE <<>>)
  \o (IF borrow > 0 /\ seen.lend < borrow THEN <<"delegate">> ELSE <<>>)
  \o <<"open">>

\* The button: nothing running, something typed, nothing over what the form read.
SubmitEnabled(f, own, borrow) ==
  /\ taking = f
  /\ ~Waiting(f)
  /\ own + borrow > 0
  /\ own <= seen.wallet
  /\ borrow <= seen.headroom

TicketInit ==
  /\ TxInit
  /\ taking = 0
  /\ opened = 0
  /\ jobs = <<>>
  /\ chain = ChainInit
  /\ seen = chain
  /\ faults = 0

\* setTaking: a side is chosen and a ticket mounts with the cached reads.
Take ==
  /\ taking = 0
  /\ opened < Cardinality(Forms)
  /\ opened' = opened + 1
  /\ taking' = opened'
  /\ UNCHANGED <<txVars, jobs, chain, seen, faults>>

\* The close button, the backdrop or a change of page: nothing is cancelled.
CloseTicket ==
  /\ taking # 0
  /\ taking' = 0
  /\ UNCHANGED <<txVars, opened, jobs, chain, seen, faults>>

submit(f, own, borrow) ==
  /\ SubmitEnabled(f, own, borrow)
  /\ LET plan == Plan(own, borrow) IN
       /\ jobs' = Append(jobs, [form |-> f, own |-> own, borrow |-> borrow, rest |-> Tail(plan)])
       /\ Send(f, Len(jobs) + 1, Head(plan))
  /\ UNCHANGED <<taking, opened, chain, seen, faults>>

\* After a confirmed approval: the refetch, then the next call. It runs whether
\* or not the ticket is still on screen.
NextCall(s) ==
  LET j == sends[s].job IN
  /\ sends[s].ok
  /\ jobs[j].rest # <<>>
  /\ \A r \in DOMAIN sends : sends[r].job = j => r <= s
  /\ seen' = IF sends[s].call = "approve" THEN [seen EXCEPT !.token = chain.token]
                                        ELSE [seen EXCEPT !.lend = chain.lend]
  /\ jobs' = [jobs EXCEPT ![j].rest = Tail(@)]
  /\ Send(sends[s].form, j, Head(jobs[j].rest))
  /\ UNCHANGED <<taking, opened, chain, faults>>

\* The receipt; once the position itself is confirmed, onDone drops whatever
\* ticket is on screen.
ReceiptArrives(s) ==
  /\ Receipt(s)
  /\ taking' = IF sends'[s].ok /\ sends[s].call = "open" THEN 0 ELSE taking
  /\ UNCHANGED <<opened, jobs, chain, seen, faults>>

\* The reads of a ticket answer, on mount or on the vault's own poll.
Rereads ==
  /\ taking # 0
  /\ seen # chain
  /\ seen' = chain
  /\ UNCHANGED <<txVars, taking, opened, jobs, chain, faults>>

WalletAnswers(s) ==
  /\ \/ Signed(s) /\ UNCHANGED faults
     \/ Faults(1) /\ \E dismissed \in BOOLEAN : Refused(s, dismissed)
  /\ UNCHANGED <<taking, opened, jobs, chain, seen>>

ReceiptUnread(s) == Unread(s) /\ Faults(1) /\ UNCHANGED <<taking, opened, jobs, chain, seen>>

GivesUp(f) == taking = f /\ stopWaiting(f) /\ UNCHANGED <<taking, opened, jobs, chain, seen, faults>>

TimerFires(f) == taking = f /\ Stalls(f) /\ UNCHANGED <<taking, opened, jobs, chain, seen, faults>>

\* A block executes a signed request, or reverts it (the round or the vault may
\* have stopped taking entries); in any order, which is more
\* than the account's nonces allow and nothing in the form relies on.
Mines(s, entry) ==
  LET job == jobs[sends[s].job]
      goes == sends[s].call # "open" \/ (entry /\ Opens(chain, job.own, job.borrow)) IN
  /\ sends[s].at = "chain"
  /\ IF entry THEN UNCHANGED faults ELSE sends[s].call = "open" /\ Faults(1)
  /\ sends' = [sends EXCEPT ![s].at = IF goes THEN "mined" ELSE "reverted"]
  /\ chain' = IF goes THEN AfterCall(chain, job, sends[s].call) ELSE chain
  /\ UNCHANGED <<state, live, attempt, stalled, stops, taking, opened, jobs, seen>>

TicketNext ==
  \/ Take
  \/ CloseTicket
  \/ Rereads
  \/ \E f \in Forms :
       \/ GivesUp(f)
       \/ TimerFires(f)
       \/ \E i \in Inputs : submit(f, i.own, i.borrow)
  \/ \E s \in DOMAIN sends :
       \/ \E entry \in BOOLEAN : Mines(s, entry)
       \/ WalletAnswers(s) \/ ReceiptArrives(s) \/ ReceiptUnread(s) \/ NextCall(s)

\* The timer is the browser's and a receipt that exists is delivered; blocks go on.
\* Nothing makes a wallet answer or a holder click.
TicketFairness ==
  /\ \A f \in Forms : WF_ticketVars(TimerFires(f))
  /\ \A s \in 1..MaxSends :
       /\ WF_ticketVars(s \in DOMAIN sends /\ \E entry \in BOOLEAN : Mines(s, entry))
       /\ WF_ticketVars(s \in DOMAIN sends /\ (ReceiptArrives(s) \/ ReceiptUnread(s)))

TicketSpec == TicketInit /\ [][TicketNext]_ticketVars /\ TicketFairness

-----------------------------------------------------------------------------
(* What the form and the toasts may say: confirmed and success only of a send
   that was mined and not reverted, cancelled only of one that will never be on
   chain, pending only of one a receipt is awaited for, and never about a send
   older than the form's latest (useTransaction's live ref). *)
OutcomesAreTrue ==
  /\ \A f \in Forms : state[f].send # 0 =>
       LET s == sends[state[f].send] IN
       /\ \A r \in DOMAIN sends : sends[r].form = f => r <= state[f].send
       /\ CASE state[f].status = "signing" -> s.at = "wallet"
            [] state[f].status = "pending" -> s.awaits = "receipt"
            [] state[f].status = "cancelled" -> s.at = "refused"
            [] state[f].status = "confirmed" -> s.at = "mined"
            [] state[f].status = "failed" -> s.toast = "error"
  /\ \A s \in DOMAIN sends : sends[s].toast = "success" => sends[s].at = "mined"

(* Permissions are asked for exactly (submit, on the delegation): whatever the
   order in which abandoned, repeated and closed tickets reach the chain, a
   permission that still stands is one ticket's, and that ticket's position has
   not been taken. *)
Taken(j) == \E s \in DOMAIN sends : sends[s].job = j /\ sends[s].call = "open" /\ sends[s].at = "mined"
StandingPermissionIsUnused ==
  /\ chain.token > 0 => \E j \in DOMAIN jobs : ~Taken(j) /\ chain.token <= jobs[j].own
  /\ chain.lend > 0 => \E j \in DOMAIN jobs : ~Taken(j) /\ chain.lend <= jobs[j].borrow

(* A retry waits its own eight seconds (useStalled's restartKey): the step that
   starts a send never leaves the way out of an earlier wait on offer. *)
RetryStartsFresh ==
  [][\A f \in Forms : attempt'[f] # attempt[f] => ~StopOffered(f)']_ticketVars

(* "signing" and "pending" have a door (TxStatus): a ticket that stays on screen
   stops waiting or offers to, though the wallet may never answer. *)
WaitsHaveADoor ==
  \A f \in Forms : (taking = f /\ Waiting(f)) ~> (~Waiting(f) \/ StopOffered(f) \/ taking # f)

(* A transaction the app began to wait for is announced, though its form has
   stopped waiting or left the page since (txToast before each live check). *)
WatchedSendIsAnnounced ==
  \A s \in 1..MaxSends :
    (s \in DOMAIN sends /\ sends[s].awaits = "receipt")
      ~> (s \in DOMAIN sends /\ sends[s].toast \in {"success", "error"})

(* What the comment above the toast calls says of every send (useTransaction):
   one the form stopped waiting for still lands on chain, and the toast is how
   anyone hears that it did. *)
MinedSendIsAnnounced ==
  \A s \in 1..MaxSends :
    (s \in DOMAIN sends /\ sends[s].at = "mined")
      ~> (s \in DOMAIN sends /\ sends[s].toast \in {"success", "error"})

=============================================================================
