----------------------------- MODULE Transaction -----------------------------
(* One write of the web app, from the wallet prompt to the receipt
   (useTransaction), for every form on screen at once. A send keeps running
   after its form stopped waiting for it or left the page, so a form and its
   sends have separate state: live says which send a form still listens to.
   The wallet and the chain behind it answer in any order, or never. *)
EXTENDS Naturals, Sequences

CONSTANTS Forms,     \* mounted instances of useTransaction
          MaxSends,  \* bound: requests handed to the wallet
          MaxStops   \* bound: times a form stops waiting or is reset

ASSUME SendBounds == MaxSends \in Nat /\ MaxStops \in Nat

VARIABLES state,    \* what each form shows: idle, signing, pending, confirmed, cancelled or failed,
          \* and the send it is about
          live,     \* the ref: the send number the form listens to
          attempt,  \* bumped per send, the restart key of the stall timer
          stalled,  \* the attempt each of the form's two timers fired for, 0 when none
          sends,    \* every request so far, with what became of it
          stops     \* stops and resets so far, for the bound alone

txVars == <<state, live, attempt, stalled, sends, stops>>

TxInit ==
  /\ state = [f \in Forms |-> [status |-> "idle", send |-> 0]]
  /\ live = [f \in Forms |-> 0]
  /\ attempt = [f \in Forms |-> 0]
  /\ stalled = [f \in Forms |-> [w \in {"signing", "pending"} |-> 0]]
  /\ sends = <<>>
  /\ stops = 0

\* Mutant: a verdict outlives the attempt it was reached on.
StallsForever(active, firedFor, restartKey) == active /\ firedFor > 0

\* useStalled: a verdict holds for the attempt it was reached on, not for a later one.
IsStalled(active, firedFor, restartKey) == active /\ firedFor = restartKey

Waiting(f) == state[f].status \in {"signing", "pending"}

\* Mutant: no way out of the wallet prompt.
DoorOncePendingOnly(f) ==
  IsStalled(state[f].status = "pending", stalled[f]["pending"], attempt[f])

\* TxStatus: the way out of a wait, offered once the wait is unusually long.
StopOffered(f) ==
  \E w \in {"signing", "pending"} : IsStalled(state[f].status = w, stalled[f][w], attempt[f])

\* The check before each write of the form's state.
IsLive(s) == live[sends[s].form] = sends[s].mine

Shows(f, status, s) == [state EXCEPT ![f] = [status |-> status, send |-> s]]

\* Mutant: a settled send writes its form whatever the form listens to.
ShowsWhateverSettles(s, status) == Shows(sends[s].form, status, s)

\* The state a settled send leaves behind, if its form still listens to it.
ShowsIfLive(s, status) ==
  IF IsLive(s) THEN Shows(sends[s].form, status, s) ELSE state

\* send, up to the wallet prompt.
Send(f, job, call) ==
  /\ Len(sends) < MaxSends
  /\ live' = [live EXCEPT ![f] = @ + 1]
  /\ attempt' = [attempt EXCEPT ![f] = @ + 1]
  /\ sends' = Append(sends, [form |-> f, job |-> job, call |-> call, mine |-> live[f] + 1,
                             at |-> "wallet", awaits |-> "signature",
                             toast |-> "none", ok |-> FALSE])
  /\ state' = Shows(f, "signing", Len(sends) + 1)
  /\ UNCHANGED <<stalled, stops>>

\* The wallet returns a hash: the toast first, then the check, then the wait.
Signed(s) ==
  /\ sends[s].at = "wallet"
  /\ sends' = [sends EXCEPT ![s].at = "chain", ![s].toast = "loading",
                            ![s].awaits = IF IsLive(s) THEN "receipt" ELSE "nothing"]
  /\ state' = ShowsIfLive(s, "pending")
  /\ UNCHANGED <<live, attempt, stalled, stops>>

\* The prompt was dismissed, or the wallet failed before sending anything.
Refused(s, dismissed) ==
  /\ sends[s].at = "wallet"
  /\ sends' = [sends EXCEPT ![s].at = "refused", ![s].awaits = "nothing",
                            ![s].toast = IF dismissed THEN "none" ELSE "error"]
  /\ state' = ShowsIfLive(s, IF dismissed THEN "cancelled" ELSE "failed")
  /\ UNCHANGED <<live, attempt, stalled, stops>>

\* Mutant: the check comes before the toast.
ReceiptHeardIfLive(s) ==
  LET mined == sends[s].at = "mined" IN
  /\ sends[s].awaits = "receipt"
  /\ sends[s].at \in {"mined", "reverted"}
  /\ sends' = [sends EXCEPT ![s].awaits = "nothing",
                            ![s].toast = IF ~IsLive(s) THEN @ ELSE IF mined THEN "success" ELSE "error",
                            ![s].ok = mined /\ IsLive(s)]
  /\ state' = ShowsIfLive(s, IF mined THEN "confirmed" ELSE "failed")
  /\ UNCHANGED <<live, attempt, stalled, stops>>

\* A receipt arrives: its toast comes before the check, so a form that stopped
\* waiting still hears; only a live success lets the caller carry on.
Receipt(s) ==
  LET mined == sends[s].at = "mined" IN
  /\ sends[s].awaits = "receipt"
  /\ sends[s].at \in {"mined", "reverted"}
  /\ sends' = [sends EXCEPT ![s].awaits = "nothing",
                            ![s].toast = IF mined THEN "success" ELSE "error",
                            ![s].ok = mined /\ IsLive(s)]
  /\ state' = ShowsIfLive(s, IF mined THEN "confirmed" ELSE "failed")
  /\ UNCHANGED <<live, attempt, stalled, stops>>

\* The wait for the receipt throws: no client, or a node that cannot find it.
Unread(s) ==
  /\ sends[s].awaits = "receipt"
  /\ sends' = [sends EXCEPT ![s].awaits = "nothing", ![s].toast = "error"]
  /\ state' = ShowsIfLive(s, "failed")
  /\ UNCHANGED <<live, attempt, stalled, stops>>

\* stopWaiting and reset: leave the send behind and go back to idle. Neither
\* cancels anything. A ticket has only stopWaiting.
Abandon(f) ==
  /\ stops < MaxStops
  /\ stops' = stops + 1
  /\ live' = [live EXCEPT ![f] = @ + 1]
  /\ state' = Shows(f, "idle", 0)
  /\ UNCHANGED <<attempt, stalled, sends>>

stopWaiting(f) == StopOffered(f) /\ Abandon(f)

\* The timer of useStalled: each wait has one, it runs for this attempt alone.
Stalls(f) ==
  /\ Waiting(f)
  /\ ~StopOffered(f)
  /\ stalled' = [stalled EXCEPT ![f][state[f].status] = attempt[f]]
  /\ UNCHANGED <<state, live, attempt, sends, stops>>

=============================================================================
