----------------------------- MODULE PullEscrow ------------------------------
(***************************************************************************)
(* What a round promises the people who stake in it, whatever its odds,    *)
(* its schedule and its oracle ("Claims are pull, not push",               *)
(* ParimutuelRound.sol:136): deposits go in while a round takes them, one  *)
(* decision fixes what every holder is due, and from then on the only      *)
(* thing that can happen to a holder is to be paid exactly that, once.     *)
(* The operator can take the fees a decision set aside and nothing else.   *)
(***************************************************************************)
EXTENDS Naturals

CONSTANTS Rounds, Holders

VARIABLES
  phase,        \* "idle", "taking", "sealed" or "settled"
  stake,        \* what each holder put in
  due,          \* what the decision gave each holder; 0 before it
  paid,         \* who has collected
  fees,         \* set aside by decisions and not yet taken
  held          \* tokens in the escrow

escrowVars == <<phase, stake, due, paid, fees, held>>

EscrowInit ==
  /\ phase = [r \in Rounds |-> "idle"]
  /\ stake = [r \in Rounds |-> [h \in Holders |-> 0]]
  /\ due = [r \in Rounds |-> [h \in Holders |-> 0]]
  /\ paid = [r \in Rounds |-> [h \in Holders |-> FALSE]]
  /\ fees = 0
  /\ held = 0

Schedule(r) ==
  /\ phase[r] = "idle"
  /\ phase' = [phase EXCEPT ![r] = "taking"]
  /\ UNCHANGED <<stake, due, paid, fees, held>>

Deposit(r, h) ==
  /\ phase[r] = "taking"
  /\ held' > held
  /\ stake' = [stake EXCEPT ![r][h] = @ + (held' - held)]
  /\ UNCHANGED <<phase, due, paid, fees>>

Seal(r) ==
  /\ phase[r] = "taking"
  /\ phase' = [phase EXCEPT ![r] = "sealed"]
  /\ UNCHANGED <<stake, due, paid, fees, held>>

\* A refund may skip the seal; a decision that takes a fee may not.
Settle(r) ==
  /\ phase[r] \in {"taking", "sealed"}
  /\ phase' = [phase EXCEPT ![r] = "settled"]
  /\ due' = [due EXCEPT ![r] = due'[r]]
  /\ \/ /\ due'[r] = stake[r]
        /\ UNCHANGED fees
     \/ /\ phase[r] = "sealed"
        /\ \A h \in Holders : due'[r][h] > 0 => stake[r][h] > 0
        /\ fees' >= fees
  /\ UNCHANGED <<stake, paid, held>>

Pay(r, h) ==
  /\ phase[r] = "settled"
  /\ due[r][h] > 0
  /\ ~paid[r][h]
  /\ paid' = [paid EXCEPT ![r][h] = TRUE]
  /\ held' = held - due[r][h]
  /\ UNCHANGED <<phase, stake, due, fees>>

TakeFees ==
  /\ fees' < fees
  /\ held' = held - (fees - fees')
  /\ UNCHANGED <<phase, stake, due, paid>>

EscrowNext ==
  \/ \E r \in Rounds :
       \/ Schedule(r) \/ Seal(r) \/ Settle(r)
       \/ \E h \in Holders : Deposit(r, h) \/ Pay(r, h)
  \/ TakeFees

EscrowSpec == EscrowInit /\ [][EscrowNext]_escrowVars
=============================================================================
