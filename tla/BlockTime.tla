------------------------------ MODULE BlockTime ------------------------------
(***************************************************************************)
(* block.timestamp, the clock every contract of the protocol reads.  It    *)
(* belongs to the chain, not to the repository: what the contracts rely on *)
(* is that it never goes back.  Instants are the naturals 0..MaxTime; the  *)
(* unit is whatever the durations of a configuration are counted in.       *)
(***************************************************************************)
EXTENDS Naturals

CONSTANT MaxTime        \* bound: the last instant a behaviour reaches

ASSUME MaxTimeIsNat == MaxTime \in Nat

VARIABLE now            \* block.timestamp

Times == 0..MaxTime

\* Blocks are mined and the timestamp moves on.
Tick ==
  /\ now < MaxTime
  /\ now' = now + 1
=============================================================================
