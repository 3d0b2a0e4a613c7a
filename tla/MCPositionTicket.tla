------------------------- MODULE MCPositionTicket -------------------------
(* PositionTicket on a small instance: two tickets and three sends. A position
   on credit takes two of them, so the third can be another ticket's permission,
   mined after the position is taken. *)
EXTENDS PositionTicket

MCForms == {1,2}
MCDelegations == {[own |-> 0, borrow |-> 1]}
MCInputs == {[own |-> 1, borrow |-> 1]}
===========================================================================
