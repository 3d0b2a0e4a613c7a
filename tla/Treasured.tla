------------------------------ MODULE Treasured ------------------------------
(***************************************************************************)
(* Treasured.sol: the one address protocol earnings are withdrawn to.  It  *)
(* starts as the owner and is never the zero address.                      *)
(***************************************************************************)
CONSTANTS
  Treasuries,           \* addresses the owner may name
  Owner                 \* initialOwner, the first treasury

ASSUME OwnerIsATreasury == Owner \in Treasuries

VARIABLE treasury

TreasuryInit == treasury = Owner

\* onlyOwner.  The zero address is not a member of Treasuries.
setTreasury(to) == treasury' = to
=============================================================================
