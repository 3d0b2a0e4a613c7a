-------------------------------- MODULE Erc20 --------------------------------
(***************************************************************************)
(* The token a contract takes custody of, as the contracts use it: a plain *)
(* ERC-20 that credits exactly the amount sent (ParimutuelRound.sol:99     *)
(* "What the stake asset is assumed to be").  SafeERC20 turns a transfer   *)
(* that fails into a revert, so a transfer the payer cannot cover disables *)
(* the action that makes it.                                               *)
(***************************************************************************)
EXTENDS Naturals

CONSTANT Accounts       \* every address that can hold the token

VARIABLE balance        \* balanceOf, account by account

CanTransfer(from, amount) == balance[from] >= amount

Transfer(from, to, amount) ==
  /\ CanTransfer(from, amount)
  /\ balance' = [balance EXCEPT ![from] = @ - amount, ![to] = @ + amount]
=============================================================================
