---------------------------- MODULE EntryPausable ----------------------------
(***************************************************************************)
(* EntryPausable.sol: the switch that refuses new value and nothing else.  *)
(* A contract that inherits it guards its entries with whenEntriesOpen;    *)
(* exits never read the switch.                                            *)
(***************************************************************************)
CONSTANTS
  Guardians,            \* addresses the role can be handed to
  ZeroAddress           \* address(0); as a guardian it means nobody may pause

ASSUME NobodyIsAGuardian == ZeroAddress \notin Guardians

VARIABLES
  entriesPaused,
  pauseGuardian

pauseVars == <<entriesPaused, pauseGuardian>>

\* While entries are paused the role is somebody's.
PauseTypeOK ==
  /\ entriesPaused \in BOOLEAN
  /\ pauseGuardian \in Guardians \cup (IF entriesPaused THEN {} ELSE {ZeroAddress})

PauseInit ==
  /\ entriesPaused = FALSE
  /\ pauseGuardian \in Guardians \cup {ZeroAddress}

whenEntriesOpen == ~entriesPaused

\* onlyPauseGuardian: msg.sender is a real address, so nobody calls as ZeroAddress.
onlyPauseGuardian == pauseGuardian # ZeroAddress

pauseEntries ==
  /\ onlyPauseGuardian
  /\ entriesPaused' = TRUE
  /\ UNCHANGED pauseGuardian

unpauseEntries ==
  /\ onlyPauseGuardian
  /\ entriesPaused' = FALSE
  /\ UNCHANGED pauseGuardian

\* Mutant: the role may be renounced in the middle of a pause.
RenounceAnyTime(to) == TRUE

MayHandTo(to) == ~(to = ZeroAddress /\ entriesPaused)

transferPauseGuardian(to) ==
  /\ onlyPauseGuardian
  /\ MayHandTo(to)
  /\ pauseGuardian' = to
  /\ UNCHANGED entriesPaused

PauseNext ==
  \/ pauseEntries
  \/ unpauseEntries
  \/ \E to \in Guardians \cup {ZeroAddress} : transferPauseGuardian(to)

(***************************************************************************)
(* A pause can always be lifted: while entries are refused somebody holds  *)
(* the role that can accept them again (transferPauseGuardian refuses to   *)
(* renounce it mid-pause).                                                 *)
(***************************************************************************)
PauseIsLiftable == entriesPaused => pauseGuardian # ZeroAddress
=============================================================================
