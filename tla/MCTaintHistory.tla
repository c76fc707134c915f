--------------------------- MODULE MCTaintHistory ---------------------------
(***************************************************************************)
(* The history of taint receipts: the transfer of its ownership from one   *)
(* device to another (HistoryTransfer), and the anchor of its head in the  *)
(* TPM of a device (TPMHistoryAnchor). A behaviour moves one of them, in   *)
(* one setting of its bounds.                                              *)
(***************************************************************************)
EXTENDS HistoryTransfer, TLC

CONSTANTS Parts, a, b, c, c1, c2, r1, r2

VARIABLE part   \* the component this behaviour moves

Symmetry == Permutations(Operators)

\* TPMHistoryAnchor.
VARIABLES t_counter, t_nv, t_identity, t_files, t_store, t_call, t_told, t_accepted,
          t_backup, t_faults
anchorVars == <<t_counter, t_nv, t_identity, t_files, t_store, t_call, t_told,
                t_accepted, t_backup, t_faults>>
Anchor == INSTANCE TPMHistoryAnchor WITH
    Callers <- {c1, c2}, Receipts <- {r1, r2}, None <- None, Identities <- {1},
    Imports <- {}, MaxHistory <- 2, MaxGeneration <- 3, MaxFaults <- 1,
    counter <- t_counter, nv <- t_nv, identity <- t_identity, files <- t_files,
    store <- t_store, call <- t_call, told <- t_told, accepted <- t_accepted,
    backup <- t_backup, faults <- t_faults

SuiteVars == <<part, vars, anchorVars>>

Rivals == INSTANCE HistoryTransfer WITH MaxHistory <- 1, MaxAuthorizations <- 2, MaxFaults <- 1

\* Two operators run one authorization, or two with rival destinations.  The other
\* choices of the first destination are the same up to renaming.
TransferNext ==
  \/ part = "transfer" /\ Next /\ \A i \in DOMAIN auths' : auths'[i].dst = b
  \/ part = "rivals" /\ Rivals!Next /\ (auths = <<>> => \A i \in DOMAIN auths' : auths'[i].dst = b)

Restored == INSTANCE TPMHistoryAnchor WITH
    Callers <- {c1, c2}, Receipts <- {r1, r2}, None <- None, Identities <- {1, 2},
    Imports <- {<<r1, r2>>}, MaxHistory <- 3, MaxGeneration <- 3, MaxFaults <- 2,
    counter <- t_counter, nv <- t_nv, identity <- t_identity, files <- t_files,
    store <- t_store, call <- t_call, told <- t_told, accepted <- t_accepted,
    backup <- t_backup, faults <- t_faults

\* Two callers, or one whose volume is copied and restored and whose boot changes.
\* That r2 is the first receipt is the same up to renaming.
AnchorNext ==
  \/ part = "anchor" /\ Anchor!Next /\ (t_store.receipts = {} => t_store'.receipts \subseteq {<<r1>>})
  \/ part = "restored" /\ Restored!Next /\ t_call'[c2] = t_call[c2]

SuiteInit ==
  /\ part \in Parts
  /\ Init
  /\ Anchor!Init

SuiteNext ==
  /\ UNCHANGED part
  /\ \/ TransferNext /\ UNCHANGED <<anchorVars>>
     \/ AnchorNext /\ UNCHANGED <<vars>>

SuiteSpec == SuiteInit /\ [][SuiteNext]_SuiteVars

-----------------------------------------------------------------------------
\* Of rival authorizations at most one gets the history, a quorum for it means
\* that its destination holds what was authorized, although the transfer was
\* resumed or a split quorum was repaired; ownership never goes back, and what an
\* owned anchor answers extends all that any device's answered before.
TransferKeepsHistory ==
  /\ [](part = "transfer" => TypeOK)
  /\ [](ActiveIsPrepared /\ OneSuccessor)
  /\ AnsweredExtends /\ OwnershipForward

\* The TPM's head implements the head anchor of the interface; a history once
\* accepted is part of every later one, although the volume is restored or a step
\* between store, files, head and counter is interrupted; and an interruption
\* never costs the anchor.
AnchorKeepsHistory ==
  /\ Anchor!ImplementsHeadAnchor /\ Anchor!AcceptedExtends
  /\ [](part # "restored" => Anchor!TypeOK)
  /\ []Anchor!InterruptedIsRecoverable
=============================================================================
