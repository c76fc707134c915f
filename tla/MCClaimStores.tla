--------------------------- MODULE MCClaimStores ----------------------------
(***************************************************************************)
(* The two stores of execution claims, ConfigMaps and files, each keeping  *)
(* the record of one authorization. They share no state: a behaviour moves *)
(* one of them and leaves the other in its initial state.                  *)
(***************************************************************************)
EXTENDS KubernetesReplayGuard, TLC

CONSTANTS Parts

VARIABLE part   \* the component this behaviour moves

\* FileReplayGuard.
VARIABLES f_cur, f_old, f_synced, f_pc, f_goal, f_calls, f_powerLosses, f_granted,
          f_acked, f_persisted, f_since, f_observed
fileVars == <<f_cur, f_old, f_synced, f_pc, f_goal, f_calls, f_powerLosses, f_granted,
              f_acked, f_persisted, f_since, f_observed>>
File == INSTANCE FileReplayGuard WITH
    Callers <- Callers, Details <- Details, NoDetail <- NoDetail, MaxCalls <- 4,
    MaxPowerLosses <- 1, cur <- f_cur, old <- f_old, synced <- f_synced, pc <- f_pc,
    goal <- f_goal, calls <- f_calls, powerLosses <- f_powerLosses,
    granted <- f_granted, acked <- f_acked, persisted <- f_persisted, since <- f_since,
    observed <- f_observed

SuiteVars == <<part, vars, fileVars>>

SuiteInit ==
  /\ part \in Parts
  /\ Init /\ (part # "kubernetes" => cm.state = "NONE")
  /\ File!Init

SuiteNext ==
  /\ UNCHANGED part
  /\ \/ part = "kubernetes" /\ Next /\ UNCHANGED <<fileVars>>
     \/ part = "file" /\ File!Next /\ UNCHANGED <<vars>>

SuiteSpec == SuiteInit /\ [][SuiteNext]_SuiteVars

Symmetry == Permutations(Callers) \cup Permutations(Details)

-----------------------------------------------------------------------------
\* Claim returns nil at most once, also across crashes and power failures, and
\* what a power failure can leave behind is never claimable again; the final
\* record that a Consume or Abort wrote and acknowledged survives it too.  A State
\* call begun after the grant never reports the capability as unclaimed or unknown
\* and, while the machine stays up, what a Consume or Abort was told is the record.
FileGrantsAreDurable ==
  /\ File!TypeOK /\ File!ClaimAtMostOnce
  /\ File!GrantSurvivesPowerLoss /\ File!PersistedSurvivesPowerLoss
  /\ File!StateIsConservative /\ File!AcknowledgedIsRecord

\* The file guard implements the claim lifecycle: every step that is not a power
\* failure is one of its steps, before and after such failures, and a final record
\* is never written again.
FileImplementsLifecycle == File!ImplementsLifecycle /\ File!FinalIsFinal
=============================================================================
