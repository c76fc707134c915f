----------------------------- MODULE MCProgress -----------------------------
(***************************************************************************)
(* What must eventually happen, on small instances: drains that end        *)
(* (NodeDrain), a watchdog that enforces an expiry (RuntimeTrust), and     *)
(* transfers, transitions and recoveries that complete when they are       *)
(* retried (HistoryTransfer, SuccessorGovernance, TaintRecovery). A        *)
(* behaviour moves one of them, and the fairness of each is that of its    *)
(* module.                                                                 *)
(***************************************************************************)
EXTENDS NodeDrain, TLC

CONSTANTS Parts, None, e1, e2, m1, m2, m3, w1, w2, w3, w4

VARIABLE part   \* the component this behaviour moves

MCMembers == "old" :> {w1, w2, w3} @@ "new" :> {w1, w2, w4}
MCThreshold == "old" :> 2 @@ "new" :> 2
MCPods == 1..2

\* RuntimeTrust.
VARIABLES x_now, x_boot, x_proc, x_ledger, x_lock, x_fence, x_capsule, x_remote,
          x_leases, x_apply, x_decision, x_observation, x_evidence, x_recon, x_contain,
          x_watchdog, x_answer, x_faults
expiryVars == <<x_now, x_boot, x_proc, x_ledger, x_lock, x_fence, x_capsule, x_remote,
                x_leases, x_apply, x_decision, x_observation, x_evidence, x_recon,
                x_contain, x_watchdog, x_answer, x_faults>>
Expiry == INSTANCE RuntimeTrust WITH
    MaxAge <- 2, TTL <- 2, MaxTime <- 3, MaxBoot <- 1, MaxGeneration <- 1,
    MaxLeases <- 2, MaxRevocation <- 1, MaxFaults <- 0, Moves <- {},
    Revokers <- {"watchdog"}, None <- None, now <- x_now, boot <- x_boot,
    proc <- x_proc, ledger <- x_ledger, lock <- x_lock, fence <- x_fence,
    capsule <- x_capsule, remote <- x_remote, leases <- x_leases, apply <- x_apply,
    decision <- x_decision, observation <- x_observation, evidence <- x_evidence,
    recon <- x_recon, contain <- x_contain, watchdog <- x_watchdog, answer <- x_answer,
    faults <- x_faults

\* HistoryTransfer.
VARIABLES h_local, h_witness, h_own, h_auths, h_call, h_xfer, h_answered, h_faults
transferVars == <<h_local, h_witness, h_own, h_auths, h_call, h_xfer, h_answered,
                  h_faults>>
Transfer == INSTANCE HistoryTransfer WITH
    Devices <- {"a", "b"}, Source <- "a", Members <- {m1, m2, m3}, Threshold <- 2,
    Operators <- {1}, None <- None, MaxHistory <- 2, MaxAuthorizations <- 1,
    MaxFaults <- 2, local <- h_local, witness <- h_witness, own <- h_own,
    auths <- h_auths, call <- h_call, xfer <- h_xfer, answered <- h_answered,
    faults <- h_faults

Unanimous == INSTANCE HistoryTransfer WITH
    Devices <- {"a", "b"}, Source <- "a", Members <- {m1, m2, m3}, Threshold <- 3,
    Operators <- {1}, None <- None, MaxHistory <- 1, MaxAuthorizations <- 2,
    MaxFaults <- 1, local <- h_local, witness <- h_witness, own <- h_own,
    auths <- h_auths, call <- h_call, xfer <- h_xfer, answered <- h_answered,
    faults <- h_faults

\* SuccessorGovernance.
VARIABLES g_wit, g_pc, g_loc, g_expired, g_frozen, g_completed, g_runs
transitionVars == <<g_wit, g_pc, g_loc, g_expired, g_frozen, g_completed, g_runs>>
Transition == INSTANCE SuccessorGovernance WITH
    Members <- MCMembers, Threshold <- MCThreshold, Rotations <- {"t1"},
    Executors <- {e1, e2}, MaxRuns <- 3, MayExpire <- FALSE,
    Provisioned <- TRUE, None <- None, wit <- g_wit, pc <- g_pc, loc <- g_loc,
    expired <- g_expired, frozen <- g_frozen, completed <- g_completed, runs <- g_runs

\* TaintRecovery.
VARIABLES r_path, r_moving, r_slipped, r_kern, r_boot, r_plans, r_auths, r_expired, r_ctl, r_acked,
          r_admitted, r_faults
recoveryVars == <<r_path, r_moving, r_slipped, r_kern, r_boot, r_plans, r_auths, r_expired, r_ctl,
                  r_acked, r_admitted, r_faults>>
Recovery == INSTANCE TaintRecovery WITH
    Controllers <- {1}, MaxInode <- 2, MaxDirty <- 1, MaxAuth <- 2, MaxBoot <- 1,
    MaxFaults <- 1, None <- None, path <- r_path, moving <- r_moving, slipped <- r_slipped,
    kern <- r_kern, boot <- r_boot, plans <- r_plans, auths <- r_auths,
    expired <- r_expired, ctl <- r_ctl, acked <- r_acked, admitted <- r_admitted,
    faults <- r_faults

SuiteVars == <<part, vars, expiryVars, transferVars, transitionVars, recoveryVars>>

SuiteInit ==
  /\ part \in Parts
  /\ Init
  /\ Expiry!Init
  /\ Transfer!Init
  /\ Transition!Init
  /\ Recovery!Init

SuiteNext ==
  /\ UNCHANGED part
  /\ \/ part = "drain" /\ Next /\ UNCHANGED <<expiryVars, transferVars, transitionVars, recoveryVars>>
     \/ part = "expiry" /\ Expiry!Next /\ UNCHANGED <<vars, transferVars, transitionVars, recoveryVars>>
     \/ part = "transfer" /\ Transfer!Next /\ UNCHANGED <<vars, expiryVars, transitionVars, recoveryVars>>
     \/ part = "unanimous" /\ Unanimous!Next /\ UNCHANGED <<vars, expiryVars, transitionVars, recoveryVars>>
     \/ part = "transition" /\ Transition!Next /\ UNCHANGED <<vars, expiryVars, transferVars, recoveryVars>>
     \/ part = "recovery" /\ Recovery!Next /\ UNCHANGED <<vars, expiryVars, transferVars, transitionVars>>
        /\ \A a \in r_auths' : a.signer = "pinned"   \* no call begins with another

SuiteSpec == SuiteInit /\ [][SuiteNext]_SuiteVars

\* The fairness of the modules' own FairSpec, for the component that moves.
SuiteFairness ==
  /\ \A e \in Executors : WF_vars(part = "drain" /\ Run(e))
  /\ WF_expiryVars(part = "expiry" /\ Expiry!Watchdog)
  /\ WF_expiryVars(part = "expiry" /\ Expiry!Tick)
  /\ \A d \in {"a", "b"} :
       WF_transferVars(\/ part = "transfer" /\ Transfer!Answer(d)
                       \/ part = "unanimous" /\ Unanimous!Answer(d))
  /\ WF_transferVars(\/ part = "transfer" /\ Transfer!Continue(1)
                     \/ part = "unanimous" /\ Unanimous!Continue(1))
  /\ \A i \in 1..2 :
       SF_transferVars(\/ part = "transfer" /\ Transfer!Retry(1, i)
                       \/ part = "unanimous" /\ Unanimous!Retry(1, i))
  /\ \A e \in {e1, e2} :
       /\ WF_transitionVars(part = "transition" /\ Transition!Step(e))
       /\ WF_transitionVars(part = "transition" /\ Transition!Stop(e))
       /\ WF_transitionVars(part = "transition" /\ Transition!Begin(e, "t1"))
  /\ WF_recoveryVars(part = "recovery" /\ (Recovery!ActivationStep(1) \/ Recovery!RecoveryStep(1)))
  /\ SF_recoveryVars(part = "recovery" /\ Recovery!Represent(1))

FairSuiteSpec == SuiteSpec /\ SuiteFairness

-----------------------------------------------------------------------------
\* The transfer or the transition has come to its end, or can never do so.
Concluded ==
  CASE part = "transfer" -> \A i \in DOMAIN h_auths : Transfer!Ended(i)
    [] part = "unanimous" -> \A i \in DOMAIN h_auths : Unanimous!Ended(i)
    [] part = "transition" -> "t1" \in g_completed \/ Transition!Stranded("t1")
    [] OTHER -> TRUE

\* Nobody waits for ever: a drain ends although a pod never terminates, and a
\* watchdog at work revokes the scope of an expired lease.
WorkEnds == RunsEnd /\ Expiry!ExpiryIsEnforced

\* What was interrupted completes when it is tried again: a transfer of the
\* history, a transition of the governance authority and the recovery of a cgroup.
\* A write that reached some witnesses only is the exception, where it leaves a
\* quorum split for good: of an activation or a freeze, and of a quiescence.
InterruptedCompletes ==
  /\ (h_auths # <<>> \/ part = "transition") ~> Concluded
  /\ [][/\ part = "transfer" => Transfer!BlockedForGood
        /\ part = "unanimous" => Unanimous!BlockedForGood]_transferVars
  /\ Transition!StrandedForGood
  /\ Recovery!InterruptedResumes
=============================================================================
