----------------------------- MODULE MCWorkloads -----------------------------
(***************************************************************************)
(* The lifecycle of an attested workload in three settings of its bounds:  *)
(* one supervisor with every way of recovering an orphaned or quarantined  *)
(* workload; two supervisors that race, with reboots; and three            *)
(* generations that exit and are restarted by every verdict and class.     *)
(***************************************************************************)
EXTENDS WorkloadLifecycle, TLC

CONSTANTS Parts

VARIABLE part   \* the setting of this behaviour

Symmetry == Permutations(Sups)

Race == INSTANCE WorkloadLifecycle WITH
    MaxTime <- 3, MaxBoot <- 2, MaxRemotes <- 1, MaxFaults <- 2

Restarts == INSTANCE WorkloadLifecycle WITH
    MaxActs <- 3, MaxGrants <- 3, MaxRemotes <- 1, MaxFaults <- 0,
    Verdicts <- {"ALLOW", "CHANGED", "BLOCK"}, Classes <- {"CLEAN", "NONZERO"}, Reattest <- {}

\* At most one supervisor is at work.
OneSupervisor == \E s \in Sups : sup'[s] = Idle

SuiteInit == part \in Parts /\ Init

SuiteNext ==
  /\ UNCHANGED part
  /\ \/ part = "recovery" /\ Next /\ OneSupervisor
     \/ part = "race" /\ Race!Next
     \/ part = "restarts" /\ Restarts!Next /\ OneSupervisor

SuiteSpec == SuiteInit /\ [][SuiteNext]_<<part, vars>>
=============================================================================
