--------------------------- MODULE MCGuardedDrain ---------------------------
(***************************************************************************)
(* The guarded drain of a node and the Lease that excludes concurrent      *)
(* runs. ExecutionLease has the clock and the races of the Lease itself;   *)
(* NodeDrain takes the Lease's timing away and has everything a run does   *)
(* while it believes that it holds it. A behaviour moves one of the two    *)
(* and leaves the other in its initial state. The drain is moved by two    *)
(* executors with faults, by two with changes of the cluster, and by one   *)
(* with both.                                                              *)
(***************************************************************************)
EXTENDS ExecutionLease, TLC

CONSTANTS Parts, h1, h2

VARIABLE part   \* the component this behaviour moves

\* NodeDrain.
VARIABLES d_node, d_live, d_deleting, d_unborn, d_blocked, d_lease, d_ckpt, d_pc,
          d_auth, d_seen, d_ck, d_remaining, d_lost, d_runs, d_drift, d_faults,
          d_evicted, d_stale, d_lockless
drainVars == <<d_node, d_live, d_deleting, d_unborn, d_blocked, d_lease, d_ckpt, d_pc,
               d_auth, d_seen, d_ck, d_remaining, d_lost, d_runs, d_drift, d_faults,
               d_evicted, d_stale, d_lockless>>
Drain == INSTANCE NodeDrain WITH
    Executors <- {h1, h2}, Pods <- 1..3, Initial <- {1, 2}, MaxRuns <- 2, MaxDrift <- 1,
    MaxFaults <- 1, node <- d_node, live <- d_live, deleting <- d_deleting,
    unborn <- d_unborn, blocked <- d_blocked, lease <- d_lease, ckpt <- d_ckpt,
    pc <- d_pc, auth <- d_auth, seen <- d_seen, ck <- d_ck, remaining <- d_remaining,
    lost <- d_lost, runs <- d_runs, drift <- d_drift, faults <- d_faults,
    evicted <- d_evicted, stale <- d_stale, lockless <- d_lockless

SuiteVars == <<part, vars, drainVars>>

\* The drain by two executors and no fault, by two and no change of others, or by one.
DrainNext ==
  /\ part # "lease"
  /\ Drain!Next
  /\ part = "drift" => d_faults' = 0
  /\ part = "faults" => d_drift' = 0
  /\ part = "solo" => \E h \in {h1, h2} : d_auth'[h] = Drain!NoAuth

SuiteInit ==
  /\ part \in Parts
  /\ Init
  /\ Drain!Init

SuiteNext ==
  /\ UNCHANGED part
  /\ \/ part = "lease" /\ Next /\ UNCHANGED <<drainVars>>
     \/ DrainNext /\ UNCHANGED <<vars>>

SuiteSpec == SuiteInit /\ [][SuiteNext]_SuiteVars

MCHolders == {h1, h2}
MCSymmetry == Permutations(MCHolders)

-----------------------------------------------------------------------------
\* Only pods that the first authorization of the action named are ever evicted,
\* over every resume, takeover and change of the cluster; the pods the checkpoint
\* calls complete are gone, a drain it calls complete left none, and the cordon is
\* recorded before the node is.
DrainIsAsRecorded ==
  /\ Drain!TypeOK /\ Drain!EvictOnlyAuthorized
  /\ Drain!CompletedAreGone /\ Drain!CompletedMeansDrained /\ Drain!CordonRecordedFirst

\* A run that lost its Lease makes at most the one mutation it had already checked.
AtMostOneStaleMutation == Drain!AtMostOneStaleMutation

\* Recorded progress is never overwritten by a slower run.
ProgressNeverLost == Drain!ProgressNeverLost
=============================================================================
