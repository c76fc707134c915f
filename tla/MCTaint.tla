------------------------------ MODULE MCTaint -------------------------------
(***************************************************************************)
(* Taint from the read to the connect: the labels that the kernel hooks    *)
(* propagate through processes and files (TaintPropagation), and the       *)
(* controller that takes a cgroup out of the denied state after its source *)
(* moved (TaintRecovery). A behaviour moves one of them, in one setting of *)
(* its bounds.                                                             *)
(***************************************************************************)
EXTENDS TaintPropagation, TLC

CONSTANTS Parts, t1, t2, p1, p2, f1, f2, lx, ly

VARIABLE part   \* the component this behaviour moves

\* Two enrolled files with different labels, one of them admitted; both are also
\* written.
Pair == (t1 :> p1) @@ (t2 :> p2)
Sources == (f1 :> {lx}) @@ (f2 :> {ly})
JustY == {ly}

\* TaintRecovery.
VARIABLES r_path, r_moving, r_slipped, r_kern, r_boot, r_plans, r_auths, r_expired, r_ctl, r_acked,
          r_admitted, r_faults
recoveryVars == <<r_path, r_moving, r_slipped, r_kern, r_boot, r_plans, r_auths, r_expired, r_ctl,
                  r_acked, r_admitted, r_faults>>
Recovery == INSTANCE TaintRecovery WITH
    Controllers <- {"c1"}, MaxInode <- 2, MaxDirty <- 2, MaxAuth <- 2, MaxBoot <- 1,
    MaxFaults <- 1, None <- None, path <- r_path, moving <- r_moving, slipped <- r_slipped,
    kern <- r_kern, boot <- r_boot, plans <- r_plans, auths <- r_auths,
    expired <- r_expired, ctl <- r_ctl, acked <- r_acked, admitted <- r_admitted,
    faults <- r_faults

SuiteVars == <<part, vars, recoveryVars>>

Readers == INSTANCE TaintPropagation WITH Capacity <- 1, Overlap <- TRUE, MaxFaults <- 0

\* Hooks one after another, or hooks that overlap and a map that fills up.
FlowNext ==
  \/ part = "flow" /\ Next
  \/ part = "readers" /\ Readers!Next

Rebooted == INSTANCE TaintRecovery WITH
    Controllers <- {"c1"}, MaxInode <- 2, MaxDirty <- 1, MaxAuth <- 2, MaxBoot <- 2,
    MaxFaults <- 0, None <- None, path <- r_path, moving <- r_moving, slipped <- r_slipped,
    kern <- r_kern, boot <- r_boot, plans <- r_plans, auths <- r_auths,
    expired <- r_expired, ctl <- r_ctl, acked <- r_acked, admitted <- r_admitted,
    faults <- r_faults

RecoveryNext ==
  \/ part = "recovery" /\ Recovery!Next
  \/ part = "reboot" /\ Rebooted!Next

SuiteInit ==
  /\ part \in Parts
  /\ Init /\ born = {p1}   \* the other choice is the same up to renaming
  /\ Recovery!Init

SuiteNext ==
  /\ UNCHANGED part
  /\ \/ FlowNext /\ UNCHANGED <<recoveryVars>>
     \/ RecoveryNext /\ UNCHANGED <<vars>>

SuiteSpec == SuiteInit /\ [][SuiteNext]_SuiteVars

-----------------------------------------------------------------------------
\* A cgroup has egress only while the file at its source path is enrolled, unless
\* that file came by a rename or mount already past its hook when the controller
\* last observed the sources; and only on an authorization of this boot for exactly
\* that generation; an acknowledged one never succeeds again.
EgressIsRecovered ==
  /\ part \in {"recovery", "flow", "readers"} => Recovery!TypeOK
  /\ Recovery!EgressIsTracked /\ Recovery!EgressIsAuthorized /\ Recovery!AcknowledgedOnce

\* When hooks do not overlap, labels follow the data through any chain of
\* processes and files, and none is ever lost; no epoch falls, and a commitment
\* that an invalidation has overtaken is never cleared before a reboot.
TaintNeverSlips ==
  /\ [](part = "flow" => LabelsFollowData)
  /\ PropagationMonotonic /\ Rebooted!EpochMonotonic /\ Rebooted!AbandonedStaysDenied
=============================================================================
