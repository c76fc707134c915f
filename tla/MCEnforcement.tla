--------------------------- MODULE MCEnforcement ----------------------------
(***************************************************************************)
(* Enforcement on a workload that runs: the leases of runtime trust with   *)
(* the containment and the watchdog that revoke the kernel scope           *)
(* (RuntimeTrust), the fence and the capsules that the kernel's connect    *)
(* hook reads (KernelFence), and the account of the evidence stream        *)
(* (KernelEvidence). A behaviour moves one of them, in one setting of its  *)
(* bounds.                                                                 *)
(***************************************************************************)
EXTENDS RuntimeTrust, TLC

CONSTANTS Parts

VARIABLE part   \* the component this behaviour moves

\* KernelFence.
VARIABLES k_mono, k_boot, k_fence, k_capsules, k_decisions, k_inst, k_rev, k_conn,
          k_live, k_dead
kernelVars == <<k_mono, k_boot, k_fence, k_capsules, k_decisions, k_inst, k_rev, k_conn,
                k_live, k_dead>>
Kernel == INSTANCE KernelFence WITH
    Installers <- {"i1"}, Revokers <- {"r1", "r2"}, MaxDecision <- 2,
    MaxRevocation <- 2, MaxTime <- 1, MaxLifetime <- 1, MaxBoot <- 1, None <- None,
    mono <- k_mono, boot <- k_boot, fence <- k_fence, capsules <- k_capsules,
    decisions <- k_decisions, inst <- k_inst, rev <- k_rev, conn <- k_conn,
    live <- k_live, dead <- k_dead

\* KernelEvidence.
VARIABLES e_acct, e_ring, e_cpu, e_tracker, e_call, e_answer, e_calls, e_lost, e_got,
          e_absorbed, e_told
streamVars == <<e_acct, e_ring, e_cpu, e_tracker, e_call, e_answer, e_calls, e_lost,
                e_got, e_absorbed, e_told>>
Stream == INSTANCE KernelEvidence WITH
    CPUs <- {"c1", "c2"}, Capacity <- 2, MaxSequence <- 4, MaxCalls <- 4, None <- None,
    acct <- e_acct, ring <- e_ring, cpu <- e_cpu, tracker <- e_tracker, call <- e_call,
    answer <- e_answer, calls <- e_calls, lost <- e_lost, got <- e_got,
    absorbed <- e_absorbed, told <- e_told

SuiteVars == <<part, vars, kernelVars, streamVars>>

Renewal == INSTANCE RuntimeTrust WITH
    MaxTime <- 4, MaxLeases <- 3, MaxFaults <- 0, Moves <- {}, Revokers <- {"watchdog"}

Restart == INSTANCE RuntimeTrust WITH
    MaxBoot <- 2, MaxGeneration <- 2, MaxLeases <- 2, MaxFaults <- 0, Moves <- {},
    Revokers <- {"watchdog"}

TrustNext ==
  \/ part = "containment" /\ Next
  \/ part = "renewal" /\ Renewal!Next
  \/ part = "restart" /\ Restart!Next

Connect == INSTANCE KernelFence WITH
    Installers <- {"i1"}, Revokers <- {"r1"}, MaxDecision <- 2, MaxRevocation <- 1, MaxTime <- 3,
    MaxLifetime <- 1, MaxBoot <- 2, mono <- k_mono, boot <- k_boot, fence <- k_fence,
    capsules <- k_capsules, decisions <- k_decisions, inst <- k_inst, rev <- k_rev,
    conn <- k_conn, live <- k_live, dead <- k_dead

\* Two revocations race an installation, or one does with time and reboots.
KernelNext ==
  \/ part = "fence" /\ Kernel!Next
  \/ part = "connect" /\ Connect!Next

\* Two CPUs, or one alone.
StreamNext ==
  \/ part = "stream" /\ Stream!Next
  \/ part = "one cpu" /\ Stream!Next /\ e_cpu'["c2"] = e_cpu["c2"]

SuiteInit ==
  /\ part \in Parts
  /\ Init
  /\ Kernel!Init
  /\ Stream!Init

SuiteNext ==
  /\ UNCHANGED part
  /\ \/ TrustNext /\ UNCHANGED <<kernelVars, streamVars>>
     \/ KernelNext /\ UNCHANGED <<vars, streamVars>>
     \/ StreamNext /\ UNCHANGED <<vars, kernelVars>>

SuiteSpec == SuiteInit /\ [][SuiteNext]_SuiteVars

-----------------------------------------------------------------------------
\* A connect is allowed only by a capsule that nothing had invalidated, within its
\* lease; and an invalidated capsule is never valid again, although a revocation
\* writes back a fence it read before a newer decision.
KernelAllowsCurrent ==
  /\ part = "fence" => Kernel!TypeOK
  /\ Kernel!InvalidatedStaysInvalid
  /\ Kernel!AllowedIsCurrent

\* An INTACT assessment covers the whole stream, and on one CPU a sequence gap is
\* counted only for a loss.
EvidenceIsAccounted ==
  /\ Stream!IntactIsComplete
  /\ [](Stream!TypeOK /\ (part = "one cpu" => Stream!GapMeansLoss))
=============================================================================
