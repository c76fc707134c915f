---------------------------- MODULE RuntimeTrust ----------------------------
(***************************************************************************)
(* Runtime trust of one running workload (internal/kernelfabric/           *)
(* runtime_trust*.go and the aegis-runtime-trust-* commands): leases that  *)
(* the lifecycle authority issues on remote attestation decisions, their   *)
(* application to the locked lifecycle ledger with a deadline on the boot  *)
(* clock, the evaluation that revokes trust, the containment that revokes  *)
(* the kernel scope, the watchdog that does so when the lease expires, and *)
(* the reconciliation of the ledger.                                       *)
(*                                                                         *)
(* Every command hands a signed artifact to the next one as a file: one    *)
(* decision, one observation, one expiry evidence and one reconciliation,  *)
(* each as old as its last writer.  A digest is the artifact itself.  The  *)
(* lifecycle epoch, the activation and the process identity of a           *)
(* generation are its number.  The wall clock and the boot clock advance   *)
(* together; a reboot changes the boot id.                                 *)
(***************************************************************************)
EXTENDS Naturals, FiniteSets

CONSTANTS
    MaxAge, TTL,      \* the policy: attestation age and lease lifetime
    MaxTime, MaxBoot, MaxGeneration, MaxLeases, MaxRevocation,  \* bounds
    MaxFaults,        \* bound: failing calls of bpftool
    Moves,            \* what a process may do besides exiting: "reused", "moved"
    Revokers,         \* the revoking processes of an instance: "contain", "watchdog"
    None

\* A signed lease.
Lease == [epoch : Nat \ {0}, gen : Nat, remote : Nat, issued : Nat, expires : Nat]

ASSUME TrustAssumption ==
    /\ None \notin Lease /\ {MaxAge, TTL} \subseteq Nat \ {0} /\ Moves \subseteq {"reused", "moved"}
    /\ Revokers \subseteq {"contain", "watchdog"}
    /\ {MaxTime, MaxBoot, MaxGeneration, MaxLeases, MaxRevocation, MaxFaults} \subseteq Nat

VARIABLES
    now, boot,
    proc,         \* the process of the generation
    ledger,       \* the lifecycle state: state, generation, trust fields
    lock,         \* TRUE while the watchdog holds the lifecycle lock
    fence,        \* revocation epoch of the scope's fence
    capsule,      \* revocation epoch of the installed capsule
    remote,       \* the last remote attestation decision
    leases,       \* the signed leases
    apply,        \* an application of a lease before it takes the lock
    decision, observation, evidence, recon,   \* the artifact files
    contain, watchdog,                        \* the two processes that revoke
    answer,       \* the answer of the last reconciliation apply
    faults

vars == <<now, boot, proc, ledger, lock, fence, capsule, remote, leases, apply, decision,
          observation, evidence, recon, contain, watchdog, answer, faults>>
clock == <<now, boot>>
kernel == <<fence, capsule>>
artifacts == <<remote, leases, decision, observation, evidence, recon>>
Off == [pc |-> "off"]
Stopped == [pc |-> "stopped"]
NoTrust == [epoch |-> 0, lease |-> None, boot |-> 0, installed |-> 0, deadline |-> 0]

-----------------------------------------------------------------------------
\* ValidateWorkloadLifecycleState, the part on the trust fields.
ValidateTrust(s) ==
    IF s.trust.epoch = 0
    THEN s.trust = NoTrust
    ELSE /\ s.state = "RUNNING" /\ s.trust.lease # None /\ s.trust.boot # 0
         /\ s.trust.installed # 0 /\ s.trust.deadline > s.trust.installed

\* ValidateRuntimeTrustLease at a time.
ValidateRuntimeTrustLease(l, t) == l.expires > l.issued /\ t < l.expires /\ l.issued <= t

\* ValidateRuntimeTrustDecision and ValidateRuntimeTrustExpiryEvidence, which
\* signing and verifying both call.
ValidateRuntimeTrustDecision(d) ==
    d.lease.epoch > 0 /\ d.outcome \in {"KEEP_RUNNING", "RENEW_REQUIRED", "REVOKE"}

ValidateRuntimeTrustExpiryEvidence(e) ==
    /\ e.trust.epoch > 0 /\ e.trust.deadline > e.trust.installed /\ e.at >= e.trust.deadline
    /\ e.revocation > 0 /\ e.process \in {"running", "gone", "reused", "moved"}

\* The lease is the ledger's current one.
Current(l) ==
    /\ ledger.trust.epoch = l.epoch /\ ledger.trust.lease = l /\ ledger.gen = l.gen

-----------------------------------------------------------------------------
(* The remote verifier and the lifecycle authority.                        *)

\* A new remote decision, signed now; two decisions differ in their time.
RemoteDecision(v) ==
    /\ remote # None => now > remote.at
    /\ remote' = [at |-> now, verdict |-> v]
    /\ UNCHANGED <<clock, proc, ledger, lock, kernel, leases, apply, decision, observation, evidence,
                   recon, contain, watchdog, answer, faults>>

\* The attestation deadline caps the lease.
LeaseExpiry(r) == IF now + TTL > r.at + MaxAge THEN r.at + MaxAge ELSE now + TTL

\* A renewal rests on the ledger's current lease, still valid, and on a newer
\* remote decision.
Renewable(prev, r) ==
    /\ ValidateRuntimeTrustLease(prev, now) /\ Current(prev)
    /\ r.at > prev.remote

\* IssueRuntimeTrustLease reads the ledger under the lock and signs without it.
IssueRuntimeTrustLease(prev) ==
    /\ ~lock /\ ledger.state = "RUNNING" /\ remote # None
    /\ remote.verdict = "ALLOW" /\ now < remote.at + MaxAge
    /\ IF prev = None THEN ledger.trust.epoch = 0 ELSE Renewable(prev, remote)
    /\ leases' = leases \cup {[epoch |-> IF prev = None THEN 1 ELSE prev.epoch + 1, gen |-> ledger.gen,
                               remote |-> remote.at, issued |-> now, expires |-> LeaseExpiry(remote)]}

RuntimeTrustIssue ==
    /\ Cardinality(leases) < MaxLeases
    /\ \E prev \in leases \cup {None} : IssueRuntimeTrustLease(prev)
    /\ UNCHANGED <<clock, proc, ledger, lock, kernel, remote, apply, decision, observation, evidence,
                   recon, contain, watchdog, answer, faults>>

\* EvaluateRuntimeTrust: the outcome for a current lease, with or without a
\* remote decision.
TrustOutcome(l, r) ==
    IF r # None /\ r.verdict # "ALLOW" THEN "REVOKE"
    ELSE IF ~ValidateRuntimeTrustLease(l, now) THEN "REVOKE"
    ELSE IF r # None /\ r.at > l.remote THEN "RENEW_REQUIRED"
    ELSE "KEEP_RUNNING"

EvaluateRuntimeTrust(l, r) ==
    /\ ~lock /\ ledger.state = "RUNNING" /\ ledger.trust.epoch # 0 /\ Current(l)
    /\ r # None => r.at >= l.remote
    /\ decision' = [gen |-> ledger.gen, lease |-> l, outcome |-> TrustOutcome(l, r), at |-> now]
    /\ ValidateRuntimeTrustDecision(decision')

RuntimeTrustEvaluate ==
    /\ \E l \in leases, r \in {None, remote} : EvaluateRuntimeTrust(l, r)
    /\ UNCHANGED <<clock, proc, ledger, lock, kernel, remote, leases, apply, observation, evidence,
                   recon, contain, watchdog, answer, faults>>

-----------------------------------------------------------------------------
(* ApplyRuntimeTrustLease.                                                 *)

\* The lease is verified and the clock captured before the lock is taken.
ApplyVerify ==
    /\ apply = Off
    /\ \E l \in leases : ValidateRuntimeTrustLease(l, now)
                         /\ apply' = [pc |-> "lock", lease |-> l, boot |-> boot]
    /\ UNCHANGED <<clock, proc, ledger, lock, kernel, artifacts, contain, watchdog, answer, faults>>

\* BindExternalLease on the clock that AdvanceClockSnapshot brings up to date.
Binding(l) == [epoch |-> l.epoch, lease |-> l, boot |-> boot, installed |-> now, deadline |-> l.expires]
ClockAdvances(a) == a.boot = boot /\ now < a.lease.expires

\* A renewal must come before the deadline of the lease it replaces, on the same
\* boot.
InTime(t) == t.epoch # 0 => t.boot = boot /\ now < t.deadline

\* Mutant: any lease after the current one is taken.
ApplyAnyEpoch ==
    /\ apply.pc = "lock" /\ ~lock /\ apply' = Off
    /\ IF /\ ClockAdvances(apply) /\ ledger.state = "RUNNING" /\ ledger.gen = apply.lease.gen
          /\ InTime(ledger.trust)
       THEN ledger' = [ledger EXCEPT !.trust = Binding(apply.lease)]
       ELSE UNCHANGED ledger
    /\ UNCHANGED <<clock, proc, lock, kernel, artifacts, contain, watchdog, answer, faults>>

\* The write under the lock.
ApplyRuntimeTrustLease ==
    /\ apply.pc = "lock" /\ ~lock /\ apply' = Off
    /\ IF /\ ClockAdvances(apply) /\ ledger.state = "RUNNING" /\ ledger.gen = apply.lease.gen
          /\ apply.lease.epoch = ledger.trust.epoch + 1 /\ InTime(ledger.trust)
       THEN ledger' = [ledger EXCEPT !.trust = Binding(apply.lease)]
       ELSE UNCHANGED ledger
    /\ UNCHANGED <<clock, proc, lock, kernel, artifacts, contain, watchdog, answer, faults>>

-----------------------------------------------------------------------------
(* ContainRuntimeTrustRevocation.                                          *)

\* The command reads the ledger and checks the decision against that copy.
ContainStart ==
    /\ "contain" \in Revokers /\ contain = Off /\ ~lock /\ decision # None
    /\ ledger.state = "RUNNING" /\ ValidateRuntimeTrustDecision(decision) /\ decision.outcome = "REVOKE"
    /\ decision.gen = ledger.gen /\ Current(decision.lease)
    /\ contain' = [pc |-> "get", decision |-> decision, at |-> now, fence |-> 0]
    /\ UNCHANGED <<clock, proc, ledger, lock, kernel, artifacts, apply, watchdog, answer, faults>>

\* A failing bpftool ends the command.
ContainGet ==
    /\ contain.pc = "get"
    /\ \/ fence < MaxRevocation /\ contain' = [contain EXCEPT !.pc = "put", !.fence = fence]
          /\ UNCHANGED faults
       \/ faults < MaxFaults /\ faults' = faults + 1 /\ contain' = Off
    /\ UNCHANGED <<clock, proc, ledger, lock, kernel, artifacts, apply, watchdog, answer>>

ContainPut ==
    /\ contain.pc = "put"
    /\ \/ /\ fence' = contain.fence + 1 /\ contain' = [contain EXCEPT !.pc = "observe"]
          /\ UNCHANGED faults
       \/ faults < MaxFaults /\ faults' = faults + 1 /\ contain' = Off /\ UNCHANGED fence
    /\ UNCHANGED <<clock, proc, ledger, lock, capsule, artifacts, apply, watchdog, answer>>

\* The observation is signed only when the process is the activated one, in its
\* cgroup; otherwise the scope stays revoked and the command fails.
ContainObserve ==
    /\ contain.pc = "observe" /\ contain' = Off
    /\ observation' = IF proc = [gen |-> contain.decision.gen, is |-> "running"]
                      THEN [gen |-> contain.decision.gen, decision |-> contain.decision, at |-> contain.at]
                      ELSE observation
    /\ UNCHANGED <<clock, proc, ledger, lock, kernel, remote, leases, decision, evidence, recon,
                   apply, watchdog, answer, faults>>

-----------------------------------------------------------------------------
(* The watchdog.                                                           *)

WatchdogStart ==
    /\ "watchdog" \in Revokers /\ watchdog = Off
    /\ watchdog' = [pc |-> "loop", gen |-> ledger.gen, now |-> 0, boot |-> 0, fence |-> 0]
    /\ UNCHANGED <<clock, proc, ledger, lock, kernel, artifacts, apply, contain, answer, faults>>

\* RuntimeTrustWatchdogRemaining: expired, on the boot of the lease.
Expired(t) == now >= t.deadline

\* One turn of the loop: it ends when the workload is not running, without a
\* lease, or on another boot; it goes on to enforce an expired lease; otherwise
\* it waits for the deadline or the poll.
WatchdogLoop ==
    /\ watchdog.pc = "loop" /\ ~lock
    /\ watchdog' =
         IF ledger.state # "RUNNING" \/ ledger.trust.epoch = 0 \/ ledger.trust.boot # boot
         THEN Stopped
         ELSE IF Expired(ledger.trust)
         THEN [watchdog EXCEPT !.pc = "enforce", !.now = now, !.boot = boot]
         ELSE [watchdog EXCEPT !.pc = "wait", !.now = now]
    /\ UNCHANGED <<clock, proc, ledger, lock, kernel, artifacts, apply, contain, answer, faults>>

\* Mutant: the watchdog sleeps once, until the deadline it saw, and no more.
WatchdogWakeEarly ==
    /\ watchdog.pc = "wait" /\ now > watchdog.now /\ ~Expired(ledger.trust)
    /\ watchdog' = [watchdog EXCEPT !.pc = "loop"]
    /\ UNCHANGED <<clock, proc, ledger, lock, kernel, artifacts, apply, contain, answer, faults>>

\* The timer: the rest of the lease or the poll interval.
WatchdogWake ==
    /\ watchdog.pc = "wait" /\ now > watchdog.now
    /\ watchdog' = [watchdog EXCEPT !.pc = "loop"]
    /\ UNCHANGED <<clock, proc, ledger, lock, kernel, artifacts, apply, contain, answer, faults>>

\* EnforceCurrentRuntimeTrustExpiry takes the lock and checks the ledger again,
\* on the clock of the loop.  A renewal that came first sends it back to the loop.
Enforce ==
    /\ watchdog.pc = "enforce" /\ ~lock
    /\ IF ledger.state # "RUNNING" \/ ledger.trust.epoch = 0 \/ ledger.gen # watchdog.gen
          \/ ledger.trust.boot # watchdog.boot
       THEN watchdog' = Stopped /\ UNCHANGED <<lock, faults>>
       ELSE IF watchdog.now < ledger.trust.deadline
       THEN watchdog' = [watchdog EXCEPT !.pc = "loop"] /\ UNCHANGED <<lock, faults>>
       ELSE \/ /\ fence < MaxRevocation /\ lock' = TRUE
               /\ watchdog' = [watchdog EXCEPT !.pc = "put", !.fence = fence] /\ UNCHANGED faults
            \/ /\ faults < MaxFaults /\ faults' = faults + 1
               /\ watchdog' = Stopped /\ UNCHANGED lock
    /\ UNCHANGED <<clock, proc, ledger, kernel, artifacts, apply, contain, answer>>

\* Mutant: the process is observed without the revocation.
EnforcePutNothing ==
    /\ watchdog.pc = "put"
    /\ watchdog' = [watchdog EXCEPT !.pc = "sign"]
    /\ UNCHANGED <<clock, proc, ledger, lock, kernel, artifacts, apply, contain, answer, faults>>

\* RevokeCurrentScopeForBoot.
EnforcePut ==
    /\ watchdog.pc = "put"
    /\ \/ /\ fence' = watchdog.fence + 1 /\ watchdog' = [watchdog EXCEPT !.pc = "sign"]
          /\ UNCHANGED <<faults, lock>>
       \/ /\ faults < MaxFaults /\ faults' = faults + 1 /\ lock' = FALSE
          /\ watchdog' = Stopped /\ UNCHANGED fence
    /\ UNCHANGED <<clock, proc, ledger, capsule, artifacts, apply, contain, answer>>

\* The process is observed, the evidence signed and the lock released.
ProcessState == IF proc.gen = ledger.gen THEN proc.is ELSE "gone"
EnforceSign ==
    /\ watchdog.pc = "sign" /\ lock' = FALSE
    /\ watchdog' = Stopped
    /\ evidence' = [gen |-> ledger.gen, trust |-> ledger.trust, process |-> ProcessState,
                    revocation |-> watchdog.fence + 1, at |-> watchdog.now]
    /\ ValidateRuntimeTrustExpiryEvidence(evidence')
    /\ UNCHANGED <<clock, proc, ledger, kernel, remote, leases, decision, observation, recon, apply,
                   contain, answer, faults>>

-----------------------------------------------------------------------------
(* Reconciliation.                                                         *)

\* EvaluateRuntimeTrustReconciliation.
RuntimeTrustReconcile ==
    /\ ~lock /\ ledger.state = "RUNNING"
    /\ decision # None /\ observation # None /\ decision.outcome = "REVOKE"
    /\ decision.gen = ledger.gen /\ Current(decision.lease)
    /\ observation.decision = decision /\ observation.gen = ledger.gen /\ observation.at >= decision.at
    /\ recon' = [gen |-> ledger.gen, outcome |-> "QUARANTINE"]
    /\ UNCHANGED <<clock, proc, ledger, lock, kernel, remote, leases, decision, observation, evidence,
                   apply, contain, watchdog, answer, faults>>

\* EvaluateRuntimeTrustExpiryReconciliation.
ExpiryOutcome(process) ==
    IF process \in {"running", "moved"} THEN "QUARANTINE" ELSE "MARK_EXITED_UNKNOWN"

RuntimeTrustExpiryReconcile ==
    /\ ~lock /\ ledger.state = "RUNNING" /\ ledger.trust.epoch # 0 /\ evidence # None
    /\ ValidateRuntimeTrustExpiryEvidence(evidence)
    /\ evidence.trust = ledger.trust /\ evidence.gen = ledger.gen
    /\ \E l \in leases : Current(l)
    /\ recon' = [gen |-> ledger.gen, outcome |-> ExpiryOutcome(evidence.process)]
    /\ UNCHANGED <<clock, proc, ledger, lock, kernel, remote, leases, decision, observation, evidence,
                   apply, contain, watchdog, answer, faults>>

\* ApplyWorkloadReconciliation: an unknown exit clears all the trust fields, the
\* quarantine only the epoch, the digest and the expiry.
Reconciled ==
    IF recon.outcome = "QUARANTINE"
    THEN [ledger EXCEPT !.state = "QUARANTINED", !.trust.epoch = 0, !.trust.lease = None]
    ELSE [ledger EXCEPT !.state = "EXITED_UNKNOWN", !.trust = NoTrust]

ReconcileApply ==
    /\ ~lock /\ recon # None
    /\ ledger.state = "RUNNING" /\ recon.gen = ledger.gen
    /\ IF ValidateTrust(Reconciled)
       THEN ledger' = Reconciled /\ answer' = "applied"
       ELSE answer' = "rejected" /\ UNCHANGED ledger
    /\ UNCHANGED <<clock, proc, lock, kernel, artifacts, apply, contain, watchdog, faults>>

-----------------------------------------------------------------------------
(* The workload and the host.                                              *)

ProcessChange ==
    /\ proc.is \notin {"gone", "reused"}
    /\ \E is \in {"gone"} \cup Moves : proc' = [proc EXCEPT !.is = is] /\ proc' # proc
    /\ UNCHANGED <<clock, ledger, lock, kernel, artifacts, apply, contain, watchdog, answer, faults>>

\* WaitGovernedWorkload: the launcher sees the exit and clears the trust.
WaitGovernedWorkload ==
    /\ ~lock /\ proc.is = "gone" /\ proc.gen = ledger.gen /\ ledger.state = "RUNNING"
    /\ ledger' = [ledger EXCEPT !.state = "EXITED", !.trust = NoTrust]
    /\ UNCHANGED <<clock, proc, lock, kernel, artifacts, apply, contain, watchdog, answer, faults>>

\* StartGovernedWorkload: the next generation, without trust.  No command of the
\* repository installs a capsule (Installer.Install is a library call); whoever
\* does is taken to install one for the new generation as it starts, and at no
\* other time.
StartGovernedWorkload ==
    /\ ~lock /\ ledger.state \in {"EXITED", "EXITED_UNKNOWN"} /\ proc.is # "running"
    /\ ledger.gen < MaxGeneration
    /\ ledger' = [state |-> "RUNNING", gen |-> ledger.gen + 1, trust |-> NoTrust]
    /\ proc' = [gen |-> ledger.gen + 1, is |-> "running"]
    /\ capsule' = fence
    /\ UNCHANGED <<clock, lock, fence, artifacts, apply, contain, watchdog, answer, faults>>

Tick ==
    /\ now < MaxTime /\ now' = now + 1
    /\ UNCHANGED <<boot, proc, ledger, lock, kernel, artifacts, apply, contain, watchdog, answer, faults>>

\* A reboot ends every process of the host and the watchdog's lock; the ledger
\* and the artifacts are files.
Reboot ==
    /\ boot < MaxBoot /\ boot' = boot + 1
    /\ proc' = [proc EXCEPT !.is = "gone"] /\ lock' = FALSE
    /\ apply' = Off /\ contain' = Off /\ watchdog' = Off
    /\ UNCHANGED <<now, ledger, kernel, artifacts, answer, faults>>

Init ==
    /\ now = 1 /\ boot = 1 /\ proc = [gen |-> 1, is |-> "running"]
    /\ ledger = [state |-> "RUNNING", gen |-> 1, trust |-> NoTrust]
    /\ lock = FALSE /\ fence = 0 /\ capsule = 0 /\ remote = None /\ leases = {} /\ apply = Off
    /\ decision = None /\ observation = None /\ evidence = None /\ recon = None
    /\ contain = Off /\ watchdog = Off /\ answer = None /\ faults = 0

Watchdog == WatchdogLoop \/ WatchdogWake \/ Enforce \/ EnforcePut \/ EnforceSign

Next ==
    \/ \E v \in {"ALLOW", "BLOCK"} : RemoteDecision(v)
    \/ RuntimeTrustIssue \/ RuntimeTrustEvaluate \/ ApplyVerify \/ ApplyRuntimeTrustLease
    \/ ContainStart \/ ContainGet \/ ContainPut \/ ContainObserve
    \/ WatchdogStart \/ Watchdog
    \/ RuntimeTrustReconcile \/ RuntimeTrustExpiryReconcile \/ ReconcileApply
    \/ ProcessChange \/ WaitGovernedWorkload \/ StartGovernedWorkload \/ Tick \/ Reboot

Spec == Init /\ [][Next]_vars

\* The watchdog's process is scheduled and time passes.
FairSpec == Spec /\ WF_vars(Watchdog) /\ WF_vars(Tick)

-----------------------------------------------------------------------------
(* Properties.                                                             *)

\* The trust fields of the ledger, the artifacts, and the processes that revoke.
Trust == [epoch : Nat, lease : Lease \cup {None}, boot : Nat, installed : Nat, deadline : Nat]
Ledger == [state : {"RUNNING", "EXITED", "EXITED_UNKNOWN", "QUARANTINED"}, gen : Nat, trust : Trust]
Decision == [gen : Nat, lease : Lease, outcome : {"KEEP_RUNNING", "RENEW_REQUIRED", "REVOKE"}, at : Nat]
Observation == [gen : Nat, decision : Decision, at : Nat]
Evidence == [gen : Nat, trust : Trust, process : {"running", "gone", "reused", "moved"},
             revocation : Nat, at : Nat]
Reconciliation == [gen : Nat, outcome : {"QUARANTINE", "MARK_EXITED_UNKNOWN"}]
Application == [pc : {"lock"}, lease : Lease, boot : Nat]
Containment == [pc : {"get", "put", "observe"}, decision : Decision, at : Nat, fence : Nat]
Watch == [pc : {"loop", "wait", "enforce", "put", "sign"}, gen : Nat, now : Nat, boot : Nat, fence : Nat]

\* Everything has its shape, the ledger always validates, a lease that is applied
\* was signed, and the lock is held by a watchdog at work.
TypeOK ==
    /\ now \in Nat \ {0} /\ boot \in Nat \ {0} /\ fence \in Nat /\ capsule \in Nat
    /\ ledger \in Ledger /\ ValidateTrust(ledger)
    /\ remote \in [at : Nat, verdict : {"ALLOW", "BLOCK"}] \cup {None} /\ leases \subseteq Lease
    /\ apply = Off \/ (apply \in Application /\ apply.lease \in leases)
    /\ decision \in Decision \cup {None} /\ observation \in Observation \cup {None}
    /\ evidence \in Evidence \cup {None} /\ recon \in Reconciliation \cup {None}
    /\ contain \in Containment \cup {Off} /\ watchdog \in Watch \cup {Off, Stopped}
    /\ lock \in BOOLEAN /\ (lock <=> watchdog.pc \in {"put", "sign"})

\* Trust advances by one lease at a time within a generation, each on a newer
\* attestation than the one before, however many leases were signed for the same
\* epoch.
TrustAdvances ==
    [][ledger'.gen = ledger.gen /\ ledger'.state = "RUNNING" /\ ledger'.trust # ledger.trust =>
          /\ ledger'.trust.epoch = ledger.trust.epoch + 1
          /\ ledger.trust.epoch # 0 => ledger'.trust.lease.remote > ledger.trust.lease.remote]_vars

\* The deadline in force never outlives the attestation it rests on, although
\* the lease waited for the lock while time passed.
TrustWithinAttestation ==
    ledger.trust.epoch # 0 =>
        /\ ledger.trust.deadline <= ledger.trust.lease.remote + MaxAge
        /\ ledger.trust.deadline - ledger.trust.installed <= TTL

\* Once the watchdog has signed the expiry of a lease, no renewal replaces that
\* lease: a renewal and the enforcement never both win.
EnforcedIsFinal ==
    [][evidence # None /\ evidence.gen = ledger.gen /\ evidence.trust = ledger.trust
       /\ ledger'.gen = ledger.gen /\ ledger'.state = "RUNNING" => ledger'.trust = ledger.trust]_vars

\* Whatever reconciles the running generation for lost trust, the network scope
\* of that generation was revoked before.
RevokedBeforeReconciled ==
    recon # None /\ recon.gen = ledger.gen => fence > capsule

\* The deadline in force never outlives the attestation it rests on, and whatever
\* reconciles the running generation for lost trust, the scope was revoked first.
LostTrustIsRevoked == TypeOK /\ RevokedBeforeReconciled /\ TrustWithinAttestation

\* A renewal advances trust by one lease on a newer attestation, and a renewal and
\* the watchdog's enforcement never both win.
RenewalNeverRevives == TrustAdvances /\ EnforcedIsFinal

\* A watchdog at work revokes the scope of an expired lease, unless the lease
\* is renewed, the workload is no longer running, or the host reboots.
ExpiryIsEnforced ==
    \A g \in 1..MaxGeneration, e \in 1..MaxLeases :
        (/\ watchdog.pc \in {"loop", "wait", "enforce"} /\ watchdog.gen = g /\ ledger.gen = g
         /\ ledger.trust.epoch = e /\ ledger.trust.boot = boot /\ Expired(ledger.trust))
        ~> \/ fence > capsule
           \/ ledger.state # "RUNNING" \/ ledger.gen # g \/ ledger.trust.epoch # e \/ ledger.trust.boot # boot

\* A quarantine decision for the running generation is applied.
QuarantineApplies == answer # "rejected"
=============================================================================
