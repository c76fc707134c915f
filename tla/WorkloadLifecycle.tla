------------------------- MODULE WorkloadLifecycle -------------------------
(***************************************************************************)
(* The life of one governed workload on one device, internal/kernelfabric: *)
(* admission grants (workload_admission*.go), the launcher and the locked  *)
(* lifecycle ledger (workload_launcher_linux.go, workload_lifecycle*.go),  *)
(* reconciliation of an orphaned RUNNING ledger (workload_recovery*.go),   *)
(* operator release from quarantine (workload_quarantine*.go), and the     *)
(* supervisor aegis-attested-run that starts and waits for the process.    *)
(*                                                                         *)
(* A signed artifact is a record in the set (or file) of its kind, so a    *)
(* signature is membership and a digest is the artifact itself.  Time is a *)
(* counter; every validity interval is half open, as in the code.  The     *)
(* fields that never differ for one workload (device, launch spec, cgroup  *)
(* path, authority ids) are left out; a remote decision for another        *)
(* bootstrap digest has the verdict CHANGED.                               *)
(***************************************************************************)
EXTENDS Naturals, Sequences, FiniteSets

CONSTANTS
    Sups,          \* supervisors (aegis-attested-run) that may be started
    MaxTime,       \* bound: clock
    MaxActs,       \* bound: processes created
    MaxGrants,     \* bound: grants issued
    MaxBoot,       \* bound: reboots
    MaxRemotes,    \* bound: remote attestations
    MaxFaults,     \* bound: crashes, reboots, failed operations, moves and execs
    Verdicts,      \* what a remote attestation may decide
    Classes,       \* how a process may exit
    GrantTTL, MaxAge, DecisionTTL, ReleaseTTL,     \* validity periods
    MaxRestarts, Window, BaseBackoff, MaxBackoff,  \* WorkloadRestartPolicy
    AllowClean,    \* whether a clean exit may restart
    Reattest,      \* exit classes after which the attestation must be newer
    None

\* The shapes of the signed artifacts and of the lifecycle state file.
ExitClass == {"CLEAN", "NONZERO", "SIGNAL"}
Remote == [at : Nat, verdict : {"ALLOW", "BLOCK", "CHANGED"}]
Exit == [activation : Nat, class : ExitClass, at : Nat]
Reconciliation == [generation : Nat, activation : Nat, observedAt : Nat, decidedAt : Nat,
                   outcome : {"KEEP_RUNNING", "MARK_EXITED_UNKNOWN", "QUARANTINE"}]
Release == [generation : Nat, epoch : Nat, activation : Nat, quarantine : Reconciliation, clearedAt : Nat,
            remote : Remote, decidedAt : Nat, expires : Nat]
Recovery == Reconciliation \cup Release
Observation == [generation : Nat, activation : Nat, prior : Recovery \cup {None}, at : Nat,
                state : {"MATCH_RUNNING", "CGROUP_MISMATCH", "PID_REUSED", "ABSENT", "BOOT_CHANGED",
                         "UNVERIFIABLE"}]
Ledger == [state : {"RUNNING", "EXITED", "EXITED_UNKNOWN", "QUARANTINED"}, generation : Nat, epoch : Nat,
           activation : Nat, exit : Exit \cup {None}, recovery : Recovery \cup {None},
           count : Nat, windowStart : Nat]

ASSUME LifecycleAssumption ==
    /\ None \notin Sups /\ None \notin Exit /\ None \notin Recovery /\ None \notin Ledger
    /\ {MaxTime, MaxActs, MaxGrants, MaxBoot, MaxRemotes, MaxFaults, MaxRestarts} \subseteq Nat
    /\ {GrantTTL, MaxAge, DecisionTTL, ReleaseTTL, Window, BaseBackoff, MaxBackoff} \subseteq Nat \ {0}
    /\ AllowClean \in BOOLEAN /\ Verdicts \subseteq {"ALLOW", "BLOCK", "CHANGED"}
    /\ Classes \subseteq {"CLEAN", "NONZERO", "SIGNAL"} /\ Reattest \subseteq Classes \ {"CLEAN"}

VARIABLES
    now, boot,
    remotes,    \* signed remote attestation decisions
    grants, consumed,
    acts,       \* the processes created, with their signed activation receipt
    receipts,   \* activations whose receipt is in a file
    exits,      \* activations whose exit receipt is in a file
    ledger,     \* the lifecycle state file, None before the first start
    lock,       \* the flock of the lifecycle store
    sup,        \* the supervisors
    faults,     \* faults so far
    observation, reconciliation, approval, release, restart  \* artifact files

host == <<boot, acts, receipts, exits, lock, sup, faults>>
artifacts == <<observation, reconciliation, approval, release, restart>>
vars == <<now, remotes, grants, consumed, ledger, host, artifacts>>

Larger(a, b) == IF a >= b THEN a ELSE b
Smaller(a, b) == IF a <= b THEN a ELSE b
Idle == [pc |-> "idle", act |-> 0, grant |-> None, next |-> None]
Live == {"alive", "moved", "execed"}
Fault == faults < MaxFaults /\ faults' = faults + 1

-----------------------------------------------------------------------------
(* Validity of the signed artifacts.                                       *)

\* ValidateWorkloadLifecycleState: the digests each state carries.
ValidateWorkloadLifecycleState(l) ==
    /\ l.generation > 0 /\ l.epoch > 0 /\ l.activation > 0
    /\ l.state = "RUNNING" => l.exit = None /\ l.recovery = None
    /\ l.state = "EXITED" => l.exit # None /\ l.recovery = None
    /\ l.state \in {"EXITED_UNKNOWN", "QUARANTINED"} => l.exit = None /\ l.recovery # None

\* ValidateWorkloadAdmissionGrant and VerifySignedWorkloadAdmissionGrant.
ValidateWorkloadAdmissionGrant(g, t) == g.notBefore <= t /\ t < g.expires
VerifySignedWorkloadAdmissionGrant(g, t) == g \in grants /\ ValidateWorkloadAdmissionGrant(g, t)

\* ValidateWorkloadRestartDecision: one lineage, inside its validity.
ValidateWorkloadRestartDecision(d, t) ==
    (d.exit = None) # (d.recovery = None) /\ d.notBefore <= t /\ t < d.expires

\* ValidateQuarantineOperatorApproval and ValidateQuarantineReleaseDecision.
ValidateQuarantineOperatorApproval(a, t) == a.issued <= t /\ t < a.expires
ValidateQuarantineReleaseDecision(r, t) == r.decidedAt <= t /\ t < r.expires

\* The receipts and decisions without an expiry: signed by the host attestor or
\* the lifecycle authority, and present in the file a command is given.
VerifySignedWorkloadActivationReceipt(a) == a \in receipts
VerifySignedWorkloadExitReceipt(a) == a \in exits
VerifySignedWorkloadRecoveryObservation(o) == o # None
VerifySignedWorkloadReconciliationDecision(d) == d # None

\* A remote decision that still carries authority at time t.
FreshRemote(r, t) == r.verdict = "ALLOW" /\ t < r.at + MaxAge

\* boundedRestartBackoff: doubled for each restart, never past the maximum.
boundedRestartBackoff[n \in 0..MaxRestarts] ==
    IF n = 0 THEN Smaller(BaseBackoff, MaxBackoff)
    ELSE Smaller(2 * boundedRestartBackoff[n - 1], MaxBackoff)

\* The window of a restart decision: an elapsed one starts again at t.
RestartWindow(l, t) ==
    IF t < l.windowStart + Window THEN [count |-> l.count, start |-> l.windowStart]
    ELSE [count |-> 0, start |-> t]

\* The decision record shared by the three evaluators of a restart.
RestartDecision(l, remote, outcome, anchor) ==
    LET w == RestartWindow(l, now)
        notBefore == IF outcome = "BLOCK" THEN now
                     ELSE Larger(now, anchor + boundedRestartBackoff[w.count]) IN
    [generation |-> l.generation, epoch |-> l.epoch, activation |-> l.activation,
     exit |-> l.exit, recovery |-> l.recovery, remote |-> remote, outcome |-> outcome,
     count |-> w.count, windowStart |-> w.start,
     notBefore |-> notBefore, expires |-> notBefore + DecisionTTL]

\* The prior grant and activation the evaluators are given for the ledger: the
\* receipt is in its file and the grant was valid when the process started.
PriorLineage ==
    /\ VerifySignedWorkloadActivationReceipt(ledger.activation)
    /\ VerifySignedWorkloadAdmissionGrant(acts[ledger.activation].grant,
                                          acts[ledger.activation].startedAt)

-----------------------------------------------------------------------------
(* Time, remote attestation (external) and admission.                      *)

Tick == /\ now < MaxTime /\ now' = now + 1
        /\ UNCHANGED <<remotes, grants, consumed, ledger, host, artifacts>>

RemoteVerify == \E v \in Verdicts :
    /\ Cardinality(remotes) < MaxRemotes /\ \A r \in remotes : r.at < now
    /\ remotes' = remotes \cup {[at |-> now, verdict |-> v]}
    /\ UNCHANGED <<now, grants, consumed, ledger, host, artifacts>>

\* IssueWorkloadAdmissionGrant: a grant outlives neither its own period nor the
\* attestation it rests on.
NewGrant(remote) ==
    [id |-> Cardinality(grants) + 1, remote |-> remote, notBefore |-> now,
     expires |-> Smaller(now + GrantTTL, remote.at + MaxAge)]

IssueWorkloadAdmissionGrant(remote) ==
    /\ Cardinality(grants) < MaxGrants /\ FreshRemote(remote, now)
    /\ grants' = grants \cup {NewGrant(remote)}

\* IssueRestartWorkloadAdmissionGrant: the same, for a restart decision.
IssueRestartWorkloadAdmissionGrant ==
    /\ restart # None /\ ValidateWorkloadRestartDecision(restart, now)
    /\ restart.outcome = "REQUIRE_FRESH_GRANT"
    /\ IssueWorkloadAdmissionGrant(restart.remote)

\* The commands aegis-admission-issue and aegis-admission-restart-issue.
AdmissionIssue(remote) ==
    IssueWorkloadAdmissionGrant(remote) /\ UNCHANGED <<now, remotes, consumed, ledger, host, artifacts>>
AdmissionRestartIssue ==
    IssueRestartWorkloadAdmissionGrant /\ UNCHANGED <<now, remotes, consumed, ledger, host, artifacts>>

-----------------------------------------------------------------------------
(* StartGovernedWorkload, under the lock of the lifecycle store.           *)

\* ValidateRestartForLifecycleState.
ValidateRestartForLifecycleState(l, g, d) ==
    /\ ValidateWorkloadRestartDecision(d, now)
    /\ d.outcome = "REQUIRE_FRESH_GRANT"
    /\ d.generation = l.generation /\ d.epoch = l.epoch /\ d.activation = l.activation
    /\ d.remote = g.remote
    /\ d.exit = l.exit /\ d.recovery = l.recovery

\* The ledger the start will write, once the process exists.
NextLedger(d) ==
    IF ledger = None
    THEN [state |-> "RUNNING", generation |-> 1, epoch |-> 1, activation |-> 0, exit |-> None,
          recovery |-> None, count |-> 0, windowStart |-> now]
    ELSE [state |-> "RUNNING", generation |-> ledger.generation + 1, epoch |-> ledger.epoch,
          activation |-> 0, exit |-> None, recovery |-> None, count |-> d.count + 1,
          windowStart |-> d.windowStart]

\* ConsumeWorkloadAdmissionGrant: a valid grant is claimed by creating its file.
ConsumeWorkloadAdmissionGrant(g) ==
    /\ VerifySignedWorkloadAdmissionGrant(g, now)
    /\ g.id \notin consumed
    /\ consumed' = consumed \cup {g.id}

\* StartGovernedWorkload up to the claim of the grant in StartAttestedWorkload.
StartGovernedWorkload(s, g) ==
    /\ sup[s] = Idle /\ lock = None
    /\ \/ ledger = None
       \/ /\ ledger # None
          /\ ledger.state \in {"EXITED", "EXITED_UNKNOWN"}
          /\ restart # None
          /\ ValidateRestartForLifecycleState(ledger, g, restart)
    /\ ConsumeWorkloadAdmissionGrant(g)
    /\ lock' = s
    /\ sup' = [sup EXCEPT ![s] = [pc |-> "claimed", act |-> 0, grant |-> g,
                                  next |-> NextLedger(restart)]]
    /\ UNCHANGED <<now, remotes, grants, ledger, boot, acts, receipts, exits, faults, artifacts>>

\* History: the time after which a restart from this ledger must be attested.
EvidenceTime ==
    IF ledger = None THEN 0
    ELSE IF ledger.state = "EXITED" THEN IF ledger.exit.class \in Reattest THEN ledger.exit.at ELSE 0
    ELSE IF "clearedAt" \in DOMAIN ledger.recovery THEN ledger.recovery.clearedAt
    ELSE ledger.recovery.decidedAt

\* StartAttestedWorkload after the claim: the process is created in the cgroup
\* and its activation receipt signed; or the creation fails and the claim stays.
StartAttestedWorkload(s) ==
    /\ sup[s].pc = "claimed"
    /\ \/ /\ Len(acts) < MaxActs
          /\ acts' = Append(acts, [grant |-> sup[s].grant, boot |-> boot, startedAt |-> now,
                                   proc |-> "alive", class |-> None, ran |-> FALSE,
                                   after |-> EvidenceTime])
          /\ sup' = [sup EXCEPT ![s].pc = "created", ![s].act = Len(acts) + 1]
          /\ UNCHANGED <<lock, faults>>
       \/ Fault /\ sup' = [sup EXCEPT ![s] = Idle] /\ lock' = None /\ UNCHANGED acts
    /\ UNCHANGED <<now, remotes, grants, consumed, ledger, boot, receipts, exits, artifacts>>

\* Mutant: nothing kills the process.
LeftAlive(a) == acts

\* The kill of a process that is not governed, and the crash of its supervisor:
\* with linux_isolation the workload has Pdeathsig SIGKILL.
Killed(a) == IF a > 0 /\ acts[a].proc \in Live
             THEN [acts EXCEPT ![a].proc = "dead", ![a].class = "SIGNAL"] ELSE acts

\* writeLifecycleState at the end of a start.  An error kills the process; an
\* error after the rename leaves the RUNNING ledger behind.
PersistRunning(s) ==
    LET next == [sup[s].next EXCEPT !.activation = sup[s].act]
        a == sup[s].act IN
    /\ sup[s].pc = "created"
    /\ lock' = None
    /\ \/ /\ ValidateWorkloadLifecycleState(next)
          /\ ledger' = next /\ acts' = [acts EXCEPT ![a].ran = TRUE]
          /\ sup' = [sup EXCEPT ![s] = [Idle EXCEPT !.pc = "started", !.act = a]]
          /\ UNCHANGED faults
       \/ /\ Fault /\ ValidateWorkloadLifecycleState(next) /\ ledger' \in {ledger, next}
          /\ acts' = Killed(a) /\ sup' = [sup EXCEPT ![s] = Idle]
    /\ UNCHANGED <<now, remotes, grants, consumed, boot, receipts, exits, artifacts>>

\* aegis-attested-run writes the activation receipt, or kills the workload.
WriteActivationReceipt(s) ==
    /\ sup[s].pc = "started"
    /\ sup' = [sup EXCEPT ![s].pc = "waiting"]
    /\ \/ receipts' = receipts \cup {sup[s].act} /\ UNCHANGED <<acts, faults>>
       \/ Fault /\ acts' = Killed(sup[s].act) /\ UNCHANGED receipts
    /\ UNCHANGED <<now, remotes, grants, consumed, ledger, boot, exits, lock, artifacts>>

\* WaitGovernedWorkload: the exit is signed, then the locked ledger becomes
\* EXITED if it is still RUNNING with this activation.
WaitGovernedWorkload(s) ==
    LET a == sup[s].act
        exit == [activation |-> a, class |-> acts[a].class, at |-> now] IN
    /\ sup[s].pc = "waiting" /\ acts[a].proc = "dead" /\ lock = None
    /\ IF ledger.state = "RUNNING" /\ ledger.activation = a
       THEN /\ ledger' = [ledger EXCEPT !.state = "EXITED", !.exit = exit]
            /\ sup' = [sup EXCEPT ![s].pc = "exited"]
       ELSE sup' = [sup EXCEPT ![s] = Idle] /\ UNCHANGED ledger
    /\ UNCHANGED <<now, remotes, grants, consumed, boot, acts, receipts, exits, lock, faults, artifacts>>

\* The exit receipt is written to its file, or the write fails.
WriteExitReceipt(s) ==
    /\ sup[s].pc = "exited"
    /\ sup' = [sup EXCEPT ![s] = Idle]
    /\ \/ exits' = exits \cup {sup[s].act} /\ UNCHANGED faults
       \/ Fault /\ UNCHANGED exits
    /\ UNCHANGED <<now, remotes, grants, consumed, ledger, boot, acts, receipts, lock, artifacts>>

-----------------------------------------------------------------------------
(* The host: exits, execs and moves of the process, crashes, reboots.      *)

ProcessStep(a) ==
    /\ acts[a].proc \in Live
    /\ \/ \E c \in Classes :
              acts' = [acts EXCEPT ![a].proc = "dead", ![a].class = c] /\ UNCHANGED faults
       \/ Fault /\ acts[a].proc = "alive" /\ acts' = [acts EXCEPT ![a].proc = "moved"]
       \/ Fault /\ acts[a].proc # "execed" /\ acts' = [acts EXCEPT ![a].proc = "execed"]
    /\ UNCHANGED <<now, remotes, grants, consumed, ledger, boot, receipts, exits, lock, sup, artifacts>>

SupervisorCrash(s) ==
    /\ Fault /\ sup[s] # Idle
    /\ acts' = Killed(sup[s].act)
    /\ sup' = [sup EXCEPT ![s] = Idle]
    /\ lock' = IF lock = s THEN None ELSE lock
    /\ UNCHANGED <<now, remotes, grants, consumed, ledger, boot, receipts, exits, artifacts>>

Reboot ==
    /\ Fault /\ boot < MaxBoot /\ boot' = boot + 1
    /\ acts' = [a \in DOMAIN acts |-> IF acts[a].proc \in Live
                    THEN [acts[a] EXCEPT !.proc = "dead", !.class = "SIGNAL"] ELSE acts[a]]
    /\ sup' = [s \in Sups |-> Idle] /\ lock' = None
    /\ UNCHANGED <<now, remotes, grants, consumed, ledger, receipts, exits, artifacts>>

-----------------------------------------------------------------------------
(* Reconciliation of an orphaned ledger.                                   *)

\* ObserveLinuxProcess against the signed identity, which includes the executable
\* that an exec replaces.
ObservedStates(a) ==
    IF acts[a].boot # boot THEN {"BOOT_CHANGED"}
    ELSE CASE acts[a].proc = "alive" -> {"MATCH_RUNNING"}
           [] acts[a].proc = "moved" -> {"CGROUP_MISMATCH"}
           [] acts[a].proc = "execed" -> {"PID_REUSED"}
           [] acts[a].proc = "dead" -> {"ABSENT", "PID_REUSED"}

Gone == {"ABSENT", "BOOT_CHANGED", "PID_REUSED"}

\* ObserveOrphanedWorkload, into the file of aegis-reconcile-observe; a reading of
\* /proc that fails is UNVERIFIABLE.
ObserveOrphanedWorkload ==
    /\ ledger # None /\ ledger.state \in {"RUNNING", "QUARANTINED"}
    /\ VerifySignedWorkloadActivationReceipt(ledger.activation)
    /\ \E st \in ObservedStates(ledger.activation) \cup {"UNVERIFIABLE"} :
        /\ IF st = "UNVERIFIABLE" THEN Fault ELSE UNCHANGED faults
        /\ observation' = [generation |-> ledger.generation, activation |-> ledger.activation,
                           prior |-> IF ledger.state = "QUARANTINED" THEN ledger.recovery ELSE None,
                           state |-> st, at |-> now]

\* The outcome EvaluateWorkloadReconciliation gives each observation.
ReconciliationOutcome(st) ==
    IF st = "MATCH_RUNNING" THEN "KEEP_RUNNING"
    ELSE IF st \in Gone THEN "MARK_EXITED_UNKNOWN" ELSE "QUARANTINE"

\* EvaluateWorkloadReconciliation, by aegis-reconcile-decide.
EvaluateWorkloadReconciliation ==
    /\ ledger # None /\ ledger.state = "RUNNING"
    /\ VerifySignedWorkloadActivationReceipt(ledger.activation)
    /\ VerifySignedWorkloadRecoveryObservation(observation) /\ observation.prior = None
    /\ observation.generation = ledger.generation /\ observation.activation = ledger.activation
    /\ reconciliation' = [generation |-> ledger.generation, activation |-> ledger.activation,
                          outcome |-> ReconciliationOutcome(observation.state),
                          observedAt |-> observation.at, decidedAt |-> now]

\* ApplyWorkloadReconciliation, by aegis-reconcile-apply, at any later time.
ApplyWorkloadReconciliation ==
    /\ lock = None /\ ledger # None
    /\ VerifySignedWorkloadReconciliationDecision(reconciliation)
    /\ ledger.state = "RUNNING"
    /\ reconciliation.generation = ledger.generation
    /\ reconciliation.activation = ledger.activation
    /\ ledger' =
         CASE reconciliation.outcome = "KEEP_RUNNING" -> ledger
           [] reconciliation.outcome = "MARK_EXITED_UNKNOWN" ->
                [ledger EXCEPT !.state = "EXITED_UNKNOWN", !.recovery = reconciliation]
           [] reconciliation.outcome = "QUARANTINE" ->
                [ledger EXCEPT !.state = "QUARANTINED", !.recovery = reconciliation]

\* The commands aegis-reconcile-observe, -decide and -apply.
ReconcileObserve ==
    /\ ObserveOrphanedWorkload
    /\ UNCHANGED <<now, remotes, grants, consumed, ledger, boot, acts, receipts, exits, lock, sup,
                   reconciliation, approval, release, restart>>
ReconcileDecide ==
    /\ EvaluateWorkloadReconciliation
    /\ UNCHANGED <<now, remotes, grants, consumed, ledger, host,
                   observation, approval, release, restart>>
ReconcileApply ==
    ApplyWorkloadReconciliation /\ UNCHANGED <<now, remotes, grants, consumed, host, artifacts>>

-----------------------------------------------------------------------------
(* Operator release from quarantine.                                       *)

\* Mutant: the clearance may show a live process.
AnyClearance(remote) ==
    /\ ledger # None /\ ledger.state = "QUARANTINED" /\ PriorLineage
    /\ reconciliation = ledger.recovery /\ reconciliation.outcome = "QUARANTINE"
    /\ VerifySignedWorkloadRecoveryObservation(observation)
    /\ observation.generation = ledger.generation /\ observation.activation = ledger.activation
    /\ observation.prior = ledger.recovery
    /\ observation.at > reconciliation.decidedAt
    /\ remote.at > observation.at /\ FreshRemote(remote, now)

\* validateQuarantineReleaseEvidence: the process was seen gone after the
\* quarantine and the device attested after that.
ValidateQuarantineReleaseEvidence(remote) ==
    /\ ledger # None /\ ledger.state = "QUARANTINED" /\ PriorLineage
    /\ reconciliation = ledger.recovery /\ reconciliation.outcome = "QUARANTINE"
    /\ VerifySignedWorkloadRecoveryObservation(observation)
    /\ observation.generation = ledger.generation /\ observation.activation = ledger.activation
    /\ observation.prior = ledger.recovery
    /\ observation.at > reconciliation.decidedAt
    /\ observation.state \in Gone
    /\ remote.at > observation.at /\ FreshRemote(remote, now)

\* IssueQuarantineOperatorApproval, by aegis-quarantine-approve.
IssueQuarantineOperatorApproval(remote) ==
    /\ ValidateQuarantineReleaseEvidence(remote)
    /\ approval' = [generation |-> ledger.generation, epoch |-> ledger.epoch,
                    activation |-> ledger.activation, quarantine |-> ledger.recovery,
                    clearance |-> observation, remote |-> remote,
                    issued |-> now, expires |-> now + ReleaseTTL]

\* EvaluateQuarantineRelease, by aegis-quarantine-release-decide.
EvaluateQuarantineRelease(remote) ==
    /\ ValidateQuarantineReleaseEvidence(remote)
    /\ approval # None /\ ValidateQuarantineOperatorApproval(approval, now)
    /\ approval.generation = ledger.generation /\ approval.epoch = ledger.epoch
    /\ approval.activation = ledger.activation /\ approval.quarantine = ledger.recovery
    /\ approval.clearance = observation /\ approval.remote = remote
    /\ release' = [generation |-> ledger.generation, epoch |-> ledger.epoch,
                   activation |-> ledger.activation, quarantine |-> ledger.recovery,
                   clearedAt |-> observation.at, remote |-> remote,
                   decidedAt |-> now, expires |-> now + ReleaseTTL]

\* ApplyQuarantineRelease, by aegis-quarantine-release-apply.
ApplyQuarantineRelease ==
    /\ lock = None /\ ledger # None /\ release # None
    /\ ValidateQuarantineReleaseDecision(release, now)
    /\ ledger.state = "QUARANTINED"
    /\ release.generation = ledger.generation /\ release.epoch = ledger.epoch
    /\ release.activation = ledger.activation /\ release.quarantine = ledger.recovery
    /\ ledger' = [ledger EXCEPT !.state = "EXITED_UNKNOWN", !.epoch = @ + 1,
                                !.recovery = release]

\* The commands aegis-quarantine-approve, -release-decide and -release-apply.
QuarantineApprove(remote) ==
    /\ IssueQuarantineOperatorApproval(remote)
    /\ UNCHANGED <<now, remotes, grants, consumed, ledger, host,
                   observation, reconciliation, release, restart>>
QuarantineReleaseDecide(remote) ==
    /\ EvaluateQuarantineRelease(remote)
    /\ UNCHANGED <<now, remotes, grants, consumed, ledger, host,
                   observation, reconciliation, approval, restart>>
QuarantineReleaseApply ==
    ApplyQuarantineRelease /\ UNCHANGED <<now, remotes, grants, consumed, host, artifacts>>

-----------------------------------------------------------------------------
(* Restart decisions.                                                      *)

Decide(remote, outcome, anchor) == restart' = RestartDecision(ledger, remote, outcome, anchor)

\* The budget and the bootstrap are checked before the attestation is.
Blocked(remote) == RestartWindow(ledger, now).count >= MaxRestarts \/ remote.verdict = "CHANGED"

\* validateLifecycleRestartLineage.
ValidateLifecycleRestartLineage ==
    /\ ledger # None /\ ledger.state = "EXITED"
    /\ VerifySignedWorkloadExitReceipt(ledger.activation) /\ PriorLineage

\* EvaluateWorkloadRestart, after a signed exit.
EvaluateWorkloadRestart(remote) ==
    /\ ValidateLifecycleRestartLineage
    /\ Decide(remote,
         IF Blocked(remote) \/ (ledger.exit.class = "CLEAN" /\ ~AllowClean) THEN "BLOCK"
         ELSE IF \/ ~FreshRemote(remote, now)
                 \/ ledger.exit.class \in Reattest /\ remote.at <= ledger.exit.at
              THEN "REQUIRE_REATTESTATION" ELSE "REQUIRE_FRESH_GRANT",
         ledger.exit.at)

\* Mutant: an attestation from before the reconciliation serves.
RecoveredOnOldEvidence(remote) ==
    /\ ledger # None /\ ledger.state = "EXITED_UNKNOWN" /\ PriorLineage
    /\ reconciliation = ledger.recovery /\ reconciliation.outcome = "MARK_EXITED_UNKNOWN"
    /\ Decide(remote,
         IF Blocked(remote) THEN "BLOCK"
         ELSE IF ~FreshRemote(remote, now)
              THEN "REQUIRE_REATTESTATION" ELSE "REQUIRE_FRESH_GRANT",
         reconciliation.decidedAt)

\* EvaluateRecoveredWorkloadRestart, after MARK_EXITED_UNKNOWN.
EvaluateRecoveredWorkloadRestart(remote) ==
    /\ ledger # None /\ ledger.state = "EXITED_UNKNOWN" /\ PriorLineage
    /\ reconciliation = ledger.recovery /\ reconciliation.outcome = "MARK_EXITED_UNKNOWN"
    /\ Decide(remote,
         IF Blocked(remote) THEN "BLOCK"
         ELSE IF ~FreshRemote(remote, now) \/ remote.at <= reconciliation.decidedAt
              THEN "REQUIRE_REATTESTATION" ELSE "REQUIRE_FRESH_GRANT",
         reconciliation.decidedAt)

\* EvaluateQuarantineReleasedRestart: the attestation of the release may serve
\* again, another one must be newer than the release.
EvaluateQuarantineReleasedRestart(remote) ==
    /\ ledger # None /\ ledger.state = "EXITED_UNKNOWN" /\ PriorLineage
    /\ release # None /\ release = ledger.recovery
    /\ Decide(remote,
         IF Blocked(remote) THEN "BLOCK"
         ELSE IF ~FreshRemote(remote, now) \/ (remote # release.remote /\ remote.at <= release.decidedAt)
              THEN "REQUIRE_REATTESTATION" ELSE "REQUIRE_FRESH_GRANT",
         release.decidedAt)

\* The command aegis-restart-evaluate picks the evaluator by the ledger's state.
RestartEvaluate(remote) ==
    /\ \/ EvaluateWorkloadRestart(remote)
       \/ EvaluateRecoveredWorkloadRestart(remote)
       \/ EvaluateQuarantineReleasedRestart(remote)
    /\ UNCHANGED <<now, remotes, grants, consumed, ledger, host,
                   observation, reconciliation, approval, release>>

-----------------------------------------------------------------------------
Init ==
    /\ now = 1 /\ boot = 1
    /\ remotes = {} /\ grants = {} /\ consumed = {} /\ acts = <<>> /\ receipts = {} /\ exits = {} /\ faults = 0
    /\ ledger = None /\ lock = None /\ sup = [s \in Sups |-> Idle]
    /\ observation = None /\ reconciliation = None /\ approval = None
    /\ release = None /\ restart = None

\* aegis-attested-run: start, write the activation receipt, wait, write the exit.
AttestedRun(s) ==
    \/ \E g \in grants : StartGovernedWorkload(s, g)
    \/ StartAttestedWorkload(s) \/ PersistRunning(s) \/ WriteActivationReceipt(s)
    \/ WaitGovernedWorkload(s) \/ WriteExitReceipt(s)

Next ==
    \/ Tick \/ RemoteVerify \/ Reboot
    \/ \E r \in remotes : \/ AdmissionIssue(r) \/ RestartEvaluate(r)
                         \/ QuarantineApprove(r) \/ QuarantineReleaseDecide(r)
    \/ \E s \in Sups : AttestedRun(s) \/ SupervisorCrash(s)
    \/ \E a \in DOMAIN acts : ProcessStep(a)
    \/ AdmissionRestartIssue \/ QuarantineReleaseApply
    \/ ReconcileObserve \/ ReconcileDecide \/ ReconcileApply

Spec == Init /\ [][Next]_vars

-----------------------------------------------------------------------------
(* Properties.                                                             *)

\* Every ledger on disk is one ValidateWorkloadLifecycleState accepts, every
\* process has a grant that was issued and claimed, on an attestation that was
\* made, and the lock has a holder that is in the middle of a start.
TypeOK ==
    /\ now \in Nat \ {0} /\ boot \in Nat \ {0} /\ remotes \subseteq Remote
    /\ \A g \in grants : g.remote \in remotes
    /\ ledger \in Ledger \cup {None}
    /\ ledger # None => ValidateWorkloadLifecycleState(ledger) /\ ledger.activation \in DOMAIN acts
    /\ \A a \in DOMAIN acts : /\ acts[a].grant \in grants /\ acts[a].grant.id \in consumed
                             /\ acts[a].proc \in Live \cup {"dead"}
    /\ observation \in Observation \cup {None} /\ reconciliation \in Reconciliation \cup {None}
    /\ release \in Release \cup {None}
    /\ lock \in Sups \cup {None} /\ \A s \in Sups : (lock = s) <=> sup[s].pc \in {"claimed", "created"}

\* A ledger that says the workload exited (EXITED by its supervisor, or
\* EXITED_UNKNOWN by a reconciliation or a release that acted on an older
\* observation) is right about a process that kept its executable.
ExitedIsGone ==
    ledger # None /\ ledger.state \in {"EXITED", "EXITED_UNKNOWN"}
        => acts[ledger.activation].proc \notin {"alive", "moved"}

\* Two starts never leave two governed processes: not by racing, not by a crash
\* between the creation of the process and the RUNNING ledger, not by a restart
\* decided on stale evidence.
SoleProcess ==
    \A a, b \in DOMAIN acts :
        acts[a].proc \in {"alive", "moved"} /\ acts[b].proc \in {"alive", "moved"} => a = b

\* A grant starts at most one process, whatever fails after its claim.
GrantStartsOnce ==
    \A a, b \in DOMAIN acts : acts[a].grant = acts[b].grant => a = b

\* A restart rests on an attestation newer than the evidence that ended the
\* previous generation: the exit of a class that demands it, the reconciliation
\* decision, or the clearance observation of a quarantine.
RestartIsReattested ==
    \A a \in DOMAIN acts : acts[a].after > 0 => acts[a].grant.remote.at > acts[a].after

\* In the restart window of the ledger no more than MaxRestarts generations
\* started after the first one.
BudgetHolds ==
    ledger # None =>
        Cardinality({a \in DOMAIN acts : acts[a].ran /\ acts[a].startedAt >= ledger.windowStart})
            <= MaxRestarts + 1

\* A quarantined ledger is left only by a release that advances its epoch, and
\* only when the quarantined process is gone, was seen gone after the
\* quarantine was decided, and the device was attested after that.
QuarantineHolds ==
    [][ledger # None /\ ledger.state = "QUARANTINED" /\ ledger' # ledger =>
          /\ ledger'.state = "EXITED_UNKNOWN"
          /\ ledger'.epoch = ledger.epoch + 1 /\ ledger'.generation = ledger.generation
          /\ acts[ledger.activation].proc \notin {"alive", "moved"}
          /\ ledger'.recovery.clearedAt > ledger.recovery.decidedAt
          /\ \E r \in remotes : r.verdict = "ALLOW" /\ r.at > ledger'.recovery.clearedAt]_vars

\* A generation that has ended never runs again, and neither the generation nor
\* the lifecycle epoch goes back.
GenerationRunsOnce ==
    [][ledger # None /\ ledger' # ledger =>
          /\ ledger'.generation >= ledger.generation /\ ledger'.epoch >= ledger.epoch
          /\ ledger'.state = "RUNNING" => ledger'.generation = ledger.generation + 1]_vars

\* Two starts never leave two governed processes, a grant starts at most one, and
\* a ledger that says the workload exited is right about a process that kept its
\* executable: not by racing, not by a crash between the creation of the process
\* and the RUNNING ledger, not by a restart decided on stale evidence.
OneGovernedProcess == TypeOK /\ SoleProcess /\ GrantStartsOnce /\ ExitedIsGone

\* A restart rests on an attestation newer than the evidence that ended the
\* previous generation, and stays within the budget of its window.
RestartIsEarned == RestartIsReattested /\ BudgetHolds

\* A quarantined ledger is left only by a release that advances its epoch, when
\* the process is gone, was seen gone after the quarantine and the device was
\* attested after that; and a generation that has ended never runs again.
LedgerMovesOn == QuarantineHolds /\ GenerationRunsOnce

\* What the reconciliation document promises of MARK_EXITED_UNKNOWN and of a
\* quarantine clearance: the original process is no longer live.
OriginalProcessGone ==
    ledger # None /\ ledger.state \in {"EXITED", "EXITED_UNKNOWN"}
        => acts[ledger.activation].proc = "dead"

\* What the reconciliation document sets out to repair: a RUNNING ledger whose
\* supervisor is gone can be observed, for its activation receipt exists.
OrphanIsReconcilable ==
    ledger # None /\ ledger.state = "RUNNING"
        => ledger.activation \in receipts \/ \E s \in Sups : sup[s].act = ledger.activation
=============================================================================
