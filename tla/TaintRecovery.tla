--------------------------- MODULE TaintRecovery ---------------------------
(***************************************************************************)
(* The lifetime of a taint source: activation of a protected cgroup        *)
(* (internal/kernelfabric/taint_activation_linux.go), the invalidation of  *)
(* a source's continuity by the kernel hooks (kernel/bpf/                  *)
(* aegis_taint.bpf.c) and its jointly authorized recovery                  *)
(* (taint_recovery_linux.go, taint_recovery.go, taint_recovery_trust.go).  *)
(*                                                                         *)
(* One source path resolves to an inode.  The pinned maps are the enrolled *)
(* inodes, the DIRTY generation, the CLEAN watermark, the arm flag, the    *)
(* enrollment epoch, the recovery commitment, the allow-mask, the failure  *)
(* counter and the protected-cgroup flag.  A controller is one run of      *)
(* aegis-taint-activate or of a recovery; every map operation is a step,   *)
(* any step may fail, and a controller may die between two.  Nothing       *)
(* locks the maps.  A reboot empties them.                                 *)
(***************************************************************************)
EXTENDS Naturals, FiniteSets

CONSTANTS
    Controllers,
    MaxInode,    \* bound: files that are put at the source path
    MaxDirty,    \* bound: invalidations
    MaxAuth,     \* bound: authorizations issued
    MaxBoot,     \* bound: reboots
    MaxFaults,   \* bound: failed map operations and dead controllers
    None

VARIABLES
    path,      \* the inode the source path resolves to
    moving,    \* a mutation whose hook has run and whose effect is to come, or None
    slipped,   \* history: the effect of one that was under way when the controller
               \* last observed the sources with its source map in place
    kern,      \* the pinned maps
    boot,
    plans,     \* the plans written so far, each the identity observed then
    auths,     \* the authorizations issued
    expired,   \* those outside their validity window
    ctl,       \* the controllers
    acked,     \* history: authorizations whose success was returned
    admitted,  \* history: what the last CLEAN update admitted
    faults

vars == <<path, moving, slipped, kern, boot, plans, auths, expired, ctl, acked, admitted, faults>>
Off == [pc |-> "off"]
Inodes == 1..MaxInode

\* A fresh bootstrap: every map is empty or zero.
Empty == [src |-> {}, dirty |-> 0, clean |-> 0, armed |-> 0, epoch |-> 0, pending |-> None,
          allow |-> None, fail |-> None, active |-> FALSE]

\* enforce_taint_egress for a process without labels.
Egress(k) == k.active /\ k.dirty = k.clean /\ k.fail = 0

-----------------------------------------------------------------------------
(* The kernel hooks.                                                       *)

\* invalidate_source_continuity: DIRTY only grows.
Invalidate(k) == [k EXCEPT !.dirty = @ + 1]

\* aegis_trename, aegis_tunlink: when an enrolled inode takes part.
\* aegis_tmount and the other topology hooks: once the guard is armed.
Hook(kind, k) ==
    IF (kind = "rename" /\ path \in k.src) \/ (kind = "mount" /\ k.armed = 1)
    THEN Invalidate(k) ELSE k

\* A rename onto the path, or a mount over it.  The hook runs before the change,
\* and whatever the controllers do may come between the two.
Mutate(kind, i) ==
    /\ moving = None /\ i # path /\ kern.dirty < MaxDirty
    /\ kern' = Hook(kind, kern)
    /\ moving' = [to |-> i, seen |-> FALSE]
    /\ UNCHANGED <<path, slipped, boot, plans, auths, expired, ctl, acked, admitted, faults>>

MutateDone ==
    /\ moving # None
    /\ path' = moving.to /\ moving' = None
    /\ slipped' = (slipped \/ moving.seen)
    /\ UNCHANGED <<kern, boot, plans, auths, expired, ctl, acked, admitted, faults>>

-----------------------------------------------------------------------------
(* Shared steps.                                                           *)

Go(c, pc) == ctl' = [ctl EXCEPT ![c].pc = pc]
Return(c) == ctl' = [ctl EXCEPT ![c] = Off]
KeepWorld == UNCHANGED <<path, boot, plans, auths, expired>>
Keep == KeepWorld /\ UNCHANGED <<moving, slipped>>
Quiet == UNCHANGED <<acked, admitted, faults>>

\* ResolveTaintFileKeysObserved: the identity the LSM sees on one read.
ObservedKeys == {path}

\* aegis-taint-plan writes a plan of what it observes.
ObservePlan ==
    /\ ~(ObservedKeys \subseteq plans)
    /\ plans' = plans \cup ObservedKeys
    /\ UNCHANGED <<path, moving, slipped, kern, boot, auths, expired, ctl, acked, admitted, faults>>

\* revalidateTaintSourceBindings.
Revalidate(plan) == ObservedKeys = {plan}

\* The sources are as planned, with the source map in place: what changes from now
\* on runs its hook against that map, except a mutation that is past its hook.
ObservedInPlace ==
    /\ moving' = IF moving = None THEN None ELSE [moving EXCEPT !.seen = TRUE]
    /\ slipped' = FALSE

\* A map operation or a check that fails: the deferred rollback runs when it
\* has been set up.
Fail(c, to) == faults < MaxFaults /\ faults' = faults + 1 /\ Go(c, to) /\ UNCHANGED <<kern, acked, admitted>>
Refuse(c, to) == Go(c, to) /\ UNCHANGED kern /\ Quiet

\* One map operation at pc: k is the new value of the maps.
Write(c, pc, to, back, k) ==
    /\ ctl[c].pc = pc
    /\ \/ kern' = k /\ Go(c, to) /\ Quiet
       \/ Fail(c, back)
    /\ Keep

-----------------------------------------------------------------------------
(* ActivateTaintCgroup.                                                    *)

\* The plan, the receipt of this boot and its pinned links are in order.  The
\* guard must not be armed.
Activate(c, plan) ==
    /\ ctl[c].pc = "off"
    /\ kern.armed = 0
    /\ ctl' = [ctl EXCEPT ![c] = [pc |-> "a_epoch", plan |-> plan, added |-> FALSE]]
    /\ UNCHANGED kern /\ Quiet /\ Keep

ActivateEpoch(c) ==
    /\ ctl[c].pc = "a_epoch"
    /\ IF kern.epoch = 0 THEN Go(c, "a_gen") ELSE Return(c)
    /\ UNCHANGED kern /\ Quiet /\ Keep

ActivateGenerations(c) ==
    /\ ctl[c].pc = "a_gen"
    /\ IF kern.dirty = 0 /\ kern.clean = 0 THEN Go(c, "a_src") ELSE Return(c)
    /\ UNCHANGED kern /\ Quiet /\ Keep

\* UpdateNoExist.
ActivateSources(c) ==
    /\ ctl[c].pc = "a_src"
    /\ IF ctl[c].plan \notin kern.src
       THEN /\ kern' = [kern EXCEPT !.src = @ \cup {ctl[c].plan}]
            /\ ctl' = [ctl EXCEPT ![c].pc = "a_arm", ![c].added = TRUE]
       ELSE Go(c, "u_src") /\ UNCHANGED kern
    /\ Quiet /\ Keep

ActivateArm(c) == Write(c, "a_arm", "a_probe", "u_src", [kern EXCEPT !.armed = 1])

ActivateProbe(c) ==
    /\ ctl[c].pc = "a_probe"
    /\ IF Revalidate(ctl[c].plan)
       THEN Refuse(c, "a_dirty") /\ ObservedInPlace
       ELSE Refuse(c, "u_src") /\ UNCHANGED <<moving, slipped>>
    /\ KeepWorld

ActivateDirty(c) ==
    /\ ctl[c].pc = "a_dirty"
    /\ IF kern.dirty = 0 THEN Refuse(c, "a_allow") ELSE Refuse(c, "u_src")
    /\ Keep

ActivateAllow(c) == Write(c, "a_allow", "a_fail", "u_src", [kern EXCEPT !.allow = "mask"])
ActivateFailures(c) == Write(c, "a_fail", "a_first", "u_src", [kern EXCEPT !.fail = 0])
ActivateFirstEpoch(c) == Write(c, "a_first", "a_on", "u_src", [kern EXCEPT !.epoch = 1])

\* The activation point, UpdateNoExist.
ActivateCgroup(c) ==
    /\ ctl[c].pc = "a_on"
    /\ IF ~kern.active
       THEN \/ kern' = [kern EXCEPT !.active = TRUE] /\ Return(c) /\ Quiet
            \/ Fail(c, "u_src")
       ELSE Refuse(c, "u_src")
    /\ Keep

\* The rollback; its own failures are ignored.
RollbackSources(c) ==
    /\ ctl[c].pc = "u_src"
    /\ kern' = IF ctl[c].added THEN [kern EXCEPT !.src = @ \ {ctl[c].plan}] ELSE kern
    /\ Go(c, "u_maps") /\ Quiet /\ Keep

RollbackMaps(c) ==
    /\ ctl[c].pc = "u_maps"
    /\ kern' = [kern EXCEPT !.allow = None, !.fail = None]
    /\ Go(c, "u_arm") /\ Quiet /\ Keep

RollbackArm(c) ==
    /\ ctl[c].pc = "u_arm"
    /\ kern' = [kern EXCEPT !.armed = 0]
    /\ Go(c, "u_epoch") /\ Quiet /\ Keep

RollbackEpoch(c) ==
    /\ ctl[c].pc = "u_epoch"
    /\ kern' = [kern EXCEPT !.epoch = 0]
    /\ Return(c) /\ Quiet /\ Keep

-----------------------------------------------------------------------------
(* Authorizations.                                                         *)

\* SignJointTaintRecoveryAuthorization, by the pinned pair of principals or by
\* another pair, over the generation and the epoch the signers were shown, and
\* over a plan.
SignJointAuthorization(who, p) ==
    /\ Cardinality(auths) < MaxAuth
    /\ kern.epoch # 0 /\ kern.dirty > kern.clean
    /\ auths' = auths \cup {[plan |-> p, boot |-> boot, from |-> kern.epoch, to |-> kern.epoch + 1,
                             dirty |-> kern.dirty, signer |-> who, id |-> Cardinality(auths)]}
    /\ UNCHANGED <<path, moving, slipped, kern, boot, plans, expired, ctl, acked, admitted, faults>>

Expire(a) ==
    /\ a \in auths \ expired
    /\ expired' = expired \cup {a}
    /\ UNCHANGED <<path, moving, slipped, kern, boot, plans, auths, ctl, acked, admitted, faults>>

\* ValidateTaintRecoveryAuthorization.
ValidateAuthorization(a) == a.from # 0 /\ a.to = a.from + 1 /\ a.dirty # 0

\* VerifyJointTaintRecoveryAuthorizationWithWitnessVerifier.
VerifyJoint(a) == ValidateAuthorization(a) /\ a \notin expired

\* TaintRecoveryTrustRoot.Verify: the two key ids are the pinned ones.
TrustVerify(a) == a.signer = "pinned" /\ VerifyJoint(a)

\* ValidateTaintRecoveryAuthorizationBootBinding.
BootBinding(a) == a.boot = boot

-----------------------------------------------------------------------------
(* RecoverTaintSourceContinuity.                                           *)

\* The checks before the maps are read; the plan is the one of the digest.
Recover(c, a) ==
    /\ ctl[c].pc = "off"
    /\ TrustVerify(a) /\ BootBinding(a)
    /\ kern.active
    /\ ctl' = [ctl EXCEPT ![c] = [pc |-> "r_epoch", auth |-> a, late |-> a \in acked]]
    /\ UNCHANGED kern /\ Quiet /\ Keep

\* The arm flag and the epoch.
RecoverEpoch(c) ==
    /\ ctl[c].pc = "r_epoch"
    /\ ctl' = [ctl EXCEPT ![c] = IF kern.armed = 1
                                 THEN [pc |-> "r_pending", auth |-> @.auth, late |-> @.late,
                                       epoch |-> kern.epoch]
                                 ELSE Off]
    /\ UNCHANGED kern /\ Quiet /\ Keep

RecoverPending(c) ==
    /\ ctl[c].pc = "r_pending"
    /\ ctl' = [ctl EXCEPT ![c] = [pc |-> "r_gen", auth |-> @.auth, late |-> @.late,
                                  epoch |-> @.epoch, pending |-> kern.pending]]
    /\ UNCHANGED kern /\ Quiet /\ Keep

\* fresh, resumeBeforeEpoch or resumeAfterEpoch.
Admissible(s) ==
    \/ s.epoch = s.auth.from /\ s.pending \in {None, s.auth}
    \/ s.epoch = s.auth.to /\ s.pending = s.auth

\* completedPending.
Completed(s) ==
    /\ s.epoch = s.auth.to /\ s.pending = s.auth
    /\ kern.dirty = s.auth.dirty /\ kern.clean = s.auth.dirty

\* The generation is the authorized one and the allow-mask is unchanged.
Continuity(s) == kern.dirty > kern.clean /\ kern.dirty = s.auth.dirty /\ kern.allow # None

\* DIRTY and CLEAN are read and the state compared.
RecoverGenerations(c) ==
    /\ ctl[c].pc = "r_gen"
    /\ IF ~Admissible(ctl[c]) THEN Return(c)
       ELSE IF Completed(ctl[c]) THEN Go(c, "r_ack")
       ELSE IF Continuity(ctl[c]) THEN Go(c, "r_probe") ELSE Return(c)
    /\ UNCHANGED kern /\ Quiet /\ Keep

\* A completed recovery is acknowledged again.
RecoverAcknowledge(c) ==
    /\ ctl[c].pc = "r_ack"
    /\ IF Revalidate(ctl[c].auth.plan) THEN Refuse(c, "r_clear") ELSE Return(c) /\ UNCHANGED kern /\ Quiet
    /\ Keep

\* The sources are observed, and the source map is saved for the rollback.
RecoverProbe(c) ==
    /\ ctl[c].pc = "r_probe"
    /\ ctl' = [ctl EXCEPT ![c] = IF Revalidate(@.auth.plan)
                                 THEN [pc |-> "r_delete", auth |-> @.auth, late |-> @.late,
                                       epoch |-> @.epoch, pending |-> @.pending, saved |-> kern.src]
                                 ELSE Off]
    /\ UNCHANGED kern /\ Quiet /\ Keep

\* replaceTaintSourceMap: the stale keys go, then the new ones come (NoExist).
ReplaceDelete(c) == Write(c, "r_delete", "r_insert", "v_delete", [kern EXCEPT !.src = {}])

ReplaceInsert(c) ==
    /\ ctl[c].pc = "r_insert"
    /\ IF ctl[c].auth.plan \notin kern.src
       THEN \/ kern' = [kern EXCEPT !.src = @ \cup {ctl[c].auth.plan}] /\ Go(c, "r_again") /\ Quiet
            \/ Fail(c, "v_delete")
       ELSE Refuse(c, "v_delete")
    /\ Keep

\* Mutant: the sources are not observed again with the new map in place.
RecoverAgainSkipped(c) ==
    /\ ctl[c].pc = "r_again"
    /\ Refuse(c, "r_dirty")
    /\ Keep

RecoverAgain(c) ==
    /\ ctl[c].pc = "r_again"
    /\ IF Revalidate(ctl[c].auth.plan)
       THEN Refuse(c, "r_dirty") /\ ObservedInPlace
       ELSE Refuse(c, "v_delete") /\ UNCHANGED <<moving, slipped>>
    /\ KeepWorld

\* DIRTY again: then the commitment, unless it was already there.
RecoverDirty(c) ==
    /\ ctl[c].pc = "r_dirty"
    /\ IF kern.dirty = ctl[c].auth.dirty
       THEN Refuse(c, IF ctl[c].pending = None THEN "r_commit" ELSE "r_advance")
       ELSE Refuse(c, "v_delete")
    /\ Keep

RecoverCommit(c) == Write(c, "r_commit", "r_advance", "v_delete", [kern EXCEPT !.pending = ctl[c].auth])

\* The epoch, unless it had advanced when it was read.
RecoverAdvance(c) ==
    Write(c, "r_advance", "r_clean", "v_delete",
          IF ctl[c].epoch = ctl[c].auth.from THEN [kern EXCEPT !.epoch = ctl[c].auth.to] ELSE kern)

\* The effect boundary: the watermark becomes the authorized generation.
RecoverClean(c) ==
    /\ ctl[c].pc = "r_clean"
    /\ \/ /\ kern' = [kern EXCEPT !.clean = ctl[c].auth.dirty]
          /\ admitted' = ctl[c].auth /\ Go(c, "r_clear") /\ UNCHANGED <<acked, faults>>
       \/ Fail(c, "v_delete")
    /\ Keep

\* The commitment is cleared and the result returned; no rollback from here.
RecoverClear(c) ==
    /\ ctl[c].pc = "r_clear"
    /\ \/ /\ kern' = [kern EXCEPT !.pending = None]
          /\ acked' = acked \cup {ctl[c].auth} /\ UNCHANGED <<admitted, faults>>
       \/ faults < MaxFaults /\ faults' = faults + 1 /\ UNCHANGED <<kern, acked, admitted>>
    /\ Return(c) /\ Keep

\* restoreTaintSourceMap.
RestoreDelete(c) ==
    /\ ctl[c].pc = "v_delete"
    /\ kern' = [kern EXCEPT !.src = {}]
    /\ Go(c, "v_insert") /\ Quiet /\ Keep

RestoreInsert(c) ==
    /\ ctl[c].pc = "v_insert"
    /\ kern' = [kern EXCEPT !.src = @ \cup ctl[c].saved]
    /\ Return(c) /\ Quiet /\ Keep

-----------------------------------------------------------------------------
\* A controller dies; no deferred function runs.
Die(c) ==
    /\ ctl[c].pc # "off" /\ faults < MaxFaults
    /\ faults' = faults + 1
    /\ Return(c)
    /\ UNCHANGED <<path, moving, slipped, kern, boot, plans, auths, expired, acked, admitted>>

\* The host reboots: the maps and the controllers are gone, a signed bootstrap
\* makes new maps.
Reboot ==
    /\ boot < MaxBoot
    /\ boot' = boot + 1
    /\ kern' = Empty
    /\ ctl' = [c \in Controllers |-> Off]
    /\ moving' = None /\ slipped' = FALSE /\ admitted' = None
    /\ UNCHANGED <<path, plans, auths, expired, acked, faults>>

-----------------------------------------------------------------------------
Init ==
    /\ path = 1 /\ moving = None /\ slipped = FALSE
    /\ kern = Empty
    /\ boot = 1
    /\ plans = {} /\ auths = {} /\ expired = {}
    /\ ctl = [c \in Controllers |-> Off]
    /\ acked = {} /\ admitted = None
    /\ faults = 0

ActivationStep(c) ==
    \/ ActivateEpoch(c) \/ ActivateGenerations(c) \/ ActivateSources(c) \/ ActivateArm(c)
    \/ ActivateProbe(c) \/ ActivateDirty(c) \/ ActivateAllow(c) \/ ActivateFailures(c)
    \/ ActivateFirstEpoch(c) \/ ActivateCgroup(c)
    \/ RollbackSources(c) \/ RollbackMaps(c) \/ RollbackArm(c) \/ RollbackEpoch(c)

RecoveryStep(c) ==
    \/ RecoverEpoch(c) \/ RecoverPending(c) \/ RecoverGenerations(c) \/ RecoverAcknowledge(c)
    \/ RecoverProbe(c) \/ ReplaceDelete(c) \/ ReplaceInsert(c) \/ RecoverAgain(c) \/ RecoverDirty(c)
    \/ RecoverCommit(c) \/ RecoverAdvance(c) \/ RecoverClean(c) \/ RecoverClear(c)
    \/ RestoreDelete(c) \/ RestoreInsert(c)

Next ==
    \/ \E kind \in {"rename", "mount"}, i \in Inodes : Mutate(kind, i)
    \/ MutateDone
    \/ ObservePlan
    \/ \E p \in plans, who \in {"pinned", "other"} : SignJointAuthorization(who, p)
    \/ \E a \in auths : Expire(a)
    \/ \E c \in Controllers :
          \/ \E p \in plans : Activate(c, p)
          \/ \E a \in auths : Recover(c, a)
          \/ ActivationStep(c) \/ RecoveryStep(c) \/ Die(c)
    \/ Reboot

Spec == Init /\ [][Next]_vars

\* Scheduling: a controller that runs goes on, and operators who find a recovery
\* pending present its authorization again sooner or later, whatever else they
\* present.
Represent(c) == \E a \in auths : kern.pending = a /\ Recover(c, a)
FairSpec ==
    /\ Spec
    /\ \A c \in Controllers : WF_vars(ActivationStep(c) \/ RecoveryStep(c)) /\ SF_vars(Represent(c))

-----------------------------------------------------------------------------
(* Properties.                                                             *)

TypeOK ==
    /\ plans \subseteq Inodes
    /\ path \in Inodes /\ slipped \in BOOLEAN
    /\ moving \in [to : Inodes, seen : BOOLEAN] \cup {None}
    /\ kern.src \subseteq Inodes /\ kern.dirty \in 0..MaxDirty /\ kern.clean \in 0..MaxDirty
    /\ kern.armed \in {0, 1} /\ kern.epoch \in Nat /\ kern.pending \in auths \cup {None}
    /\ kern.active \in BOOLEAN /\ kern.fail \in {0, None}
    /\ boot \in 1..MaxBoot /\ expired \subseteq auths /\ acked \subseteq auths
    /\ faults \in 0..MaxFaults

\* A protected cgroup has egress only while the file its source path resolves to
\* is enrolled, whatever is renamed, mounted, interrupted or rolled back.  The one
\* exception is a rename or mount that was already past its hook when the
\* controller observed the sources for the last time before it let egress through
\* (ActivateTaintCgroup, RecoverTaintSourceContinuity), and what follows it.
EgressIsTracked == Egress(kern) => path \in kern.src \/ slipped

\* What the comment on the second observation says: it closes the window, so there
\* is no exception.
MutationWindowClosed == Egress(kern) => path \in kern.src

\* The watermark only follows an authorization of this boot, signed by the
\* pinned principals, for exactly that generation, and the enrolled source is
\* the one of the plan it names.
EgressIsAuthorized ==
    Egress(kern) /\ kern.clean > 0 =>
        /\ admitted # None
        /\ admitted.boot = boot /\ admitted.signer = "pinned"
        /\ admitted.dirty = kern.clean /\ kern.src = {admitted.plan}

\* An authorization whose success was returned does not succeed again in a
\* call that starts later.
AcknowledgedOnce == \A c \in Controllers : ctl[c].pc = "r_clear" => ~ctl[c].late

\* A pinned commitment whose generation DIRTY has passed, and that no call
\* holds beyond its checks, is never cleared: neither the exact authorization
\* nor a new one restores egress before the host reboots.
Abandoned ==
    /\ kern.active /\ kern.pending # None /\ kern.dirty > kern.pending.dirty
    /\ \A c \in Controllers : ctl[c].pc \notin {"r_ack", "r_advance", "r_clean", "r_clear"}
AbandonedStaysDenied == [][Abandoned => boot' # boot \/ (Abandoned' /\ ~Egress(kern'))]_vars

\* The source map is replaced and observed again while DIRTY blocks effects.
ReplacedWhileBlocked == \A c \in Controllers : ctl[c].pc \in {"r_insert", "r_again"} => ~Egress(kern)

\* The enrollment epoch of an active cgroup only grows within a boot.
EpochMonotonic == [][kern.active /\ boot' = boot => kern'.epoch >= kern.epoch]_vars

\* A cgroup with egress is guarded: the topology hooks are armed.
EgressIsArmed == Egress(kern) => kern.armed = 1

\* No activation under way and none succeeded: the epoch is zero.
CrashLeavesEpochZero ==
    (\A c \in Controllers : ctl[c].pc = "off") /\ ~kern.active => kern.epoch = 0

\* An interrupted recovery completes, unless its authorization expires, DIRTY
\* passes its generation, the path no longer resolves to its plan or the host
\* reboots.
InterruptedResumes ==
    \A b \in 1..MaxBoot, d \in 1..MaxDirty :
       (boot = b /\ kern.pending # None /\ kern.pending.dirty = d /\ kern.dirty = d)
       ~> \/ boot # b \/ kern.dirty # d
          \/ kern.pending = None /\ kern.clean = d
          \/ kern.pending # None /\ (kern.pending \in expired \/ kern.pending.plan # path)
=============================================================================
