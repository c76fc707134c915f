------------------------------ MODULE TPMRoot ------------------------------
(***************************************************************************)
(* The capability root whose companion files are anchored to the NV        *)
(* counter of a TPM (internal/server/tpm_monotonic_root.go), and its       *)
(* authorized migration to another device                                  *)
(* (internal/server/tpm_monotonic_root_migration*.go).                     *)
(*                                                                         *)
(* A device has a counter and two files: the committed state and the state *)
(* of the transition in progress.  A transition writes the pending file,   *)
(* increments the counter, and renames pending over committed; a process   *)
(* may stop, and any call may fail, between those steps.  The lock of a    *)
(* root is a mutex of its process: Procs are processes, each device has    *)
(* one that opens its root, and so a recovery is one step.                 *)
(***************************************************************************)
EXTENDS CapabilityCoordinates, FiniteSets, Functions

CONSTANTS
    Procs, Devices, Scopes, Snapshots, None,
    Serves,            \* process -> the devices whose root it opens
    Boots,             \* measured-boot identities
    Sources,           \* devices that migrations leave
    MigrationIds, Keys, MigrationKey, AttestationKey,
    MaxAge,            \* DefaultTPMRootMigrationRemoteDecisionMaxAge
    MaxGeneration,     \* ^uint64(0)
    MaxTime, MaxFaults, MaxAuths,
    Backups            \* when the volume is copied: {}, {"quiescent"}, {"anytime"}

VARIABLES
    counter,  \* device -> NV counter; 0: the index is not defined
    file,     \* device -> its committed and pending files
    boot,     \* device -> what its PCRs measure
    call,     \* process -> the call it is executing
    told,     \* device -> scope -> the mark of the last answer
    mark,     \* device -> scope -> the mark the counter last committed
    auths,    \* authorizations signed so far
    backup,   \* a copy of the files of a device
    now, faults

vars == <<counter, file, boot, call, told, mark, auths, backup, now, faults>>

NoScopes == [s \in Scopes |-> None]

State ==
    [dev : Devices, boot : Boots, gen : Nat, prev : Nat,
     scopes : [Scopes -> Snapshots \cup {None}], mig : auths \cup {None}]

Idle == [pc |-> "idle"]

TypeOK ==
    /\ counter \in [Devices -> 0..MaxGeneration + 2]
    /\ \A d \in Devices : \A f \in {file[d].committed, file[d].pending} :
           f = None \/ (f \in State /\ f.gen # 0)
    /\ boot \in [Devices -> Boots]
    /\ \A p \in Procs : call[p].pc \in {"idle", "define", "pending", "increment", "promote"}
    /\ \A d \in Devices : {told[d], mark[d]} \subseteq [Scopes -> Snapshots \cup {None}]
    /\ Cardinality(auths) <= MaxAuths

Init ==
    /\ counter = [d \in Devices |-> 0]
    /\ file = [d \in Devices |-> [committed |-> None, pending |-> None]]
    /\ boot \in [Devices -> {CHOOSE b \in Boots : TRUE}]
    /\ call = [p \in Procs |-> Idle]
    /\ told = [d \in Devices |-> NoScopes]
    /\ mark = [d \in Devices |-> NoScopes]
    /\ auths = {}
    /\ backup = None
    /\ now = 0
    /\ faults = 0

\* cloneTPMNVRootState and the fields of a transition.
Successor(state) == [state EXCEPT !.prev = state.gen, !.gen = state.gen + 1]

\* incrementCounter: the increment is what commits a transition, so the mark
\* is what the pending file of the new generation holds.
incrementCounter(d) ==
    /\ counter' = [counter EXCEPT ![d] = @ + 1]
    /\ mark' = LET f == file[d].pending IN
               IF f # None /\ f.gen = counter[d] + 1
               THEN [mark EXCEPT ![d] = f.scopes]
               ELSE mark

PromotePending(f) == [committed |-> f.pending, pending |-> None]

\* deviceIdentity is the digest of the endorsement key's name, and
\* measuredBootIdentity that of the boot PCRs: each names what it is read from.
deviceIdentity(d) == d

measuredBootIdentity(d) == boot[d]

\* readCounter: an index that is not defined cannot be read.
readCounter(d) == counter[d]

\* readTPMNVRootState: a file that is missing, or whose digest does not verify,
\* is not a state.
readState(f) == IF f # None /\ f.gen = 0 THEN None ELSE f

\* recoverLocked: whether the generations of the counter, the committed and
\* the pending file are those of a transition; what is left of the files.
RecoverIdentity(d) ==
    LET f == file[d] IN
    /\ readCounter(d) # 0 /\ readState(f.committed) # None
    /\ f.committed.dev = deviceIdentity(d) /\ f.committed.boot = measuredBootIdentity(d)
    /\ f.pending # None => f.pending.dev = f.committed.dev /\ f.pending.boot = f.committed.boot

\* Mutant: a state older than the counter is taken.
RecoverStale(d) == file[d].committed.gen <= counter[d] /\ file[d].pending = None

RecoverGenerations(d) ==
    LET c == file[d].committed
        p == file[d].pending
        next == p # None /\ p.prev = c.gen /\ p.gen = c.gen + 1
    IN  \/ c.gen = counter[d] /\ (p = None \/ next)
        \/ c.gen # counter[d] /\ next /\ p.gen = counter[d]

RecoverFiles(d) ==
    LET f == file[d] IN
    IF f.pending = None \/ f.committed.gen = counter[d] THEN [f EXCEPT !.pending = None] ELSE PromotePending(f)

Recoverable(d) == RecoverIdentity(d) /\ RecoverGenerations(d)

recoverLocked(d) == Recoverable(d) /\ file' = [file EXCEPT ![d] = RecoverFiles(d)]

Recovered(d) == RecoverFiles(d).committed

Tell(d, s, v) == told' = [told EXCEPT ![d][s] = v]

(***************************************************************************)
(* ProvisionTPMNVMonotonicRoot                                             *)
(***************************************************************************)
Provision(p, d) ==
    /\ call[p] = Idle
    /\ file[d].committed = None /\ file[d].pending = None
    /\ counter[d] = 0
    /\ counter' = [counter EXCEPT ![d] = 1]
    /\ call' = [call EXCEPT ![p] = [pc |-> "define", dev |-> d, boot |-> boot[d]]]
    /\ UNCHANGED <<file, boot, told, mark, auths, backup, now, faults>>

ProvisionState(p) ==
    LET d == call[p].dev IN
    /\ call[p].pc = "define"
    /\ file' = [file EXCEPT ![d].committed =
                   [dev |-> d, boot |-> call[p].boot, gen |-> 1, prev |-> 0,
                    scopes |-> NoScopes, mig |-> None]]
    /\ call' = [call EXCEPT ![p] = Idle]
    /\ UNCHANGED <<counter, boot, told, mark, auths, backup, now, faults>>

(***************************************************************************)
(* Advance and Current                                                     *)
(***************************************************************************)
\* The root already covers the observation: its mark is the answer.
AdvanceCovered(p, d, s, observed) ==
    /\ call[p] = Idle
    /\ recoverLocked(d)
    /\ LET state == Recovered(d) IN
           /\ state.scopes[s] # None
           /\ Compare(state.scopes[s], observed) \in {"equal", "ahead"}
           /\ Tell(d, s, state.scopes[s])
    /\ UNCHANGED <<counter, boot, call, mark, auths, backup, now, faults>>

\* The observation is new, or ahead of the mark: a transition begins.
Advance(p, d, s, observed) ==
    /\ call[p] = Idle
    /\ ValidSnapshot(observed)
    /\ recoverLocked(d)
    /\ LET state == Recovered(d) IN
           /\ state.scopes[s] # None => Compare(state.scopes[s], observed) = "behind"
           /\ state.gen # MaxGeneration
           /\ call' = [call EXCEPT ![p] =
                          [pc |-> "pending", dev |-> d, scope |-> s,
                           next |-> [Successor(state) EXCEPT !.scopes[s] = observed]]]
    /\ UNCHANGED <<counter, boot, told, mark, auths, backup, now, faults>>

\* Current: the mark of a scope the root knows.
Current(p, d, s) ==
    /\ call[p] = Idle
    /\ recoverLocked(d)
    /\ LET state == Recovered(d) IN
           /\ state.scopes[s] # None
           /\ Tell(d, s, state.scopes[s])
    /\ UNCHANGED <<counter, boot, call, mark, auths, backup, now, faults>>

\* CurrentPlatformMeasurement: only what recovery repairs changes.
CurrentPlatformMeasurement(p, d) ==
    /\ call[p] = Idle
    /\ recoverLocked(d)
    /\ UNCHANGED <<counter, boot, call, told, mark, auths, backup, now, faults>>

(***************************************************************************)
(* The steps of a transition                                               *)
(***************************************************************************)
Goto(p, pc) == call' = [call EXCEPT ![p].pc = pc]

\* writeTPMNVRootStateAtomic of the pending file.
WritePending(p) ==
    /\ call[p].pc = "pending"
    /\ file' = [file EXCEPT ![call[p].dev].pending = call[p].next]
    /\ Goto(p, "increment")
    /\ UNCHANGED <<counter, boot, told, mark, auths, backup, now, faults>>

\* A counter that is not the generation of the transition ends the call.
Increment(p) ==
    LET d == call[p].dev IN
    /\ call[p].pc = "increment"
    /\ incrementCounter(d)
    /\ IF counter[d] + 1 = call[p].next.gen THEN Goto(p, "promote")
       ELSE call' = [call EXCEPT ![p] = Idle]
    /\ UNCHANGED <<file, boot, told, auths, backup, now, faults>>

\* promoteTPMNVRootPending, whatever the pending file now holds; Advance then
\* answers what it observed, Migrate nothing.
Promote(p) ==
    LET d == call[p].dev
        s == call[p].scope
    IN  /\ call[p].pc = "promote"
        /\ file[d].pending # None
        /\ file' = [file EXCEPT ![d] = PromotePending(@)]
        /\ IF s = None THEN UNCHANGED told ELSE Tell(d, s, call[p].next.scopes[s])
        /\ call' = [call EXCEPT ![p] = Idle]
        /\ UNCHANGED <<counter, boot, mark, auths, backup, now, faults>>

\* The rename takes place and the directory cannot be synced: no answer.
PromoteUnsynced(p) ==
    /\ call[p].pc = "promote"
    /\ file[call[p].dev].pending # None
    /\ faults < MaxFaults
    /\ faults' = faults + 1
    /\ file' = [file EXCEPT ![call[p].dev] = PromotePending(@)]
    /\ call' = [call EXCEPT ![p] = Idle]
    /\ UNCHANGED <<counter, boot, told, mark, auths, backup, now>>

\* A step fails, the rename without a pending file too, or the process stops: with what it has done so far in place.
Fail(p) ==
    /\ call[p] # Idle
    /\ faults < MaxFaults
    /\ faults' = faults + 1
    /\ call' = [call EXCEPT ![p] = Idle]
    /\ UNCHANGED <<counter, file, boot, told, mark, auths, backup, now>>

(***************************************************************************)
(* Migration to another device                                             *)
(***************************************************************************)
\* VerifySignedTPMRootMigrationDestinationAttestation, under the Genesis-bound
\* trust: ALLOW, the verifier's key, a remote decision not older than MaxAge,
\* and a window that does not outlive it.  The clock skew is below one unit.
ValidateAttestation(att) == att.gen # 0 /\ att.decision = "ALLOW" /\ att.verifiedAt < att.expires

VerifyAttestation(att) ==
    /\ ValidateAttestation(att)
    /\ att.key = AttestationKey
    /\ att.remoteAt <= now
    /\ att.remoteAt <= att.verifiedAt
    /\ now < att.remoteAt + MaxAge
    /\ att.expires <= att.remoteAt + MaxAge
    /\ att.verifiedAt <= now /\ now < att.expires

\* VerifySignedTPMRootMigrationAuthorization.
ValidateAuthorization(a) ==
    /\ a.source.gen # 0 /\ a.gen # 0
    /\ a.source.dev # a.dest
    /\ a.notBefore < a.expires

VerifyAuthorization(a) ==
    /\ ValidateAuthorization(a)
    /\ a.key = MigrationKey
    /\ a.notBefore <= now /\ now < a.expires

\* matchesAuthorization, publicKeyEquals and the fields that bind the
\* authorization to the attestation it names.
BoundToAttestation(a) ==
    /\ AttestationKey # MigrationKey
    /\ a.att.id = a.id /\ a.att.dev = a.dest /\ a.att.gen = a.gen

\* SignTPMRootMigrationAuthorization over the source's committed file and the
\* state of the destination, with the attestation of the destination
\* (SignTPMRootMigrationDestinationAttestation) it commits to.
SignMigration(src, dst, id, key, remoteAt) ==
    LET s == file[src].committed
        d == file[dst].committed
        att == [id |-> id, dev |-> dst, boot |-> boot[dst], gen |-> d.gen, decision |-> "ALLOW",
                remoteAt |-> remoteAt, verifiedAt |-> now, expires |-> remoteAt + MaxAge,
                key |-> AttestationKey]
        a == [id |-> id, source |-> [dev |-> s.dev, gen |-> s.gen, scopes |-> s.scopes],
              dest |-> dst, gen |-> d.gen, att |-> att,
              notBefore |-> now, expires |-> now + MaxAge, key |-> key]
    IN  /\ src # dst
        /\ s # None /\ d # None
        /\ remoteAt <= now
        /\ Cardinality(auths) < MaxAuths
        /\ ValidateAttestation(att) /\ ValidateAuthorization(a)
        /\ auths' = auths \cup {a}
        /\ UNCHANGED <<counter, file, boot, call, told, mark, backup, now, faults>>

\* The source file is the one the authorization names, and has marks.
SourceMatches(a) ==
    \E src \in Devices :
        /\ file[src].committed # None
        /\ LET s == file[src].committed IN
               a.source = [dev |-> s.dev, gen |-> s.gen, scopes |-> s.scopes]
        /\ a.source.scopes # NoScopes

\* The destination is the authorized one, as attested, and empty; a commitment
\* it already carries is a replay.
DestinationMatches(a, state) ==
    /\ state.mig # a
    /\ state.dev = a.dest /\ state.gen = a.gen
    /\ state.boot = a.att.boot
    /\ state.scopes = NoScopes
    /\ state.gen # MaxGeneration

MigrateTPMNVMonotonicRoot(p, d, a) ==
    /\ call[p] = Idle
    /\ VerifyAuthorization(a) /\ VerifyAttestation(a.att) /\ BoundToAttestation(a)
    /\ SourceMatches(a)
    /\ recoverLocked(d)
    /\ LET state == Recovered(d) IN
           /\ DestinationMatches(a, state)
           /\ call' = [call EXCEPT ![p] =
                          [pc |-> "pending", dev |-> d, scope |-> None,
                           next |-> [Successor(state) EXCEPT !.mig = a, !.scopes = a.source.scopes]]]
    /\ UNCHANGED <<counter, boot, told, mark, auths, backup, now, faults>>

\* A migration that is refused on the destination: recovery has run.
MigrateRefused(p, d, a) ==
    /\ call[p] = Idle
    /\ VerifyAuthorization(a) /\ VerifyAttestation(a.att) /\ BoundToAttestation(a)
    /\ SourceMatches(a)
    /\ recoverLocked(d)
    /\ ~DestinationMatches(a, Recovered(d))
    /\ UNCHANGED <<counter, boot, call, told, mark, auths, backup, now, faults>>

(***************************************************************************)
(* The environment                                                         *)
(***************************************************************************)
\* The device boots, perhaps with other measurements: its processes stop.
Reboot(d, b) ==
    /\ faults < MaxFaults
    /\ faults' = faults + 1
    /\ boot' = [boot EXCEPT ![d] = b]
    /\ call' = [p \in Procs |-> IF call[p] # Idle /\ call[p].dev = d THEN Idle ELSE call[p]]
    /\ UNCHANGED <<counter, file, told, mark, auths, backup, now>>

\* The volume with the files is copied, at any time or between transitions, and
\* restored on a device while no process uses it.
Backup(d) ==
    /\ \/ "anytime" \in Backups
       \/ "quiescent" \in Backups /\ file[d].pending = None
    /\ backup = None
    /\ file[d].committed # None
    /\ backup' = file[d]
    /\ UNCHANGED <<counter, file, boot, call, told, mark, auths, now, faults>>

Restore(d) ==
    /\ backup # None
    /\ \A p \in Procs : call[p] # Idle => call[p].dev # d
    /\ faults < MaxFaults
    /\ faults' = faults + 1
    /\ file' = [file EXCEPT ![d] = backup]
    /\ UNCHANGED <<counter, boot, call, told, mark, auths, backup, now>>

Tick ==
    /\ now < MaxTime
    /\ now' = now + 1
    /\ UNCHANGED <<counter, file, boot, call, told, mark, auths, backup, faults>>

Roots(p, d) ==
    \/ Provision(p, d)
    \/ CurrentPlatformMeasurement(p, d)
    \/ \E s \in Scopes :
           \/ Current(p, d, s)
           \/ \E observed \in Snapshots :
                  Advance(p, d, s, observed) \/ AdvanceCovered(p, d, s, observed)
    \/ \E a \in auths : MigrateTPMNVMonotonicRoot(p, d, a) \/ MigrateRefused(p, d, a)

Next ==
    \/ \E p \in Procs : \E d \in Serves[p] : Roots(p, d)
    \/ \E p \in Procs :
           \/ ProvisionState(p) \/ WritePending(p) \/ Increment(p)
           \/ Promote(p) \/ PromoteUnsynced(p) \/ Fail(p)
    \/ \E d \in Devices : Backup(d) \/ Restore(d) \/ \E b \in Boots : Reboot(d, b)
    \/ \E src \in Sources, dst \in Devices, id \in MigrationIds, key \in Keys, remoteAt \in 0..MaxTime :
           SignMigration(src, dst, id, key, remoteAt)
    \/ Tick

Spec == Init /\ [][Next]_vars

(***************************************************************************)
(* Properties                                                              *)
(***************************************************************************)
\* What one device promises is the monotonic root of the interface: whatever
\* step the process stopped at, an answer is the mark the counter committed,
\* and that mark only moves ahead.
Only == CHOOSE d \in Devices : TRUE
Abstract == INSTANCE MonotonicRoot
    WITH root <- mark[Only], told <- told[Only], Above <- Supersedes
Abstracted == [Abstract!Next]_<<mark[Only], told[Only]>>

\* Whatever is restored or interrupted, no answer of a device is below an
\* earlier answer: "after a successful observation of Tn+1, a later Advance(Tn)
\* must not lower the root" (capability_monotonic_root.go).
ToldKept ==
    \A d \in Devices, s \in Scopes : told[d][s] # None => AtLeast(told'[d][s], told[d][s])

\* Files of another device, or of another time, never make a device answer a
\* mark its own counter did not commit.
ToldWithinMark ==
    \A d \in Devices, s \in Scopes :
        told[d][s] # None => mark[d][s] # None /\ AtLeast(mark[d][s], told[d][s])

\* What "must not lower the root" (capability_monotonic_root.go) says when two
\* processes open the root of one device, which its lock does not exclude: the
\* counter never commits a lower mark.
MarkKept ==
    \A d \in Devices, s \in Scopes : mark[d][s] # None => AtLeast(mark'[d][s], mark[d][s])

\* A migration is committed once, onto a device that has no mark, and from then
\* on that device is at or ahead of every mark of the source state the
\* authorization names: neither a crash inside the transition nor another
\* authorization for the same destination loses or replaces one.
MigratedMarksKept ==
    \A d \in Devices :
        LET c == file[d].committed IN
        c # None /\ c.dev = d /\ c.mig # None /\ c.gen = counter[d] =>
            \A s \in Scopes :
                c.mig.source.scopes[s] # None =>
                    /\ mark[d][s] # None
                    /\ AtLeast(mark[d][s], c.mig.source.scopes[s])

\* The lineage of a device never changes once it is written: what is committed
\* under one authorization is not replaced by another.
LineageKept ==
    \A d \in Devices :
        LET c == file[d].committed
            n == file'[d].committed
        IN  c # None /\ c.mig # None => n.mig = c.mig

\* Reverting a process failure costs no availability: with one process per
\* device and its own files in place, recovery always succeeds in the boot the
\* root was provisioned in.
InterruptedIsRecoverable ==
    \A d \in Devices :
        file[d].committed # None /\ backup = None /\ boot[d] = file[d].committed.boot
            => Recoverable(d)
=============================================================================
