-------------------------- MODULE MCDeviceTrust -----------------------------
(***************************************************************************)
(* The trust in a device: the quote and the decision on it                 *)
(* (RemoteAttestation), the lineage of enrolled identities                 *)
(* (DeviceEnrollment) and the monotonic root in the counter of its TPM     *)
(* (TPMRoot). A behaviour moves one of them, in one setting of its bounds, *)
(* and leaves the others in an initial state.                              *)
(***************************************************************************)
EXTENDS RemoteAttestation, TLC

CONSTANTS Parts, None, v1, v2, e1, e2, r1

VARIABLE part   \* the component this behaviour moves, and its setting

Symmetry == Permutations({v1, v2}) \cup Permutations({e1, e2})

\* The command's defaults, and a policy that turns every option off.
FullPolicy == [ima |-> TRUE, measured |-> TRUE, events |-> TRUE, modes |-> {"integrity"}]
LaxPolicy == [ima |-> FALSE, measured |-> FALSE, events |-> FALSE, modes |-> {}]
BothPolicies == {FullPolicy, LaxPolicy}

\* Two verifiers, two challenges that expire, and crashes.
Challenges == INSTANCE RemoteAttestation WITH
    Verifiers <- {v1, v2}, MaxChallenges <- 2, MaxClock <- 2, MaxLog <- 2,
    MaxFaults <- 2, Platforms <- {"fw1"}, LockdownModes <- {"integrity"},
    Policies <- {FullPolicy}

\* A log that grows during every attempt of a collection.
Collection == INSTANCE RemoteAttestation WITH
    MaxLog <- 4, Platforms <- {"fw1"}, LockdownModes <- {"integrity"},
    Policies <- {FullPolicy}

\* DeviceEnrollment: two enrollers; an older copy of the volume; ceremonies that
\* expire and hardware outside the inventory.
VARIABLES e_clock, e_ceremonies, e_proofs, e_current, e_pending, e_copy, e_anchor,
          e_owner, e_transfers, e_auths, e_call, e_told, e_faults
enrollVars == <<e_clock, e_ceremonies, e_proofs, e_current, e_pending, e_copy, e_anchor,
               e_owner, e_transfers, e_auths, e_call, e_told, e_faults>>
Race == INSTANCE DeviceEnrollment WITH
    Hardware <- {"A", "B"}, AllowedEKSPKI <- {"A", "B"}, Enrollers <- {e1, e2},
    Readers <- {}, MaxCeremonies <- 2, MaxClock <- 0, TTL <- 1, MaxTransfers <- 1,
    MaxFaults <- 1, MayRestore <- FALSE, clock <- e_clock, ceremonies <- e_ceremonies,
    proofs <- e_proofs, current <- e_current, pending <- e_pending, copy <- e_copy,
    anchor <- e_anchor, owner <- e_owner, transfers <- e_transfers, auths <- e_auths,
    call <- e_call, told <- e_told, faults <- e_faults

Restored == INSTANCE DeviceEnrollment WITH
    Hardware <- {"A", "B"}, AllowedEKSPKI <- {"A", "B"}, Enrollers <- {e1},
    Readers <- {r1}, MaxCeremonies <- 2, MaxClock <- 0, TTL <- 1, MaxTransfers <- 1,
    MaxFaults <- 2, MayRestore <- TRUE, clock <- e_clock, ceremonies <- e_ceremonies,
    proofs <- e_proofs, current <- e_current, pending <- e_pending, copy <- e_copy,
    anchor <- e_anchor, owner <- e_owner, transfers <- e_transfers, auths <- e_auths,
    call <- e_call, told <- e_told, faults <- e_faults

Ceremonies == INSTANCE DeviceEnrollment WITH
    Hardware <- {"A", "B", "X"}, AllowedEKSPKI <- {"A", "B"}, Enrollers <- {e1},
    Readers <- {}, MaxCeremonies <- 2, MaxClock <- 1, TTL <- 1, MaxTransfers <- 1,
    MaxFaults <- 2, MayRestore <- FALSE, clock <- e_clock, ceremonies <- e_ceremonies,
    proofs <- e_proofs, current <- e_current, pending <- e_pending, copy <- e_copy,
    anchor <- e_anchor, owner <- e_owner, transfers <- e_transfers, auths <- e_auths,
    call <- e_call, told <- e_told, faults <- e_faults

\* TPMRoot: one process and two scopes; one of each of two devices whose volumes
\* are exchanged; and a migration.
VARIABLES t_counter, t_file, t_boot, t_call, t_told, t_mark, t_auths, t_backup, t_now,
          t_faults
rootVars == <<t_counter, t_file, t_boot, t_call, t_told, t_mark, t_auths, t_backup,
             t_now, t_faults>>

Coordinates(t, d, r) == [dom |-> "dom", term |-> t, dec |-> d, rev |-> r]
TwoSnapshots == {Coordinates(1, 1, 0), Coordinates(1, 2, 0)}

Root == INSTANCE TPMRoot WITH
    Procs <- {1}, Devices <- {1}, Scopes <- {"s1", "s2"},
    Snapshots <- TwoSnapshots \cup {Coordinates(1, 1, 1)}, None <- None,
    Serves <- <<{1}>>, Boots <- {1, 2}, Sources <- {}, MigrationIds <- {1},
    Keys <- {"mk"}, MigrationKey <- "mk", AttestationKey <- "ak", MaxAge <- 2,
    MaxGeneration <- 4, MaxTime <- 0, MaxFaults <- 2, MaxAuths <- 0, Backups <- {},
    counter <- t_counter, file <- t_file, boot <- t_boot, call <- t_call,
    told <- t_told, mark <- t_mark, auths <- t_auths, backup <- t_backup, now <- t_now,
    faults <- t_faults

Copies == INSTANCE TPMRoot WITH
    Procs <- {1, 2}, Devices <- {1, 2}, Scopes <- {"s1"}, Snapshots <- TwoSnapshots,
    None <- None, Serves <- <<{1}, {2}>>, Boots <- {1}, Sources <- {},
    MigrationIds <- {1}, Keys <- {"mk"}, MigrationKey <- "mk", AttestationKey <- "ak",
    MaxAge <- 2, MaxGeneration <- 4, MaxTime <- 0, MaxFaults <- 2, MaxAuths <- 0,
    Backups <- {"quiescent"}, counter <- t_counter, file <- t_file, boot <- t_boot,
    call <- t_call, told <- t_told, mark <- t_mark, auths <- t_auths,
    backup <- t_backup, now <- t_now, faults <- t_faults

Migration == INSTANCE TPMRoot WITH
    Procs <- {1, 2}, Devices <- {1, 2}, Scopes <- {"s1"}, Snapshots <- TwoSnapshots,
    None <- None, Serves <- <<{1}, {2}>>, Boots <- {1}, Sources <- {1},
    MigrationIds <- {1}, Keys <- {"mk", "ak"}, MigrationKey <- "mk",
    AttestationKey <- "ak", MaxAge <- 2, MaxGeneration <- 3, MaxTime <- 1,
    MaxFaults <- 1, MaxAuths <- 2, Backups <- {}, counter <- t_counter, file <- t_file,
    boot <- t_boot, call <- t_call, told <- t_told, mark <- t_mark, auths <- t_auths,
    backup <- t_backup, now <- t_now, faults <- t_faults

SuiteVars == <<part, vars, enrollVars, rootVars>>

SuiteInit ==
  /\ part \in Parts
  /\ IF part = "challenges" THEN Challenges!Init
     ELSE Init /\ (part # "attestation" => device.platform = "fw1")
  /\ IF part = "race" THEN Race!Init
     ELSE IF part = "ceremonies" THEN Ceremonies!Init
     ELSE Restored!Init /\ (part # "restored" => e_owner.hw = "A")
  /\ CASE part = "copies" -> Copies!Init
       [] part = "migration" -> Migration!Init
       [] OTHER -> Root!Init

AttestationNext ==
  \/ part = "attestation" /\ Next
  \/ part = "collection" /\ Collection!Next
  \/ part = "challenges" /\ Challenges!Next

EnrollmentNext ==
  \/ part = "race" /\ Race!Next
  \/ part = "restored" /\ Restored!Next
  \/ part = "ceremonies" /\ Ceremonies!Next

RootNext ==
  \/ part = "root" /\ Root!Next
  \/ part = "copies" /\ Copies!Next
  \/ part = "migration" /\ Migration!Next

SuiteNext ==
  /\ UNCHANGED part
  /\ \/ AttestationNext /\ UNCHANGED <<enrollVars, rootVars>>
     \/ EnrollmentNext /\ UNCHANGED <<vars, rootVars>>
     \/ RootNext /\ UNCHANGED <<vars, enrollVars>>

SuiteSpec == SuiteInit /\ [][SuiteNext]_SuiteVars

-----------------------------------------------------------------------------
\* Evidence never mixes two instants of the host, a challenge yields at most one
\* decision, and an ALLOW speaks of the enrolled TPM inside the challenge's own
\* window.
DecisionIsSound ==
  IF part = "challenges"
  THEN Challenges!TypeOK /\ Challenges!NoMixedSnapshot /\ Challenges!DecidedOnce /\ Challenges!AllowIsFresh
  ELSE Collection!TypeOK /\ NoMixedSnapshot /\ DecidedOnce /\ AllowIsFresh

\* Whatever calls race, crash or find an older volume, an enrolled identity that a
\* caller was given is anchored and stays so, and every receipt after the first is
\* a governed successor.  When one call is made at a time and the volume is not
\* exchanged, the anchored receipt can be read between calls, whatever step an
\* earlier one stopped at.
LineageIsAnchored ==
  /\ [](CASE part = "race" -> Race!TypeOK
          [] part = "ceremonies" -> Ceremonies!TypeOK /\ Ceremonies!CommittedIsReadable
          [] OTHER -> Restored!TypeOK)
  /\ [](Race!ToldIsAnchored /\ Race!LineageIsGoverned)
  /\ Race!HeadExtends

\* With one process per device, a device implements the monotonic root of the
\* interface, and with its own files recovery succeeds whatever step a process
\* stopped at; exchanged volumes never make it answer a mark its counter did not
\* commit or a lower one than before; and a migrated device keeps its lineage and
\* stays at or ahead of every mark it was authorized with.
RootStands ==
  /\ [][/\ part = "root" => Root!Abstracted
        /\ part = "copies" => Copies!ToldKept
        /\ part = "migration" => Migration!LineageKept]_rootVars
  /\ [](part = "root" => Root!TypeOK /\ Root!InterruptedIsRecoverable)
  /\ [](part = "copies" => Copies!ToldWithinMark)
  /\ [](part = "migration" =>
           Migration!TypeOK /\ Migration!MigratedMarksKept /\ Migration!InterruptedIsRecoverable)
=============================================================================
