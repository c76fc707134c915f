------------------------- MODULE MCGovernedEffects --------------------------
(***************************************************************************)
(* Effects on a destination and the record kept of them: the CRM executor  *)
(* (CRMExecutor), the runtime that lets an effect enter at most once       *)
(* (GovernedRuntime) and the hash-chained journal files (FileJournal). A   *)
(* behaviour moves one of them and leaves the others in their initial      *)
(* state.                                                                  *)
(***************************************************************************)
EXTENDS CRMExecutor, TLC

CONSTANTS Parts, g1, g2, g3, d1, d2

VARIABLE part   \* the component this behaviour moves

Symmetry == Permutations(Procs) \cup Permutations(Fields)

\* Two processes of one executor identity, and one of another.
OwnerOf(p) == IF p = g3 THEN "o2" ELSE "o1"

Keys == "p1" :> "k1" @@ "p2" :> "k2"
OtherFiles == [file |-> <<>>, exists |-> TRUE, anchor |-> [id |-> "other", head |-> <<>>, key |-> "k1"]]

\* GovernedRuntime.
VARIABLES r_target, r_admitted, r_custody, r_retained, r_late, r_pc, r_loc, r_entered,
          r_calls
runtimeVars == <<r_target, r_admitted, r_custody, r_retained, r_late, r_pc, r_loc,
                 r_entered, r_calls>>
Runtime == INSTANCE GovernedRuntime WITH
    Procs <- {g1, g2, g3}, Owner <- OwnerOf, Attempts <- {"a1"}, MaxGeneration <- 2,
    MaxLate <- 1, MaxCalls <- 3, None <- None, target <- r_target,
    admitted <- r_admitted, custody <- r_custody, retained <- r_retained,
    late <- r_late, pc <- r_pc, loc <- r_loc, entered <- r_entered, calls <- r_calls

\* FileJournal.
VARIABLES j_disk, j_durable, j_backup, j_ext, j_open, j_pc, j_loc, j_acked, j_told,
          j_calls, j_restores
journalVars == <<j_disk, j_durable, j_backup, j_ext, j_open, j_pc, j_loc, j_acked,
                 j_told, j_calls, j_restores>>
Journal == INSTANCE FileJournal WITH
    Processes <- {"p1", "p2"}, Disks <- {d1, d2}, Events <- Fields, KeyOf <- Keys,
    Foreign <- OtherFiles, PowerLoss <- FALSE, MaxCalls <- 4, MaxRestores <- 1,
    disk <- j_disk, durable <- j_durable, backup <- j_backup, ext <- j_ext,
    open <- j_open, pc <- j_pc, loc <- j_loc, acked <- j_acked, told <- j_told,
    calls <- j_calls, restores <- j_restores

SuiteVars == <<part, vars, runtimeVars, journalVars>>

\* A process of another identity takes over, or one of the same one retries.
RuntimeNext ==
  \/ part = "takeover" /\ Runtime!Next /\ r_pc'[g2] = "idle"
  \/ part = "retry" /\ Runtime!Next /\ r_pc'[g3] = "idle"

Power == INSTANCE FileJournal WITH
    Processes <- {"p1", "p2"}, Disks <- {d1, d2}, Events <- Fields, KeyOf <- Keys,
    Foreign <- OtherFiles, PowerLoss <- TRUE, MaxCalls <- 5, MaxRestores <- 0,
    disk <- j_disk, durable <- j_durable, backup <- j_backup, ext <- j_ext, open <- j_open,
    pc <- j_pc, loc <- j_loc, acked <- j_acked, told <- j_told, calls <- j_calls,
    restores <- j_restores

\* The journal of two processes, or of one that calls more often, with copies and
\* restores of its files; or of one, on one disk, whose power fails.
JournalNext ==
  \/ part = "journal" /\ Journal!Next /\ j_calls' <= 3
  \/ part = "verify" /\ Journal!Next /\ j_pc'["p2"] = "idle"
  \/ part = "power" /\ Power!Next /\ j_pc'["p2"] = "idle" /\ j_disk'[d2] = j_disk[d2]

SuiteInit ==
  /\ part \in Parts
  /\ Init /\ (part # "crm" => customer.sat = {})
  /\ Runtime!Init
  /\ Journal!Init /\ (part \notin {"journal", "verify"} => j_ext[OtherFiles.anchor.id].ver = 0)

SuiteNext ==
  /\ UNCHANGED part
  /\ \/ part = "crm" /\ Next /\ UNCHANGED <<runtimeVars, journalVars>>
     \/ RuntimeNext /\ UNCHANGED <<vars, journalVars>>
     \/ JournalNext /\ UNCHANGED <<vars, runtimeVars>>

SuiteSpec == SuiteInit /\ [][SuiteNext]_SuiteVars

-----------------------------------------------------------------------------
\* Whatever is retried, taken over or lost, the effect callback is entered at most
\* once per attempt, by the holder of the record and never on what was stale when
\* custody was retained; and the durable phase, which only moves forward, tells the
\* truth to whoever finds it.
EffectEntersOnce ==
  /\ [](/\ Runtime!TypeOK /\ Runtime!EntersOnce /\ Runtime!PhaseIsTruthful
        /\ Runtime!StaleNeverEnters /\ Runtime!ClosedWasObserved)
  /\ Runtime!CustodyForward

\* The appends that callers were told succeeded are one history per journal
\* identity, whatever processes, copies, backups and crashes there were; a history
\* found TRUSTED is the pinned journal's and has every append to it that had
\* succeeded before; and what the external head of an identity vouches for only
\* grows and survives a power failure, unless the journal file itself is gone.
JournalIsOneHistory ==
  /\ [](Journal!TypeOK /\ Journal!OneHistory /\ Journal!TrustedIsCurrent)
  /\ [](part = "power" => Journal!WitnessedIsOnDisk)
  /\ Journal!LineageGrows
=============================================================================
