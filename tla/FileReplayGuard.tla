-------------------------- MODULE FileReplayGuard --------------------------
(***************************************************************************)
(* internal/server/replay.go: the execution-claim record of one            *)
(* authorization kept in three files of a directory,                       *)
(*   "state"      <key>.state.json  the record                             *)
(*   "claimed"    <key>.claimed     marker created by the one claimant     *)
(*   "finalized"  <key>.finalized   marker with the one final state        *)
(*                                                                         *)
(* Callers interleave at every system call; any call may fail, or the      *)
(* process die, between two of them; and the machine may lose power, when  *)
(* whatever was not fsynced may be gone.                                   *)
(***************************************************************************)
EXTENDS Naturals

CONSTANTS Callers,        \* requests of the processes that share the directory
          Details,        \* outcomes and abort reasons
          NoDetail,       \* the empty outcome or reason
          MaxCalls,       \* bound: operations started in all
          MaxPowerLosses  \* bound: power failures in all

VARIABLES cur,        \* the content of each file now
          old,        \* what else a power failure may leave under its name
          synced,     \* is the content of the current file on disk?
          pc, goal,   \* where each caller is; what a finalizing caller writes
          calls, powerLosses,
          granted,    \* how many calls of Claim returned nil
          acked,      \* the finalizations that returned nil
          persisted,  \* those whose caller wrote and fsynced the record itself
          since,      \* was the claim granted when this State call began?
          observed    \* what the last State call returned: <<state, since>>

fs == <<cur, old, synced>>
history == <<granted, acked, persisted, since, observed>>
vars == <<fs, pc, goal, calls, powerLosses, history>>

Files == {"state", "claimed", "finalized"}
Final == {"CONSUMED", "ABORTED"}
Detail == Details \cup {NoDetail}

Absent == <<"ABSENT", NoDetail>>
Empty == <<"EMPTY", NoDetail>>    \* created and not, or only partly, written
Issued == <<"ISSUED", NoDetail>>
Claimed == <<"CLAIMED", NoDetail>>
Content == {Absent, Empty, Issued, Claimed} \cup (Final \X Detail)

\* What a power failure may leave under a name.
Survivors(f) == old[f] \cup {cur[f]} \cup (IF synced[f] THEN {} ELSE {Empty})

\* open(O_CREAT|O_EXCL) of an absent name, write, fsync, rename of a fsynced
\* temporary file over a name, and fsync of the directory.
CreateExclusive(f) ==
  /\ cur[f] = Absent
  /\ cur' = [cur EXCEPT ![f] = Empty]
  /\ old' = [old EXCEPT ![f] = @ \cup {Absent}]
  /\ synced' = [synced EXCEPT ![f] = FALSE]

WriteFile(f, v) == cur' = [cur EXCEPT ![f] = v] /\ UNCHANGED <<old, synced>>

SyncFile(f) == synced' = [synced EXCEPT ![f] = TRUE] /\ UNCHANGED <<cur, old>>

RenameOver(f, v) ==
  /\ old' = [old EXCEPT ![f] = Survivors(f)]
  /\ cur' = [cur EXCEPT ![f] = v]
  /\ synced' = [synced EXCEPT ![f] = TRUE]

\* (mutant) The directory is never fsynced.
SyncDirectoryNever == UNCHANGED fs

SyncDirectory == old' = [f \in Files |-> {}] /\ UNCHANGED <<cur, synced>>

Goto(c, l) == pc' = [pc EXCEPT ![c] = l]
Return(c) == Goto(c, "idle")
Exists(f) == cur[f] # Absent

-----------------------------------------------------------------------------
Init ==
  /\ cur = [f \in Files |-> Absent]
  /\ old = [f \in Files |-> {}]
  /\ synced = [f \in Files |-> TRUE]
  /\ pc = [c \in Callers |-> "idle"]
  /\ goal = [c \in Callers |-> Claimed]
  /\ calls = 0
  /\ powerLosses = 0
  /\ granted = 0
  /\ acked = {}
  /\ persisted = {}
  /\ since = [c \in Callers |-> FALSE]
  /\ observed = <<Absent, FALSE>>

Begin(c, l) ==
  /\ pc[c] = "idle"
  /\ calls < MaxCalls
  /\ calls' = calls + 1
  /\ Goto(c, l)
  /\ UNCHANGED <<fs, powerLosses, granted, acked, persisted, observed>>

Issue(c) == Begin(c, "issueStat") /\ UNCHANGED <<goal, since>>
Claim(c) == Begin(c, "claimCreate") /\ UNCHANGED <<goal, since>>

Consume(c, d) ==
  /\ Begin(c, "finalizeCreate")
  /\ goal' = [goal EXCEPT ![c] = <<"CONSUMED", d>>]
  /\ UNCHANGED since

\* An empty reason is refused before any file is touched, so only Details start.
Abort(c, d) ==
  /\ Begin(c, "finalizeCreate")
  /\ goal' = [goal EXCEPT ![c] = <<"ABORTED", d>>]
  /\ UNCHANGED since

State(c) ==
  /\ Begin(c, "stateRead")
  /\ since' = [since EXCEPT ![c] = granted > 0]
  /\ UNCHANGED goal

\* A system call of caller c: where it is, what it does, where it goes.
At(c, l) == pc[c] = l /\ UNCHANGED <<goal, calls, powerLosses, since>>

-----------------------------------------------------------------------------
\* Issue: no claim marker, then an exclusive create of the record.  An existing
\* record is read, and nothing changes whether Issue returns nil or an error.
IssueStat(c) ==
  /\ At(c, "issueStat")
  /\ IF Exists("claimed") THEN Return(c) ELSE Goto(c, "issueCreate")
  /\ UNCHANGED <<fs, history>>

IssueCreate(c) ==
  /\ At(c, "issueCreate")
  /\ \/ CreateExclusive("state") /\ Goto(c, "issueWrite")
     \/ Exists("state") /\ Return(c) /\ UNCHANGED fs
  /\ UNCHANGED history

\* The write goes to the file this caller created, which a claimant may have
\* replaced by rename meanwhile: then it reaches nobody.
IssueWrite(c) ==
  /\ At(c, "issueWrite")
  /\ \/ cur["state"] = Empty /\ WriteFile("state", Issued)
     \/ cur["state"] # Empty /\ UNCHANGED fs
  /\ Goto(c, "issueSync")
  /\ UNCHANGED history

IssueSync(c) ==
  /\ At(c, "issueSync")
  /\ SyncFile("state")
  /\ Goto(c, "issueDir")
  /\ UNCHANGED history

IssueDir(c) ==
  /\ At(c, "issueDir")
  /\ SyncDirectory
  /\ Return(c)
  /\ UNCHANGED history

-----------------------------------------------------------------------------
\* Claim: the exclusive create of the marker decides the race.
ClaimCreate(c) ==
  /\ At(c, "claimCreate")
  /\ \/ CreateExclusive("claimed") /\ Goto(c, "claimDir")
     \/ Exists("claimed") /\ Return(c) /\ UNCHANGED fs
  /\ UNCHANGED history

\* The marker's content is never read: its fsync and the directory's are one.
ClaimDir(c) ==
  /\ At(c, "claimDir")
  /\ old' = [f \in Files |-> {}]
  /\ synced' = [synced EXCEPT !["claimed"] = TRUE]
  /\ UNCHANGED cur
  /\ Goto(c, "claimRead")
  /\ UNCHANGED history

\* The record must be ISSUED, or missing (a claim without a prior Issue).
ClaimRead(c) ==
  /\ At(c, "claimRead")
  /\ IF cur["state"] \in {Issued, Absent} THEN Goto(c, "claimRename") ELSE Return(c)
  /\ UNCHANGED <<fs, history>>

ClaimRename(c) ==
  /\ At(c, "claimRename")
  /\ RenameOver("state", Claimed)
  /\ Goto(c, "claimAck")
  /\ UNCHANGED history

ClaimAck(c) ==
  /\ At(c, "claimAck")
  /\ SyncDirectory
  /\ granted' = granted + 1
  /\ Return(c)
  /\ UNCHANGED <<acked, persisted, since, observed>>

-----------------------------------------------------------------------------
\* (mutant) A marker left by somebody else is taken for one's own.
FinalizeCreateShared(c) ==
  /\ At(c, "finalizeCreate")
  /\ \/ CreateExclusive("finalized") /\ Goto(c, "finalizeWrite")
     \/ Exists("finalized") /\ Goto(c, "finalizeRead") /\ UNCHANGED fs
  /\ UNCHANGED history

\* Consume and Abort: the exclusive create of the marker chooses the one final
\* state, before the record is looked at; the same choice again may go on.
FinalizeCreate(c) ==
  /\ At(c, "finalizeCreate")
  /\ \/ CreateExclusive("finalized") /\ Goto(c, "finalizeWrite")
     \/ cur["finalized"] = goal[c] /\ Goto(c, "finalizeRead") /\ UNCHANGED fs
     \/ Exists("finalized") /\ cur["finalized"] # goal[c] /\ Return(c) /\ UNCHANGED fs
  /\ UNCHANGED history

FinalizeWrite(c) ==
  /\ At(c, "finalizeWrite")
  /\ WriteFile("finalized", goal[c])
  /\ Goto(c, "finalizeSync")
  /\ UNCHANGED history

FinalizeSync(c) ==
  /\ At(c, "finalizeSync")
  /\ SyncFile("finalized")
  /\ Goto(c, "finalizeDir")
  /\ UNCHANGED history

FinalizeDir(c) ==
  /\ At(c, "finalizeDir")
  /\ SyncDirectory
  /\ Goto(c, "finalizeRead")
  /\ UNCHANGED history

FinalizeRead(c) ==
  /\ At(c, "finalizeRead")
  /\ \/ cur["state"] = goal[c] /\ acked' = acked \cup {goal[c]} /\ Return(c)
     \/ cur["state"] = Claimed /\ Goto(c, "finalizeRename") /\ UNCHANGED acked
     \/ cur["state"] \notin {goal[c], Claimed} /\ Return(c) /\ UNCHANGED acked
  /\ UNCHANGED <<fs, granted, persisted, since, observed>>

FinalizeRename(c) ==
  /\ At(c, "finalizeRename")
  /\ RenameOver("state", goal[c])
  /\ Goto(c, "finalizeAck")
  /\ UNCHANGED history

FinalizeAck(c) ==
  /\ At(c, "finalizeAck")
  /\ SyncDirectory
  /\ acked' = acked \cup {goal[c]}
  /\ persisted' = persisted \cup {goal[c]}
  /\ Return(c)
  /\ UNCHANGED <<granted, since, observed>>

-----------------------------------------------------------------------------
\* State: the record, or the marker when there is none (an old replay marker).
StateRead(c) ==
  /\ At(c, "stateRead")
  /\ \/ cur["state"] = Absent /\ Goto(c, "stateStat") /\ UNCHANGED observed
     \/ cur["state"] = Empty /\ Return(c) /\ UNCHANGED observed
     \/ /\ cur["state"] \notin {Absent, Empty}
        /\ observed' = <<cur["state"], since[c]>>
        /\ Return(c)
  /\ UNCHANGED <<fs, granted, acked, persisted>>

StateStat(c) ==
  /\ At(c, "stateStat")
  /\ observed' = <<IF Exists("claimed") THEN Claimed ELSE Absent, since[c]>>
  /\ Return(c)
  /\ UNCHANGED <<fs, granted, acked, persisted>>

-----------------------------------------------------------------------------
\* A system call fails, or the process dies: the operation ends where it is,
\* and what it already did to the directory stays.
Fails(c) ==
  /\ pc[c] # "idle"
  /\ Return(c)
  /\ UNCHANGED <<fs, goal, calls, powerLosses, history>>

\* The machine stops; each name comes back with something that was under it
\* and not yet superseded on disk.
PowerLoss ==
  /\ powerLosses < MaxPowerLosses
  /\ powerLosses' = powerLosses + 1
  /\ cur' \in {g \in [Files -> UNION {Survivors(f) : f \in Files}] :
                 \A f \in Files : g[f] \in Survivors(f)}
  /\ old' = [f \in Files |-> {}]
  /\ synced' = [f \in Files |-> TRUE]
  /\ pc' = [c \in Callers |-> "idle"]
  /\ UNCHANGED <<goal, calls, history>>

Step(c) ==
  \/ Issue(c) \/ Claim(c) \/ State(c)
  \/ \E d \in Detail : Consume(c, d)
  \/ \E d \in Details : Abort(c, d)
  \/ IssueStat(c) \/ IssueCreate(c) \/ IssueWrite(c) \/ IssueSync(c) \/ IssueDir(c)
  \/ ClaimCreate(c) \/ ClaimDir(c) \/ ClaimRead(c) \/ ClaimRename(c) \/ ClaimAck(c)
  \/ FinalizeCreate(c) \/ FinalizeWrite(c) \/ FinalizeSync(c) \/ FinalizeDir(c)
  \/ FinalizeRead(c) \/ FinalizeRename(c) \/ FinalizeAck(c)
  \/ StateRead(c) \/ StateStat(c)
  \/ Fails(c)

Next == (\E c \in Callers : Step(c)) \/ PowerLoss

Spec == Init /\ [][Next]_vars

-----------------------------------------------------------------------------
Labels == {"idle", "issueStat", "issueCreate", "issueWrite", "issueSync", "issueDir",
           "claimCreate", "claimDir", "claimRead", "claimRename", "claimAck",
           "finalizeCreate", "finalizeWrite", "finalizeSync", "finalizeDir",
           "finalizeRead", "finalizeRename", "finalizeAck", "stateRead", "stateStat"}

\* The shape of the state; a marker holds no record and the record no marker.
TypeOK ==
  /\ cur \in [Files -> Content]
  /\ old \in [Files -> SUBSET Content]
  /\ synced \in [Files -> BOOLEAN]
  /\ cur["claimed"] \in {Absent, Empty}
  /\ cur["finalized"] \in {Absent, Empty} \cup (Final \X Detail)
  /\ pc \in [Callers -> Labels]
  /\ goal \in [Callers -> {Claimed} \cup (Final \X Detail)]
  /\ calls \in 0..MaxCalls
  /\ powerLosses \in 0..MaxPowerLosses
  /\ granted \in Nat
  /\ acked \subseteq Final \X Detail
  /\ persisted \subseteq acked
  /\ since \in [Callers -> BOOLEAN]
  /\ observed \in Content \X BOOLEAN

\* Claim returns nil at most once, also across crashes and power failures.
ClaimAtMostOnce == granted <= 1

Taken == {Claimed} \cup (Final \X Detail)

\* Once Claim has returned nil, no power failure can make the capability
\* claimable again: whatever survives is the marker and a record past ISSUED.
GrantSurvivesPowerLoss ==
  granted > 0 => /\ Absent \notin Survivors("claimed")
                 /\ Survivors("state") \subseteq Taken

\* The final record a Consume or Abort wrote and acknowledged is what a power
\* failure leaves, for ever.
PersistedSurvivesPowerLoss == \A f \in persisted : Survivors("state") = {f}

\* CONSUMED and ABORTED are terminal: a caller that was told one of them is
\* never contradicted by another that was told something else.
TerminalAgreement == \A f, g \in acked : f = g

\* A State call begun after the grant never reports the capability as unclaimed
\* or unknown.
StateIsConservative == observed[2] => observed[1] \in Taken

\* As long as the machine stays up, what a Consume or Abort was told took
\* effect is the record.
AcknowledgedIsRecord == powerLosses = 0 => \A f \in acked : cur["state"] = f

\* While the machine stays up a final record is never replaced.
FinalIsFinal ==
  [][cur["state"] \in Final \X Detail /\ powerLosses' = powerLosses
       => cur'["state"] = cur["state"]]_vars

\* The state on record as the lifecycle has it: the marker alone makes the
\* capability claimed, whatever the record still says.
RecordState ==
  IF cur["state"] \in Taken THEN cur["state"][1]
  ELSE IF Exists("claimed") THEN "CLAIMED"
  ELSE IF cur["state"] = Issued THEN "ISSUED" ELSE "NONE"

Lifecycle == INSTANCE ExecutionClaim WITH
  state <- RecordState, detail <- cur["state"][2], granted <- granted > 0

\* The file guard implements the claim lifecycle: every step that is not a power
\* failure is one of its steps, before and after such failures.
ImplementsLifecycle ==
  Lifecycle!ClaimInit /\ [][Lifecycle!ClaimNext \/ PowerLoss]_(Lifecycle!claimVars)
=============================================================================
