----------------------------- MODULE NodeDrain -----------------------------
(***************************************************************************)
(* The guarded node drain of internal/kubeadapter: one node, one action    *)
(* ID, several executors (daemon replicas or repeated requests).           *)
(*                                                                         *)
(* A run acquires the target's Lease, revalidates its authorization        *)
(* against the live cluster, checkpoints, cordons the node and evicts the  *)
(* authorized pods one by one, re-reading the cluster before each; a later *)
(* run may reconcile the checkpoint and resume.  Every API call is a step, *)
(* so the cluster, the Lease and the checkpoint may change between a check *)
(* and the mutation it is for.  Calls fail, also after taking effect, and  *)
(* executors crash.  Nothing is assumed of the Lease's timing: it may be   *)
(* taken from a slow holder at any moment (ExecutionLease has the clock).  *)
(***************************************************************************)
EXTENDS Naturals, FiniteSets, FiniteSetsExt, Functions

CONSTANTS Executors,
          Pods,       \* pod UIDs, numbered in the order of namespace/name
          Initial,    \* the pods on the node at first
          MaxRuns,    \* bound: executions and resumes started
          MaxDrift,   \* bound: changes of the cluster by others
          MaxFaults   \* bound: crashes, API errors, timeouts, Leases taken over


VARIABLES node,       \* identity (UID and health), resourceVersion, cordoned
          live,       \* eviction candidates listed on the node
          deleting,   \* those with a deletion timestamp
          unborn,     \* UIDs not used yet
          blocked,    \* does preflight report a blocking finding (PDB, ...)?
          lease,      \* the executor whose run holds the Lease, if any
          ckpt,       \* the stored checkpoint; ver = 0 when there is none
          pc, auth,   \* per executor: program counter, authorization held
          seen,       \* the node as its last GetNode returned it
          ck,         \* its copy of the checkpoint
          remaining,  \* pods its loop still has to evict
          lost,       \* its lease guard's sticky lostErr
          runs, drift, faults,
          evicted,    \* history: pods whose eviction was accepted
          stale,      \* history: mutations of a run after it lost the Lease
          lockless    \* history: was the checkpoint reconciled without it?

cluster == <<node, live, deleting, unborn, blocked>>
local == <<auth, seen, ck, remaining, lost>>
bounds == <<runs, drift, faults>>
history == <<evicted, stale, lockless>>
vars == <<cluster, lease, ckpt, pc, local, bounds, history>>

Free == "free"   \* no holder
Dead == "dead"   \* held by a run that crashed

\* A candidate as samePodExecutionSet compares it: the UID and the digest of
\* its state, in which a deletion timestamp shows.
Ref(p) == <<p, p \in deleting>>
Candidates == {Ref(p) : p \in live}
UIDs(refs) == {r[1] : r \in refs}

NoCheckpoint == [ver |-> 0, status |-> "NONE", id |-> 0, cordoned |-> FALSE,
                 authorized |-> {}, completed |-> {}]
NoAuth == [valid |-> FALSE, id |-> 0, rv |-> 0, pods |-> {}]

RemainingAuthorized(c) == {r \in c.authorized : r[1] \notin c.completed}

-----------------------------------------------------------------------------
\* (mutant) The file store: the last writer wins.
SaveAcceptedAlways(c) == TRUE

\* Something fails that need not.
CanFail == faults < MaxFaults
Fault == CanFail /\ faults' = faults + 1

\* SaveVersioned: Create when the copy has no version, Update against it.
SaveAccepted(c) == c.ver = ckpt.ver

Stamped(c) == [c EXCEPT !.ver = ckpt.ver + 1]

\* Does executor e reconcile the checkpoint without the Lease?
Unlocked(e) == lockless \/ (pc[e] = "inspectPods" /\ lease # e)

\* A save by executor e that reaches the store: it remembers the new version.
Saved(e, c) ==
  /\ SaveAccepted(c)
  /\ ckpt' = Stamped(c)
  /\ ck' = [ck EXCEPT ![e] = Stamped(c)]
  /\ lockless' = Unlocked(e)
  /\ UNCHANGED faults

\* A save that returns an error: refused, failed, or stored and not answered.
NotSaved(e, c) ==
  /\ \/ ~SaveAccepted(c) /\ UNCHANGED <<ckpt, lockless, faults>>
     \/ Fault /\ UNCHANGED <<ckpt, lockless>>
     \/ /\ Fault /\ SaveAccepted(c)
        /\ ckpt' = Stamped(c)
        /\ lockless' = Unlocked(e)
  /\ UNCHANGED ck

\* A save whose error is ignored.
SavedBestEffort(e, c) == Saved(e, c) \/ NotSaved(e, c)

Paused(c) == [c EXCEPT !.status = "PAUSED"]
Running(c) == [c EXCEPT !.status = "RUNNING"]

Goto(e, l) == pc' = [pc EXCEPT ![e] = l]

\* A controlled stop of a run that holds the lock: pause what is stored, then
\* release the Lease.
PauseAndClose(e) == SavedBestEffort(e, Paused(ck[e])) /\ Goto(e, "close")

-----------------------------------------------------------------------------
Init ==
  /\ node = [id |-> 1, rv |-> 1, cordoned |-> FALSE]
  /\ live = Initial
  /\ deleting = {}
  /\ unborn = Pods \ Initial
  /\ blocked = FALSE
  /\ lease = Free
  /\ ckpt = NoCheckpoint
  /\ pc = [e \in Executors |-> "idle"]
  /\ auth = [e \in Executors |-> NoAuth]
  /\ seen = [e \in Executors |-> [id |-> 0, rv |-> 0, cordoned |-> FALSE, valid |-> FALSE]]
  /\ ck = [e \in Executors |-> NoCheckpoint]
  /\ remaining = [e \in Executors |-> {}]
  /\ lost = [e \in Executors |-> FALSE]
  /\ runs = 0 /\ drift = 0 /\ faults = 0
  /\ evicted = {}
  /\ stale = [e \in Executors |-> 0]
  /\ lockless = FALSE

\* PrepareNodeDrainExecution: an authorization bound to the live node version
\* and candidates; preflight must allow it.
Prepare(e) ==
  /\ pc[e] = "idle"
  /\ ~blocked
  /\ auth' = [auth EXCEPT ![e] = [valid |-> TRUE, id |-> node.id, rv |-> node.rv,
                                  pods |-> Candidates]]
  /\ auth' # auth
  /\ UNCHANGED <<cluster, lease, ckpt, pc, seen, ck, remaining, lost, bounds, history>>

StartRun(e, l) ==
  /\ pc[e] = "idle"
  /\ auth[e] # NoAuth
  /\ runs < MaxRuns
  /\ runs' = runs + 1
  /\ ck' = [ck EXCEPT ![e] = NoCheckpoint]
  /\ lost' = [lost EXCEPT ![e] = FALSE]
  /\ Goto(e, l)
  /\ UNCHANGED <<cluster, lease, ckpt, auth, seen, remaining, drift, faults, history>>

Execute(e) == StartRun(e, "acquire")
Resume(e) == StartRun(e, "inspectLoad")

\* A step of a run in progress, at label l.
At(e, l) == pc[e] = l /\ UNCHANGED <<auth, runs, drift>>

\* What a run remembers of the node, and of the clock it read before it.
Snapshot(e) == [id |-> node.id, rv |-> node.rv, cordoned |-> node.cordoned,
                valid |-> auth[e].valid]

\* GetNode, the first half of inspectNodeDrainState; the pods come after it.
NodeReadAt == [inspectNode |-> "inspectPods", resumeNode |-> "resumePods",
               revalidateNode |-> "revalidatePods", loopNode |-> "loopPods",
               finalNode |-> "finalPods"]

GetNode(e) ==
  /\ pc[e] \in DOMAIN NodeReadAt
  /\ seen' = [seen EXCEPT ![e] = Snapshot(e)]
  /\ Goto(e, NodeReadAt[pc[e]])
  /\ UNCHANGED <<cluster, lease, ckpt, auth, ck, remaining, lost, bounds, history>>

\* A read fails: the run returns the error; a run under the lock releases it.
ReadFails(e) ==
  /\ pc[e] \in {"inspectLoad"} \cup DOMAIN NodeReadAt \cup Range(NodeReadAt)
  /\ Goto(e, IF pc[e] \in {"inspectLoad", "inspectNode", "inspectPods",
                             "resumeNode", "resumePods"}
             THEN "idle" ELSE "close")
  /\ Fault
  /\ UNCHANGED <<cluster, lease, ckpt, local, runs, drift, history>>

-----------------------------------------------------------------------------
\* InspectDrainRecovery, without the Lease: load, compare with the cluster, save.
InspectLoad(e) ==
  /\ At(e, "inspectLoad")
  /\ ck' = [ck EXCEPT ![e] = ckpt]
  /\ Goto(e, IF ckpt.ver = 0 THEN "idle" ELSE "inspectNode")
  /\ UNCHANGED <<cluster, lease, ckpt, seen, remaining, lost, faults, history>>

\* Authorized pods that are gone count as completed, and a cordon found is ours.
Reconciled(e) ==
  LET c == ck[e]
  IN  [c EXCEPT !.cordoned = c.cordoned \/ seen[e].cordoned,
                !.completed = c.completed \cup (UIDs(c.authorized) \ live)]

InspectPods(e) ==
  /\ At(e, "inspectPods")
  /\ LET c == Reconciled(e)
     IN  \/ /\ seen[e].id # c.id \/ (c.cordoned /\ ~seen[e].cordoned)
            /\ Goto(e, "idle")
            /\ UNCHANGED <<ckpt, ck, lockless, faults>>
         \/ /\ seen[e].id = c.id /\ seen[e].cordoned = c.cordoned
            /\ \/ /\ blocked \/ Candidates # RemainingAuthorized(c)
                  /\ SavedBestEffort(e, Paused(c))
                  /\ Goto(e, "idle")
               \/ /\ ~blocked /\ Candidates = RemainingAuthorized(c)
                  /\ RemainingAuthorized(c) = {}
                  /\ LET done == [c EXCEPT !.status = "COMPLETED"]
                     IN  Saved(e, done) \/ NotSaved(e, done)
                  /\ Goto(e, "idle")
               \/ /\ ~blocked /\ Candidates = RemainingAuthorized(c)
                  /\ RemainingAuthorized(c) # {}
                  /\ \/ Saved(e, Paused(c)) /\ Goto(e, "resumeNode")
                     \/ NotSaved(e, Paused(c)) /\ Goto(e, "idle")
  /\ UNCHANGED <<cluster, lease, seen, remaining, lost, evicted, stale>>

\* ValidateAuthorization and the plan digest against what was just read.
Authorized(e) ==
  /\ ~blocked
  /\ auth[e].valid
  /\ auth[e].id = seen[e].id
  /\ auth[e].rv = seen[e].rv
  /\ auth[e].pods = Candidates

\* The rest of ResumeAuthorizedNodeDrain: a fresh authorization for exactly
\* the remainder, and the checkpoint is RUNNING again before the Lease is held.
ResumePods(e) ==
  /\ At(e, "resumePods")
  /\ \/ ~Authorized(e) /\ Goto(e, "idle") /\ UNCHANGED <<ckpt, ck, lockless, faults>>
     \/ /\ Authorized(e) /\ Candidates # RemainingAuthorized(ck[e])
        /\ SavedBestEffort(e, Paused(ck[e]))
        /\ Goto(e, "idle")
     \/ /\ Authorized(e) /\ Candidates = RemainingAuthorized(ck[e])
        /\ \/ Saved(e, Running(ck[e])) /\ Goto(e, "acquire")
           \/ NotSaved(e, Running(ck[e])) /\ Goto(e, "idle")
  /\ UNCHANGED <<cluster, lease, seen, remaining, lost, evicted, stale>>

-----------------------------------------------------------------------------
\* executeAuthorizedNodeDrain.  The Lease is free, expired, or held.
Acquire(e) ==
  /\ At(e, "acquire")
  /\ \/ /\ lease \in {Free, Dead} /\ UNCHANGED faults
        /\ lease' = e /\ Goto(e, "ensureStart")
     \/ /\ lease \in Executors \ {e} /\ Fault   \* it expired under a slow holder
        /\ lease' = e /\ Goto(e, "ensureStart")
     \/ lease # Free /\ Goto(e, "idle") /\ UNCHANGED <<lease, faults>>
     \/ Fault /\ Goto(e, "idle") /\ UNCHANGED lease
  /\ stale' = [stale EXCEPT ![e] = 0]
  /\ UNCHANGED <<cluster, ckpt, seen, ck, remaining, lost, evicted, lockless>>

EnsureAt == [ensureStart |-> "revalidateNode", ensureCordon |-> "cordon",
             ensureLoop |-> "loopNode", ensureEvict |-> "evict",
             ensureProgress |-> "progress", ensureFinal |-> "finalNode"]

\* (mutant) The answer of the first check is trusted for the rest of the run.
EnsureHeldOnce(e) ==
  /\ pc[e] \in DOMAIN EnsureAt
  /\ Goto(e, EnsureAt[pc[e]])
  /\ UNCHANGED <<cluster, lease, ckpt, local, bounds, history>>

\* EnsureHeld: the run goes on only if the Lease still names it.  The background
\* renewal can only make this fail earlier.
EnsureHeld(e) ==
  /\ pc[e] \in DOMAIN EnsureAt
  /\ \/ /\ lease = e
        /\ Goto(e, EnsureAt[pc[e]])
        /\ UNCHANGED <<ckpt, ck, lost, faults, lockless>>
     \/ /\ lease # e \/ CanFail
        /\ lost' = [lost EXCEPT ![e] = TRUE]
        /\ IF pc[e] = "ensureStart"
           THEN Goto(e, "close") /\ UNCHANGED <<ckpt, ck, lockless, faults>>
           ELSE PauseAndClose(e)
  /\ UNCHANGED <<cluster, lease, auth, seen, remaining, runs, drift, evicted, stale>>

RevalidatePods(e) ==
  /\ At(e, "revalidatePods")
  /\ \/ ~Authorized(e) /\ Goto(e, "close") /\ UNCHANGED remaining
     \/ /\ Authorized(e)
        /\ remaining' = [remaining EXCEPT ![e] = Candidates]
        /\ Goto(e, IF ck[e].ver = 0 THEN "firstSave"
                   ELSE IF ~ck[e].cordoned THEN "ensureCordon"
                   ELSE IF Candidates = {} THEN "ensureFinal" ELSE "ensureLoop")
  /\ UNCHANGED <<cluster, lease, ckpt, seen, ck, lost, faults, history>>

\* The checkpoint of a run that resumes nothing.
FirstSave(e) ==
  /\ At(e, "firstSave")
  /\ LET c == [ver |-> 0, status |-> "RUNNING", id |-> seen[e].id, cordoned |-> FALSE,
               authorized |-> remaining[e], completed |-> {}]
     IN  \/ Saved(e, c) /\ Goto(e, "ensureCordon")
         \/ NotSaved(e, c) /\ Goto(e, "close")
  /\ UNCHANGED <<cluster, lease, seen, remaining, lost, evicted, stale>>

Mutates(e) == stale' = [stale EXCEPT ![e] = IF lease = e THEN @ ELSE @ + 1]

\* The patch carries the resourceVersion the authorization was checked against.
Cordon(e) ==
  /\ At(e, "cordon")
  /\ \/ /\ node.rv = seen[e].rv
        /\ node' = IF node.cordoned THEN node
                   ELSE [node EXCEPT !.cordoned = TRUE, !.rv = @ + 1]
        /\ Mutates(e)
        /\ \/ Goto(e, "cordonSave") /\ UNCHANGED <<ckpt, ck, lockless, faults>>
           \/ CanFail /\ PauseAndClose(e)   \* applied, answer lost
     \/ /\ node.rv # seen[e].rv \/ CanFail
        /\ PauseAndClose(e)
        /\ UNCHANGED <<node, stale>>
  /\ UNCHANGED <<live, deleting, unborn, blocked, lease, seen, remaining, lost, evicted>>

AfterStep(rest) == IF rest = {} THEN "ensureFinal" ELSE "ensureLoop"

CordonSave(e) ==
  /\ At(e, "cordonSave")
  /\ LET c == [ck[e] EXCEPT !.cordoned = TRUE]
     IN  \/ Saved(e, c) /\ Goto(e, AfterStep(remaining[e]))
         \/ NotSaved(e, c) /\ Goto(e, "close")
  /\ UNCHANGED <<cluster, lease, seen, remaining, lost, evicted, stale>>

\* revalidateRemainingDrainExecution: the node is still the cordoned one the
\* plan is for, and what is left on it is exactly what the plan still expects.
StillAsPlanned(e, expected) ==
  /\ seen[e].valid
  /\ seen[e].id = auth[e].id
  /\ seen[e].cordoned
  /\ ~blocked
  /\ Candidates = expected

LoopPods(e) ==
  /\ At(e, "loopPods")
  /\ \/ /\ StillAsPlanned(e, remaining[e])
        /\ Goto(e, "ensureEvict")
        /\ UNCHANGED <<ckpt, ck, lockless, faults>>
     \/ ~StillAsPlanned(e, remaining[e]) /\ PauseAndClose(e)
  /\ UNCHANGED <<cluster, lease, seen, remaining, lost, evicted, stale>>

\* (mutant) The pod to evict is taken from what the node lists by now.
TargetListed(e) == Max(live \cup UIDs(remaining[e]))

Target(e) == Min(UIDs(remaining[e]))

\* EvictPod with the UID as precondition: accepted, accepted and not answered,
\* or refused (gone, disruption budget, conflict).
Evict(e) ==
  /\ At(e, "evict")
  /\ \/ /\ Target(e) \in live
        /\ deleting' = deleting \cup {Target(e)}
        /\ evicted' = evicted \cup {Target(e)}
        /\ Mutates(e)
        /\ \/ Goto(e, "wait") /\ UNCHANGED <<ckpt, ck, lockless, faults>>
           \/ CanFail /\ PauseAndClose(e)
     \/ /\ Target(e) \notin live \/ CanFail
        /\ PauseAndClose(e)
        /\ UNCHANGED <<deleting, evicted, stale>>
  /\ UNCHANGED <<node, live, unborn, blocked, lease, seen, remaining, lost>>

\* waitForPodUIDAbsent: the pod is gone, or the observation timeout passes.
Wait(e) ==
  /\ At(e, "wait")
  /\ \/ /\ Target(e) \notin live
        /\ Goto(e, "ensureProgress")
        /\ UNCHANGED <<ckpt, ck, lockless, faults>>
     \/ (Target(e) \in live \/ CanFail) /\ PauseAndClose(e)
  /\ UNCHANGED <<cluster, lease, seen, remaining, lost, evicted, stale>>

Progress(e) ==
  /\ At(e, "progress")
  /\ LET c == [Running(ck[e]) EXCEPT !.completed = @ \cup {Target(e)}]
         rest == {r \in remaining[e] : r[1] # Target(e)}
     IN  \/ /\ Saved(e, c)
            /\ remaining' = [remaining EXCEPT ![e] = rest]
            /\ Goto(e, AfterStep(rest))
         \/ NotSaved(e, c) /\ Goto(e, "close") /\ UNCHANGED remaining
  /\ UNCHANGED <<cluster, lease, seen, lost, evicted, stale>>

FinalPods(e) ==
  /\ At(e, "finalPods")
  /\ \/ /\ StillAsPlanned(e, {})
        /\ Goto(e, "complete")
        /\ UNCHANGED <<ckpt, ck, lockless, faults>>
     \/ ~StillAsPlanned(e, {}) /\ PauseAndClose(e)
  /\ UNCHANGED <<cluster, lease, seen, remaining, lost, evicted, stale>>

Complete(e) ==
  /\ At(e, "complete")
  /\ LET c == [ck[e] EXCEPT !.status = "COMPLETED"]
     IN  Saved(e, c) \/ NotSaved(e, c)
  /\ Goto(e, "close")
  /\ UNCHANGED <<cluster, lease, seen, remaining, lost, evicted, stale>>

\* The guard releases a Lease it still holds; one it believes lost it leaves
\* to expire under a holder identity nobody will use again.
Close(e) ==
  /\ At(e, "close")
  /\ \/ lease = e /\ ~lost[e] /\ lease' = Free /\ UNCHANGED faults
     \/ lease = e /\ lost[e] /\ lease' = Dead /\ UNCHANGED faults
     \/ lease = e /\ ~lost[e] /\ Fault /\ lease' = Dead
     \/ lease # e /\ UNCHANGED <<lease, faults>>
  /\ Goto(e, "idle")
  /\ UNCHANGED <<cluster, ckpt, seen, ck, remaining, lost, history>>

Crash(e) ==
  /\ pc[e] # "idle"
  /\ Fault
  /\ lease' = IF lease = e THEN Dead ELSE lease
  /\ Goto(e, "idle")
  /\ UNCHANGED <<cluster, ckpt, local, runs, drift, history>>

-----------------------------------------------------------------------------
\* The rest of the cluster.  A pod being deleted disappears when its kubelet
\* has stopped it.
PodGone(p) ==
  /\ p \in deleting
  /\ live' = live \ {p}
  /\ deleting' = deleting \ {p}
  /\ UNCHANGED <<node, unborn, blocked, lease, ckpt, pc, local, bounds, history>>

Drift ==
  /\ drift < MaxDrift
  /\ drift' = drift + 1
  /\ UNCHANGED <<lease, ckpt, pc, seen, ck, remaining, lost, runs, faults, history>>

\* Somebody else deletes a pod, schedules one, cordons or uncordons the node,
\* writes it, replaces it, or spends or refills a disruption budget.
PodDeleted(p) ==
  /\ p \in live \ deleting
  /\ deleting' = deleting \cup {p}
  /\ Drift /\ UNCHANGED <<node, live, unborn, blocked, auth>>

PodScheduled(p) ==
  /\ p \in unborn
  /\ live' = live \cup {p}
  /\ unborn' = unborn \ {p}
  /\ Drift /\ UNCHANGED <<node, deleting, blocked, auth>>

NodeWritten ==
  /\ \E c \in BOOLEAN : node' = [node EXCEPT !.rv = @ + 1, !.cordoned = c]
  /\ Drift /\ UNCHANGED <<live, deleting, unborn, blocked, auth>>

NodeReplaced ==
  /\ node' = [id |-> node.id + 1, rv |-> node.rv + 1, cordoned |-> FALSE]
  /\ live' = {} /\ deleting' = {}
  /\ Drift /\ UNCHANGED <<unborn, blocked, auth>>

BudgetChanged ==
  /\ blocked' = ~blocked
  /\ Drift /\ UNCHANGED <<node, live, deleting, unborn, auth>>

\* ValidUntil passes.
AuthorizationExpires(e) ==
  /\ auth[e].valid
  /\ auth' = [auth EXCEPT ![e].valid = FALSE]
  /\ Drift /\ UNCHANGED cluster

\* The steps of a run, crashes aside.
Run(e) ==
  \/ GetNode(e) \/ ReadFails(e)
  \/ InspectLoad(e) \/ InspectPods(e) \/ ResumePods(e)
  \/ Acquire(e) \/ EnsureHeld(e) \/ RevalidatePods(e) \/ FirstSave(e)
  \/ Cordon(e) \/ CordonSave(e)
  \/ LoopPods(e) \/ Evict(e) \/ Wait(e) \/ Progress(e)
  \/ FinalPods(e) \/ Complete(e) \/ Close(e)

Environment ==
  \/ \E p \in Pods : PodGone(p) \/ PodDeleted(p) \/ PodScheduled(p)
  \/ NodeWritten \/ NodeReplaced \/ BudgetChanged

Next ==
  \/ \E e \in Executors : \/ Prepare(e) \/ Execute(e) \/ Resume(e)
                          \/ Run(e) \/ Crash(e) \/ AuthorizationExpires(e)
  \/ Environment

Spec == Init /\ [][Next]_vars

\* A run that is not crashed takes its next step: its calls have timeouts and
\* the observation of an eviction has its own.  Nothing is assumed of the
\* kubelets, the other actors or the operator.
FairSpec == Spec /\ \A e \in Executors : WF_vars(Run(e))

-----------------------------------------------------------------------------
Checkpoint == [ver : Nat, status : {"NONE", "RUNNING", "PAUSED", "COMPLETED"}, id : Nat,
               cordoned : BOOLEAN, authorized : SUBSET (Pods \X BOOLEAN),
               completed : SUBSET Pods]

\* Types of the cluster, the checkpoint and the runs; a pod with a deletion
\* timestamp is listed and a stored checkpoint has a status.
TypeOK ==
  /\ node \in [id : Nat, rv : Nat, cordoned : BOOLEAN]
  /\ live \subseteq Pods /\ deleting \subseteq live
  /\ unborn \subseteq Pods \ live /\ blocked \in BOOLEAN
  /\ lease \in Executors \cup {Free, Dead}
  /\ ckpt \in Checkpoint /\ (ckpt.ver = 0 <=> ckpt = NoCheckpoint)
  /\ pc \in [Executors -> {"idle", "inspectLoad", "acquire", "firstSave", "cordonSave",
                           "wait", "complete", "close"} \cup DOMAIN NodeReadAt
                          \cup Range(NodeReadAt) \cup DOMAIN EnsureAt \cup Range(EnsureAt)]
  /\ auth \in [Executors -> [valid : BOOLEAN, id : Nat, rv : Nat, pods : SUBSET (Pods \X BOOLEAN)]]
  /\ seen \in [Executors -> [id : Nat, rv : Nat, cordoned : BOOLEAN, valid : BOOLEAN]]
  /\ ck \in [Executors -> Checkpoint]
  /\ remaining \in [Executors -> SUBSET (Pods \X BOOLEAN)]
  /\ lost \in [Executors -> BOOLEAN]
  /\ runs \in 0..MaxRuns /\ drift \in 0..MaxDrift /\ faults \in 0..MaxFaults
  /\ evicted \subseteq Pods /\ stale \in [Executors -> Nat] /\ lockless \in BOOLEAN

\* Only pods that the first authorization of the action named are ever evicted,
\* over every resume, takeover and change of the cluster: an eviction carries
\* the UID, and a resume is authorized for exactly the remainder.
EvictOnlyAuthorized == evicted \subseteq UIDs(ckpt.authorized)

\* A pod the checkpoint reports as completed is no longer on the node: progress
\* is recorded after the pod was observed absent, never when its eviction is
\* merely accepted, and reconciliation goes by what the node lists.
CompletedAreGone == ckpt.completed \cap live = {}

\* COMPLETED means drained: none of the authorized pods is left on the node.
CompletedMeansDrained ==
  ckpt.status = "COMPLETED" => UIDs(ckpt.authorized) \cap live = {}

\* Nothing is evicted before the cordon is recorded, so a recovery that finds
\* the node schedulable knows that somebody uncordoned it.
CordonRecordedFirst == evicted # {} => ckpt.cordoned

\* A run that lost its Lease, by a takeover it has not noticed, makes at most
\* the one mutation it had already checked: every mutation is preceded by an
\* EnsureHeld of its own.
AtMostOneStaleMutation == \A e \in Executors : stale[e] <= 1

\* Recorded progress is never overwritten by a slower run: completed pods stay
\* completed, a recorded cordon stays recorded and the authorized set is fixed.
ProgressNeverLost ==
  [][ckpt.ver > 0 => /\ ckpt'.authorized = ckpt.authorized
                     /\ ckpt.completed \subseteq ckpt'.completed
                     /\ ckpt.cordoned => ckpt'.cordoned]_ckpt

\* Every run ends, so that its Lease is released or left to expire, also when
\* an evicted pod never terminates.
RunsEnd == \A e \in Executors : pc[e] # "idle" ~> pc[e] = "idle"

\* What docs/execution-locking.md says of recovery: the Lease is acquired first,
\* the checkpoint is reconciled under it.  InspectDrainRecovery saves before
\* anything is acquired.
ReconciledUnderLease == ~lockless
=============================================================================
