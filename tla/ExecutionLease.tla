--------------------------- MODULE ExecutionLease ---------------------------
(***************************************************************************)
(* The execution lock of internal/kubeadapter: one coordination.k8s.io     *)
(* Lease object per target, and the lease guard of a run.  A guard has two *)
(* threads: the run itself ("main": acquire, EnsureHeld before each        *)
(* mutation, Close) and renewLoop ("loop"), which renews in the            *)
(* background; both renew with the same code.  Every API call is a step,   *)
(* calls fail, and a write whose answer was lost may arrive later.         *)
(*                                                                         *)
(* Every run draws a holder identity of its own, so Holders are runs.      *)
(* The clock is one for all: replicas are assumed to agree on the time.    *)
(***************************************************************************)
EXTENDS Naturals

CONSTANTS Holders,
          None,         \* no holder
          Duration,     \* leaseDurationSeconds
          MaxAttempts,  \* attempts of a call that meets conflicts (8 in the code)
          MaxClock,     \* bound: the clock stops there
          MaxFaults,    \* bound: API errors
          MaxVersions   \* bound: no renewal is begun at that resourceVersion

ASSUME NoneAssumption == None \notin Holders
ASSUME DurationAssumption == Duration \in Nat \ {0}
ASSUME BoundsAssumption ==
  MaxAttempts \in Nat \ {0} /\ MaxClock \in Nat /\ MaxFaults \in Nat /\ MaxVersions \in Nat

VARIABLES lease,      \* the object: resourceVersion, holder, renewTime; rv = 0 when absent
          top,        \* the last resourceVersion handed out
          orphans,    \* writes given up by their callers and still under way
          clock,
          pc,         \* per thread
          call,       \* per thread, locals of its call: the Lease its Get returned,
                      \* the time it read for its write, the attempts it has used
          lost,       \* per holder: lostErr
          cancelled,  \* per holder: was the loop's context cancelled?
          confirmed,  \* per holder, ghost: renewTime of its last acknowledged write
          faults

vars == <<lease, top, orphans, clock, pc, call, lost, cancelled, confirmed, faults>>

Threads == Holders \X {"main", "loop"}
Main(h) == <<h, "main">>
Loop(h) == <<h, "loop">>

Absent == [rv |-> 0, holder |-> None, renew |-> 0]

\* What a thread asks the API server to store; holder None asks for a deletion.
Write(base, h, t) == [base |-> base, holder |-> h, renew |-> t]

MainLabels == {"start", "acquireGet", "acquireCheck", "acquireWrite", "holding", "renewGet",
               "renewStamp", "renewWrite", "checked", "closing", "releaseGet",
               "releaseDelete", "done"}
LoopLabels == {"off", "ticking", "renewGet", "renewStamp", "renewWrite", "exited"}

-----------------------------------------------------------------------------
\* Create wants no object; Update and Delete want the resourceVersion they read.
Accepts(w) == w.base = lease.rv

Store(w) ==
  /\ top' = IF w.holder = None THEN top ELSE top + 1
  /\ lease' = IF w.holder = None THEN Absent
              ELSE [rv |-> top + 1, holder |-> w.holder, renew |-> w.renew]

\* (mutant) An expired Lease has one second less than it says.
ExpiredEarly(l, t) == l.renew + Duration <= t + 1

\* kubernetesLeaseExpired.
Expired(l, t) == l.renew + Duration <= t

LeaseType == [rv : Nat, holder : Holders \cup {None}, renew : Nat]
Locals == [seen : LeaseType, now : Nat, tries : Nat]
NoCall == [seen |-> Absent, now |-> 0, tries |-> 0]

Goto(t, l) == pc' = [pc EXCEPT ![t] = l]
Return(t, l) == Goto(t, l) /\ call' = [call EXCEPT ![t] = NoCall]
Got(t) == call' = [call EXCEPT ![t].seen = lease]

\* A conflict is retried with a new Get, up to the attempts of the call; an
\* Update of an object deleted meanwhile is not a conflict.
Retry(t, l) ==
  /\ call[t].tries + 1 < MaxAttempts /\ lease.rv > 0
  /\ Goto(t, l)
  /\ call' = [call EXCEPT ![t] = [NoCall EXCEPT !.tries = call[t].tries + 1]]
GivesUp(t) == call[t].tries + 1 >= MaxAttempts \/ lease.rv = 0

Init ==
  /\ lease = Absent
  /\ top = 0
  /\ orphans = {}
  /\ clock = 0
  /\ pc = [t \in Threads |-> IF t[2] = "main" THEN "start" ELSE "off"]
  /\ call = [t \in Threads |-> NoCall]
  /\ lost = [h \in Holders |-> FALSE]
  /\ cancelled = [h \in Holders |-> FALSE]
  /\ confirmed = [h \in Holders |-> 0]
  /\ faults = 0

-----------------------------------------------------------------------------
\* AcquireExecutionLock.  The time it will store is read before the Get.
AcquireStart(h) ==
  /\ pc[Main(h)] = "start"
  /\ call' = [call EXCEPT ![Main(h)].now = clock]
  /\ Goto(Main(h), "acquireGet")
  /\ UNCHANGED <<lease, top, orphans, clock, lost, cancelled, confirmed, faults>>

AcquireGet(h) ==
  /\ pc[Main(h)] = "acquireGet"
  /\ Got(Main(h))
  /\ Goto(Main(h), "acquireCheck")
  /\ UNCHANGED <<lease, top, orphans, clock, lost, cancelled, confirmed, faults>>

\* Held by another and not expired: ErrExecutionLockHeld.
AcquireCheck(h) ==
  /\ pc[Main(h)] = "acquireCheck"
  /\ LET l == call[Main(h)].seen
         free == l.rv = 0 \/ l.holder = h \/ Expired(l, clock)
     IN  \/ free /\ Goto(Main(h), "acquireWrite") /\ UNCHANGED call
         \/ ~free /\ Return(Main(h), "done")
  /\ UNCHANGED <<lease, top, orphans, clock, lost, cancelled, confirmed, faults>>

\* The write a thread is about to make.
Pending(t) == IF pc[t] = "releaseDelete" THEN Write(call[t].seen.rv, None, 0)
              ELSE Write(call[t].seen.rv, t[1], call[t].now)

AcquireWrite(h) ==
  /\ pc[Main(h)] = "acquireWrite"
  /\ LET t == Main(h)
     IN  \/ /\ Accepts(Pending(t)) /\ Store(Pending(t))
            /\ pc' = [pc EXCEPT ![t] = "holding", ![Loop(h)] = "ticking"]
            /\ confirmed' = [confirmed EXCEPT ![h] = call[t].now]
            /\ call' = [call EXCEPT ![t] = NoCall]
         \/ /\ ~Accepts(Pending(t))
            /\ Retry(t, "start") \/ (GivesUp(t) /\ Return(t, "done"))
            /\ UNCHANGED <<lease, top, confirmed>>
  /\ UNCHANGED <<orphans, clock, lost, cancelled, faults>>

-----------------------------------------------------------------------------
\* The error return of RenewExecutionLock: EnsureHeld and renewLoop both keep
\* the first error; the run stops mutating and the loop ends.
RenewFailed(t) ==
  /\ lost' = [lost EXCEPT ![t[1]] = TRUE]
  /\ Return(t, IF t[2] = "main" THEN "closing" ELSE "exited")

\* EnsureHeld, up to its renewal.
EnsureHeld(h) ==
  /\ pc[Main(h)] = "holding"
  /\ lost[h] \/ top < MaxVersions
  /\ Goto(Main(h), IF lost[h] THEN "closing" ELSE "renewGet")
  /\ UNCHANGED <<lease, top, orphans, clock, call, lost, cancelled, confirmed, faults>>

\* The ticker of renewLoop fires.
LoopTick(h) ==
  /\ pc[Loop(h)] = "ticking"
  /\ top < MaxVersions
  /\ Goto(Loop(h), "renewGet")
  /\ UNCHANGED <<lease, top, orphans, clock, call, lost, cancelled, confirmed, faults>>

\* The Lease must exist and name the holder; its expiry is not looked at.
RenewGet(t) ==
  /\ pc[t] = "renewGet"
  /\ \/ lease.holder = t[1] /\ Goto(t, "renewStamp") /\ Got(t) /\ UNCHANGED lost
     \/ lease.holder # t[1] /\ RenewFailed(t)
  /\ UNCHANGED <<lease, top, orphans, clock, cancelled, confirmed, faults>>

\* The time is read after the Get.
RenewStamp(t) ==
  /\ pc[t] = "renewStamp"
  /\ call' = [call EXCEPT ![t].now = clock]
  /\ Goto(t, "renewWrite")
  /\ UNCHANGED <<lease, top, orphans, clock, lost, cancelled, confirmed, faults>>

RenewWrite(t) ==
  /\ pc[t] = "renewWrite"
  /\ \/ /\ Accepts(Pending(t)) /\ Store(Pending(t))
        /\ Return(t, IF t[2] = "main" THEN "checked" ELSE "ticking")
        /\ confirmed' = [confirmed EXCEPT ![t[1]] = call[t].now]
        /\ UNCHANGED lost
     \/ /\ ~Accepts(Pending(t))
        /\ (Retry(t, "renewGet") /\ UNCHANGED lost) \/ (GivesUp(t) /\ RenewFailed(t))
        /\ UNCHANGED <<lease, top, confirmed>>
  /\ UNCHANGED <<orphans, clock, cancelled, faults>>

\* The run issues the mutation it has just checked the lock for.
Mutate(h) ==
  /\ pc[Main(h)] = "checked"
  /\ Goto(Main(h), "holding")
  /\ UNCHANGED <<lease, top, orphans, clock, call, lost, cancelled, confirmed, faults>>

\* The run is over, at whatever point.
Finish(h) ==
  /\ pc[Main(h)] \in {"holding", "checked"}
  /\ Goto(Main(h), "closing")
  /\ UNCHANGED <<lease, top, orphans, clock, call, lost, cancelled, confirmed, faults>>

-----------------------------------------------------------------------------
\* Close cancels the loop and waits for it; a guard that lost the lock, or
\* whose loop failed on the way out, releases nothing.
Cancel(h) ==
  /\ pc[Main(h)] = "closing"
  /\ ~cancelled[h]
  /\ cancelled' = [cancelled EXCEPT ![h] = TRUE]
  /\ UNCHANGED <<lease, top, orphans, clock, pc, call, lost, confirmed, faults>>

LoopExit(h) ==
  /\ pc[Loop(h)] = "ticking"
  /\ cancelled[h]
  /\ Goto(Loop(h), "exited")
  /\ UNCHANGED <<lease, top, orphans, clock, call, lost, cancelled, confirmed, faults>>

Close(h) ==
  /\ pc[Main(h)] = "closing"
  /\ cancelled[h]
  /\ pc[Loop(h)] = "exited"
  /\ Goto(Main(h), IF lost[h] THEN "done" ELSE "releaseGet")
  /\ UNCHANGED <<lease, top, orphans, clock, call, lost, cancelled, confirmed, faults>>

\* (mutant) Whatever Lease is found is released.
ReleaseGetUnchecked(h) ==
  /\ pc[Main(h)] = "releaseGet"
  /\ lease.rv > 0
  /\ Goto(Main(h), "releaseDelete")
  /\ Got(Main(h))
  /\ UNCHANGED <<lease, top, orphans, clock, lost, cancelled, confirmed, faults>>

ReleaseGet(h) ==
  /\ pc[Main(h)] = "releaseGet"
  /\ \/ lease.holder = h /\ Goto(Main(h), "releaseDelete") /\ Got(Main(h))
     \/ lease.holder # h /\ Return(Main(h), "done")
  /\ UNCHANGED <<lease, top, orphans, clock, lost, cancelled, confirmed, faults>>

ReleaseDelete(h) ==
  /\ pc[Main(h)] = "releaseDelete"
  /\ \/ Accepts(Pending(Main(h))) /\ Store(Pending(Main(h)))
     \/ ~Accepts(Pending(Main(h))) /\ UNCHANGED <<lease, top>>
  /\ Return(Main(h), "done")
  /\ UNCHANGED <<orphans, clock, lost, cancelled, confirmed, faults>>

-----------------------------------------------------------------------------
WriteLabels == {"acquireWrite", "renewWrite", "releaseDelete"}
CallLabels == WriteLabels \cup {"acquireGet", "renewGet", "releaseGet"}

\* A call returns an error: the server's, the network's, or, for the loop,
\* that its context was cancelled.  A write may still be under way.
CallFails(t) ==
  /\ pc[t] \in CallLabels
  /\ \/ t[2] = "loop" /\ cancelled[t[1]] /\ UNCHANGED faults
     \/ faults < MaxFaults /\ faults' = faults + 1
  /\ \/ UNCHANGED orphans
     \/ pc[t] \in WriteLabels /\ orphans' = orphans \cup {Pending(t)}
  /\ IF pc[t] \in {"renewGet", "renewWrite"}
     THEN RenewFailed(t)
     ELSE Return(t, "done") /\ UNCHANGED lost
  /\ UNCHANGED <<lease, top, clock, cancelled, confirmed>>

OrphanArrives ==
  \E w \in orphans :
    /\ orphans' = orphans \ {w}
    /\ IF Accepts(w) THEN Store(w) ELSE UNCHANGED <<lease, top>>
    /\ UNCHANGED <<clock, pc, call, lost, cancelled, confirmed, faults>>

Tick ==
  /\ clock < MaxClock
  /\ clock' = clock + 1
  /\ UNCHANGED <<lease, top, orphans, pc, call, lost, cancelled, confirmed, faults>>

HolderStep(h) ==
  \/ AcquireStart(h) \/ AcquireGet(h) \/ AcquireCheck(h) \/ AcquireWrite(h)
  \/ EnsureHeld(h) \/ LoopTick(h) \/ Mutate(h) \/ Finish(h)
  \/ Cancel(h) \/ LoopExit(h) \/ Close(h) \/ ReleaseGet(h) \/ ReleaseDelete(h)

ThreadStep(t) == RenewGet(t) \/ RenewStamp(t) \/ RenewWrite(t) \/ CallFails(t)

Next ==
  \/ \E h \in Holders : HolderStep(h)
  \/ \E t \in Threads : ThreadStep(t)
  \/ OrphanArrives
  \/ Tick

Spec == Init /\ [][Next]_vars

-----------------------------------------------------------------------------
\* Types; the Lease is absent exactly when it has no holder, and the loop runs
\* only once the Lease was acquired.
TypeOK ==
  /\ lease \in LeaseType
  /\ lease.rv = 0 => lease = Absent
  /\ lease.holder = None => lease.rv = 0
  /\ top \in Nat /\ lease.rv <= top
  /\ orphans \subseteq [base : Nat, holder : Holders \cup {None}, renew : Nat]
  /\ clock \in Nat
  /\ pc \in [Threads -> MainLabels \cup LoopLabels]
  /\ \A h \in Holders : pc[Main(h)] \in MainLabels /\ pc[Loop(h)] \in LoopLabels
  /\ call \in [Threads -> Locals]
  /\ lost \in [Holders -> BOOLEAN] /\ cancelled \in [Holders -> BOOLEAN]
  /\ confirmed \in [Holders -> Nat]
  /\ faults \in Nat

\* A run between its acquisition and its release.
Working(h) == pc[Main(h)] \in {"holding", "renewGet", "renewStamp", "renewWrite", "checked", "closing",
                               "releaseGet", "releaseDelete"}

\* The lock excludes: from an acknowledged acquisition or renewal and for
\* Duration after the time it stored, the Lease names the run, whatever
\* fails and whoever else acquires, renews or releases meanwhile.  So of two runs
\* at most one is inside its window, and a mutation issued promptly after
\* EnsureHeld is exclusive among cooperating executors.
HeldForDuration ==
  \A h \in Holders :
    Working(h) /\ clock < confirmed[h] + Duration => lease.holder = h

\* A Lease is deleted only by the run it names, never by a run whose Lease
\* another took over: Release looks at the holder and deletes that version.
ReleasesOnlyOwn ==
  [][lease.rv > 0 /\ lease'.rv = 0 => pc[Main(lease.holder)] \in {"releaseDelete", "done"}]_lease

\* The two threads that renew one Lease never set its renewTime back, so no
\* renewal shortens what an earlier one was granted.
RenewalsMoveForward ==
  [][lease.rv > 0 /\ lease'.holder = lease.holder => lease'.renew >= lease.renew]_lease

\* What docs/execution-locking.md says of a run that ends: it releases the
\* Lease.  Close cancels a renewal that is under way, takes its error for a
\* lost lock and releases nothing.
ReleasedAtTheEnd == \A h \in Holders : pc[Main(h)] = "done" => lease.holder # h

-----------------------------------------------------------------------------
\* The inductive invariant behind HeldForDuration and the action properties.
BeforeLabels == {"start", "acquireGet", "acquireCheck", "acquireWrite"}

\* The times stored and remembered are past; versions are handed out in order.
TimesAndVersions ==
  /\ lease.renew <= clock
  /\ \A t \in Threads :
       /\ call[t].now <= clock
       /\ call[t].seen.rv <= top
       /\ call[t].seen.rv = lease.rv => call[t].seen = lease
       /\ call[t].seen.rv = 0 => call[t].seen = Absent

\* What a thread that is about to write has checked.
WritesAreChecked ==
  \A t \in Threads :
    /\ t[2] = "loop" => pc[t] \in LoopLabels
    /\ pc[t] = "acquireWrite" =>
         call[t].seen.rv = 0 \/ call[t].seen.holder = t[1] \/ Expired(call[t].seen, clock)
    /\ pc[t] \in {"renewStamp", "renewWrite", "releaseDelete"} =>
         call[t].seen.holder = t[1]
    /\ pc[t] = "renewStamp" => call[t].seen.renew <= clock
    /\ pc[t] = "renewWrite" => call[t].seen.renew <= call[t].now

\* A write under way that would be accepted is harmless: it finds no Lease, an
\* expired one or its own; a deletion finds the Lease of a run that is over.
Harmless(w) ==
  /\ w.base <= top /\ w.renew <= clock
  /\ w.base = 0 => w.holder # None /\ pc[Main(w.holder)] = "done"
  /\ w.base = lease.rv /\ w.holder = None => pc[Main(lease.holder)] = "done"
  /\ w.base = lease.rv /\ w.holder # None =>
       \/ lease.holder = w.holder /\ lease.renew <= w.renew
       \/ /\ lease.rv = 0 \/ Expired(lease, clock)
          /\ lease.holder # w.holder /\ pc[Main(w.holder)] = "done"

OrphansAreHarmless == \A w \in orphans : Harmless(w)

\* A run that has not acquired is nowhere named as a holder.
NotYetHolders ==
  \A h \in Holders : pc[Main(h)] \in BeforeLabels =>
    /\ lease.holder # h
    /\ pc[Loop(h)] = "off"
    /\ \A w \in orphans : w.holder # h
    /\ \A t \in Threads : call[t].seen.holder # h

\* A run inside its window is named; the Lease was renewed no earlier than the
\* run was told.
WindowsHold ==
  \A h \in Holders : Working(h) =>
    /\ confirmed[h] <= clock
    /\ lease.holder = h => confirmed[h] <= lease.renew
    /\ clock < confirmed[h] + Duration => lease.holder = h

IndInv ==
  TypeOK /\ TimesAndVersions /\ WritesAreChecked /\ OrphansAreHarmless
    /\ NotYetHolders /\ WindowsHold
=============================================================================
