-------------------------- MODULE GovernedRuntime --------------------------
(***************************************************************************)
(* The reference runtime of governedaction/runtime: ReserveFenced,         *)
(* ExecuteReservedFenced, RunFenced and TakeoverReserved (fenced.go), Run  *)
(* (runtime.go, over governedaction.Dispatch of boundary.go) and Recover   *)
(* (recovery.go).                                                          *)
(*                                                                         *)
(* All processes act on one logical effect, that is one subject, current   *)
(* state and transition, hence one EffectIdentity; an attempt names one    *)
(* custody record of it.  Several processes may run under one executor     *)
(* identity.  The adapter is external: its custody store creates a record  *)
(* once and replaces it by compare-and-swap of the whole record, and a     *)
(* call to it may fail with its write still on the way.                    *)
(***************************************************************************)
EXTENDS Naturals, FiniteSets

CONSTANTS
    Procs,          \* processes calling the runtime
    Owner(_),       \* the executor identity each of them acts under
    Attempts,       \* attempt identifiers
    MaxGeneration,  \* the largest fencing generation, ^uint64(0) in the code
    MaxLate,        \* bound: writes whose caller has given up
    MaxCalls,       \* bound: calls of the runtime
    None

VARIABLES
    target,     \* the target's state: "from", "to", "after" that, or "other"
    admitted,   \* VerifyAttestation still accepts the admission
    custody,    \* the fenced custody record of every attempt, or None
    retained,   \* the owner in the unfenced custody record, or None
    late,       \* compare-and-swaps whose caller has given up
    pc, loc,    \* where every process is, and its locals
    entered,    \* entries of the effect callback
    calls

vars == <<target, admitted, custody, retained, late, pc, loc, entered, calls>>

Phases == {"RESERVED", "CROSSING", "UNKNOWN", "CLOSED"}
Owners == {Owner(p) : p \in Procs}
Custody == [owner : Owners, gen : 1 .. MaxGeneration, phase : Phases]

\* validateRequest has accepted the request; its executor is the process's owner.
\* checkRequestAtBoundary: the exact current state and the admission.
Admissible == target = "from" /\ admitted

NoLocals == [attempt |-> None, cust |-> None, next |-> None, held |-> FALSE, result |-> None]

Init ==
    /\ target = "from" /\ admitted = TRUE
    /\ custody = [a \in Attempts |-> None]
    /\ retained = [a \in Attempts |-> None]
    /\ late = {}
    /\ pc = [p \in Procs |-> "idle"]
    /\ loc = [p \in Procs |-> NoLocals]
    /\ entered = {}
    /\ calls = 0

-----------------------------------------------------------------------------
(* Helpers: one process moves, its locals change, a call returns.          *)

Entry(p, c) == [proc |-> p, attempt |-> loc[p].attempt, cust |-> c, held |-> loc[p].held]

Goto(p, l) == pc' = [pc EXCEPT ![p] = l] /\ UNCHANGED loc

Return(p, r) ==
    /\ pc' = [pc EXCEPT ![p] = "idle"]
    /\ loc' = [loc EXCEPT ![p].next = None, ![p].result = r]

\* A check before the process goes on to label l.
Check(p, here, l) ==
    /\ pc[p] = here
    /\ IF Admissible THEN Goto(p, l) ELSE Return(p, "REJECTED")
    /\ UNCHANGED <<target, admitted, custody, retained, late, entered, calls>>

\* TransitionFencedCustodyCAS of the adapter: the complete record is compared.
Swap(a, old, new) ==
    IF custody[a] = old THEN custody' = [custody EXCEPT ![a] = new] ELSE UNCHANGED custody

\* The process asks for its record to become next and goes to l when it did.
Transition(p, here, next, l, otherwise) ==
    LET a == loc[p].attempt
        old == loc[p].cust
    IN  /\ pc[p] = here
        /\ \/ /\ custody[a] = old
              /\ Swap(a, old, next)
              /\ pc' = [pc EXCEPT ![p] = l]
              /\ loc' = [loc EXCEPT ![p].cust = next, ![p].next = None, ![p].held = Admissible,
                                    ![p].result = IF l = "idle" THEN "CLOSED" ELSE @]
              /\ UNCHANGED late
           \/ custody[a] # old /\ Return(p, otherwise) /\ UNCHANGED <<custody, late>>
           \/ /\ Cardinality(late) < MaxLate
              /\ late' = late \cup {[attempt |-> a, old |-> old, new |-> next]}
              /\ Return(p, otherwise) /\ UNCHANGED custody
        /\ UNCHANGED <<target, admitted, retained, entered, calls>>

Call(p, here) ==
    /\ pc[p] = here
    /\ UNCHANGED <<admitted, late, calls>>

\* A swap whose caller has given up is carried out.
LateArrives(w) ==
    /\ w \in late /\ late' = late \ {w}
    /\ Swap(w.attempt, w.old, w.new)
    /\ UNCHANGED <<target, admitted, retained, pc, loc, entered, calls>>

-----------------------------------------------------------------------------
(* The calls of the runtime.                                               *)

\* A process starts a call; an execution presents a RESERVED record of its own,
\* which it has from an earlier call or has just read.
Begin(p, op, a) ==
    /\ pc[p] = "idle" /\ calls < MaxCalls
    /\ calls' = calls + 1
    /\ pc' = [pc EXCEPT ![p] = op]
    /\ \E c \in {loc[p].cust, custody[a], None} :
           /\ IF op = "execute"
              THEN c # None /\ c.owner = Owner(p) /\ c.phase = "RESERVED"
              ELSE c = None
           /\ loc' = [loc EXCEPT ![p] = [NoLocals EXCEPT !.attempt = a, !.cust = c]]
    /\ UNCHANGED <<target, admitted, custody, retained, late, entered>>

\* ReserveFenced: checked, the record created at generation one, checked again.
\* RunFenced goes on to execute, ReserveFenced alone returns the custody.
ReserveCheck(p) == Check(p, "reserve", "create")

Reserve(p) ==
    LET new == [owner |-> Owner(p), gen |-> 1, phase |-> "RESERVED"]
    IN  /\ Call(p, "create")
        /\ IF custody[loc[p].attempt] = None
           THEN /\ custody' = [custody EXCEPT ![loc[p].attempt] = new]
                /\ pc' = [pc EXCEPT ![p] = "reserved"]
                /\ loc' = [loc EXCEPT ![p].cust = new]
           ELSE Return(p, "REJECTED") /\ UNCHANGED custody
        /\ UNCHANGED <<target, retained, entered>>

ReserveRecheck(p) == Check(p, "reserved", "execute") \/ Check(p, "reserved", "idle")

\* ExecuteReservedFenced: check, load the record and compare, CROSSING, check
\* again, effect, UNKNOWN, observe, CLOSED.
ExecuteCheck(p) == Check(p, "execute", "load")

Load(p) ==
    /\ Call(p, "load")
    /\ IF custody[loc[p].attempt] = loc[p].cust THEN Goto(p, "cross") ELSE Return(p, "REJECTED")
    /\ UNCHANGED <<target, custody, retained, entered>>

Cross(p) == Transition(p, "cross", [loc[p].cust EXCEPT !.phase = "CROSSING"], "crossed", "REJECTED")

\* Mutant: nothing is checked once the record says CROSSING.
CrossedRecheckNothing(p) ==
    /\ pc[p] = "crossed" /\ Goto(p, "effect")
    /\ UNCHANGED <<target, admitted, custody, retained, late, entered, calls>>

CrossedRecheck(p) == Check(p, "crossed", "effect")

\* ExecuteFenced: the callback is entered; the target enforces owner and
\* generation, the effect happens or it does not, and an error says neither.
Effect(p) ==
    LET a == loc[p].attempt
    IN  /\ Call(p, "effect")
        /\ entered' = entered \cup {Entry(p, loc[p].cust)}
        /\ \/ UNCHANGED target
           \/ /\ custody[a] # None /\ custody[a].owner = loc[p].cust.owner
              /\ custody[a].gen = loc[p].cust.gen
              /\ target' = "to"
        /\ Goto(p, "unknown")
        /\ UNCHANGED <<custody, retained>>

MarkUnknown(p) == Transition(p, "unknown", [loc[p].cust EXCEPT !.phase = "UNKNOWN"], "observe", "UNKNOWN")

\* ObserveFenced and verifyObservation: the intended after-state, exactly.
Observe(p) ==
    /\ Call(p, "observe")
    /\ IF target = "to" THEN Goto(p, "close") ELSE Return(p, "UNKNOWN")
    /\ UNCHANGED <<target, custody, retained, entered>>

Close(p) == Transition(p, "close", [loc[p].cust EXCEPT !.phase = "CLOSED"], "idle", "UNKNOWN")

\* TakeoverReserved: a RESERVED record below the last generation, transferred
\* under an authorization for exactly this record and this new owner.
TakeoverLoad(p) ==
    LET c == custody[loc[p].attempt]
    IN  /\ Call(p, "takeover")
        /\ IF c # None /\ c.phase = "RESERVED" /\ c.gen # MaxGeneration
           THEN /\ pc' = [pc EXCEPT ![p] = "transfer"]
                /\ loc' = [loc EXCEPT ![p].cust = c,
                                      ![p].next = [c EXCEPT !.owner = Owner(p), !.gen = @ + 1]]
           ELSE Return(p, "REJECTED")
        /\ UNCHANGED <<target, custody, retained, entered>>

\* A taken-over record is known to its new owner, which may execute it.
Transfer(p) == Transition(p, "transfer", loc[p].next, "taken", "REJECTED")

Taken(p) ==
    /\ pc[p] = "taken" /\ Return(p, None)
    /\ UNCHANGED <<target, admitted, custody, retained, late, entered, calls>>

\* Run: Dispatch checks, retains custody, checks again and calls the effect.
RunCheck(p) == Check(p, "run", "retain")

Retain(p) ==
    /\ Call(p, "retain")
    /\ IF retained[loc[p].attempt] = None
       THEN /\ retained' = [retained EXCEPT ![loc[p].attempt] = Owner(p)]
            /\ pc' = [pc EXCEPT ![p] = "retained"] /\ loc' = [loc EXCEPT ![p].held = Admissible]
       ELSE Return(p, "REJECTED") /\ UNCHANGED retained
    /\ UNCHANGED <<target, custody, entered>>

RunRecheck(p) == Check(p, "retained", "dispatch")

Dispatch(p) ==
    /\ Call(p, "dispatch")
    /\ entered' = entered \cup {Entry(p, None)}
    /\ \/ UNCHANGED target
       \/ target' = "to"
    /\ Goto(p, "runobserve")
    /\ UNCHANGED <<custody, retained>>

\* Recover: the retained custody of this executor is loaded; then, as at the end
\* of Run, the target is observed and nothing else is done.
RecoverLoad(p) ==
    /\ Call(p, "recover")
    /\ IF retained[loc[p].attempt] = Owner(p) THEN Goto(p, "runobserve") ELSE Return(p, "REJECTED")
    /\ UNCHANGED <<target, custody, retained, entered>>

RunObserve(p) ==
    /\ Call(p, "runobserve")
    /\ Return(p, IF target = "to" THEN "CLOSED" ELSE "UNKNOWN")
    /\ UNCHANGED <<target, custody, retained, entered>>

-----------------------------------------------------------------------------
(* The environment.                                                        *)

\* A call of the adapter fails without effect, the context ends or the process dies.
FailOrCrash(p) ==
    /\ pc[p] # "idle"
    /\ Return(p, IF pc[p] \in {"unknown", "observe", "close", "runobserve"}
                 THEN "UNKNOWN" ELSE "REJECTED")
    /\ UNCHANGED <<target, admitted, custody, retained, late, entered, calls>>

\* Somebody else changes the target, possibly to the intended state, or the
\* admission is revoked.
Drift ==
    /\ \/ /\ target \in {"from", "to"}
          /\ target' \in IF target = "to" THEN {"after"} ELSE {"other", "to"}
          /\ UNCHANGED admitted
       \/ admitted /\ admitted' = FALSE /\ UNCHANGED target
    /\ UNCHANGED <<custody, retained, late, pc, loc, entered, calls>>

Ops == {"reserve", "execute", "takeover", "run", "recover"}

Step(p) ==
    \/ ReserveCheck(p) \/ Reserve(p) \/ ReserveRecheck(p)
    \/ ExecuteCheck(p) \/ Load(p) \/ Cross(p) \/ CrossedRecheck(p) \/ Effect(p)
    \/ MarkUnknown(p) \/ Observe(p) \/ Close(p)
    \/ TakeoverLoad(p) \/ Transfer(p) \/ Taken(p)
    \/ RunCheck(p) \/ Retain(p) \/ RunRecheck(p) \/ Dispatch(p)
    \/ RecoverLoad(p) \/ RunObserve(p)

Next ==
    \/ \E p \in Procs : (\E op \in Ops, a \in Attempts : Begin(p, op, a)) \/ Step(p) \/ FailOrCrash(p)
    \/ \E w \in late : LateArrives(w)
    \/ Drift

Spec == Init /\ [][Next]_vars

-----------------------------------------------------------------------------
(* Properties.                                                             *)

FencedEntries(a) == {e \in entered : e.attempt = a /\ e.cust # None}
PlainEntries(a) == {e \in entered : e.attempt = a /\ e.cust = None}

\* Records, locals and results have their shape, and a generation never leaves
\* the width of the counter.
TypeOK ==
    /\ custody \in [Attempts -> Custody \cup {None}]
    /\ retained \in [Attempts -> Owners \cup {None}]
    /\ \A p \in Procs :
           /\ loc[p].attempt \in Attempts \cup {None} /\ loc[p].cust \in Custody \cup {None}
           /\ loc[p].result \in {"REJECTED", "UNKNOWN", "CLOSED", None}

\* Whatever is retried, taken over or lost, the effect callback is entered at most
\* once per attempt, by the holder of the record (fenced.go:152-160).
EntersOnce ==
    \A a \in Attempts :
        /\ Cardinality(FencedEntries(a)) <= 1 /\ Cardinality(PlainEntries(a)) <= 1
        /\ \A e \in FencedEntries(a) :
               /\ custody[a] # None
               /\ custody[a].owner = e.cust.owner /\ custody[a].gen = e.cust.gen

\* The durable phase tells the truth to whoever finds it after a crash: RESERVED,
\* nothing has entered; UNKNOWN or CLOSED, it has (fenced.go:35-38).
PhaseIsTruthful ==
    \A a \in Attempts :
        custody[a] # None =>
            /\ custody[a].phase = "RESERVED" => FencedEntries(a) = {}
            /\ custody[a].phase \in {"UNKNOWN", "CLOSED"} => FencedEntries(a) # {}

\* What was already stale or revoked when custody was retained never enters: the
\* check is repeated after the record is durable (boundary.go:97-104, fenced.go:217).
StaleNeverEnters == \A e \in entered : e.held

\* CLOSED, as a result or on record, means that custody was durable and that the
\* target reached the intended state: acceptance by the provider never closes
\* (runtime.go:177-179).  An unfenced closure does not say whose act it was
\* (runtime.go:329-332); on a fenced one see PhaseIsTruthful.
ClosedWasObserved ==
    /\ \A p \in Procs : loc[p].result = "CLOSED" =>
           /\ target \in {"to", "after"}
           /\ LET a == loc[p].attempt IN
              \/ retained[a] = Owner(p)
              \/ custody[a] # None /\ custody[a].phase = "CLOSED"
    /\ \A a \in Attempts : custody[a] # None /\ custody[a].phase = "CLOSED" => target \in {"to", "after"}

\* A record moves forward only, changes hands only while RESERVED and then by one
\* generation, and is never removed.
CustodyForward ==
    [][\A a \in Attempts :
           custody[a] # None /\ custody'[a] # custody[a] =>
               LET o == custody[a]
                   n == custody'[a]
               IN  \/ n = [o EXCEPT !.phase = "CROSSING"] /\ o.phase = "RESERVED"
                   \/ n = [o EXCEPT !.phase = "UNKNOWN"] /\ o.phase = "CROSSING"
                   \/ n = [o EXCEPT !.phase = "CLOSED"] /\ o.phase = "UNKNOWN"
                   \/ o.phase = "RESERVED" /\ n.phase = "RESERVED" /\ n.gen = o.gen + 1]_vars
=============================================================================
