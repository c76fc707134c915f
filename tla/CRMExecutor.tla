---------------------------- MODULE CRMExecutor ----------------------------
(***************************************************************************)
(* The CRM effect executor of internal/eepcrm: Execute (executor.go),      *)
(* ReconcileAttempt and RetireAttemptUnknown (recovery.go), over the       *)
(* durable attempt store (attempt_store.go), the journal and an HTTP       *)
(* destination that is external to the code.                               *)
(*                                                                         *)
(* An attempt is one signed permit with its plan; every permit is about    *)
(* one customer at the version it was given for.  Of the customer's state  *)
(* only the fields of the plan that hold the intended value are kept.  A   *)
(* request whose answer is lost may still reach the destination later.     *)
(***************************************************************************)
EXTENDS Naturals, FiniteSets

CONSTANTS
    Procs,        \* concurrent calls of one executor process
    Attempts,     \* (permit, plan) pairs, MutationAttemptID
    Fields,       \* the fields the plan patches
    MaxVersion,   \* bound: versions of the customer
    MaxCalls,     \* bound: calls
    None

ASSUME CRMAssumption ==
    /\ MaxVersion \in Nat \ {0} /\ MaxCalls \in Nat /\ IsFiniteSet(Fields) /\ Fields # {}
    /\ None \notin {200, 412} /\ None \notin Attempts
    /\ None \notin {"TORN", "CLAIMED", "POSSIBLE_EFFECT", "ACCEPTED", "BLOCKED", "COMPLETED", "RETIRED_UNKNOWN"}

VARIABLES
    customer,   \* the destination: version, and the fields that are as planned
    expired,    \* attempts whose permit is past its validity
    store,      \* the attempt record's state; "TORN" is a file without its record
    journal,    \* the events journaled for an attempt
    sent,       \* PATCH requests sent for an attempt
    wire,       \* processes whose PATCH is under way
    answer,     \* the destination's answer to the process's PATCH
    applied,    \* attempts whose PATCH changed the customer
    pc, loc, calls

vars == <<customer, expired, store, journal, sent, wire, answer, applied, pc, loc, calls>>

States == {"CLAIMED", "POSSIBLE_EFFECT", "ACCEPTED", "BLOCKED", "COMPLETED", "RETIRED_UNKNOWN"}
Expected == 1   \* binding.ExpectedResourceVersion of every permit

-----------------------------------------------------------------------------
(* The pure parts.                                                         *)

\* EvaluateCustomerUpdatePostcondition, over the fields that match.
Evaluate(sat) ==
    IF sat = Fields THEN "VERIFIED" ELSE IF sat = {} THEN "UNSATISFIED" ELSE "PARTIAL"

\* validateSnapshotBinding: the right customer of the right destination, at the
\* version the permit is for.
Bound(snapshot) == snapshot.ver = Expected

\* acceptanceForAttemptState; Execute keeps acceptance and state in the same step.
Acceptance(state) == IF state = "ACCEPTED" THEN "ACCEPTED" ELSE "UNKNOWN"

\* allowedAttemptTransition.
Allowed(from, to) ==
    \/ from = "CLAIMED" /\ to \in {"BLOCKED", "POSSIBLE_EFFECT", "COMPLETED"}
    \/ from = "POSSIBLE_EFFECT" /\ to \in {"BLOCKED", "ACCEPTED", "COMPLETED", "RETIRED_UNKNOWN"}
    \/ from = "ACCEPTED" /\ to \in {"COMPLETED", "RETIRED_UNKNOWN"}

\* validateOutcomeSemantics: what an outcome must agree on before it is journaled.
ValidOutcome(o) ==
    /\ o.acceptance = "NOT_DISPATCHED" => o.http = 0
    /\ o.acceptance = "ACCEPTED" => o.http = 200
    /\ o.acceptance = "UNKNOWN" => o.http # 200
    /\ \/ /\ o.result = "ALREADY_SATISFIED" /\ o.acceptance = "NOT_DISPATCHED"
          /\ o.status = "PRE_MUTATION" /\ o.count = 1 /\ o.eval = "VERIFIED"
       \/ /\ o.result \in {"VERIFIED", "PARTIAL", "UNSATISFIED"} /\ o.acceptance # "NOT_DISPATCHED"
          /\ o.status = "OBSERVED_STABLE" /\ o.count = 3 /\ o.eval = o.result
       \/ /\ o.result = "UNKNOWN" /\ o.acceptance # "NOT_DISPATCHED"
          /\ o.status \in {"UNAVAILABLE", "CONTRADICTORY", "WRONG_TARGET"}

\* validateClosureEvidence, for the evidence of a recovery call.
ValidClosure(o, before) ==
    \/ o.state = "COMPLETED" /\ o.status = "OBSERVED_STABLE" /\ o.count = 3 /\ o.result # "UNKNOWN"
    \/ o.state = before /\ o.state # "COMPLETED"
    \/ o.state = "RETIRED_UNKNOWN" /\ o.result = "UNKNOWN" /\ o.status = "UNAVAILABLE"

NoLocals == [kind |-> None, att |-> None, state |-> None, http |-> 0, last |-> {}, count |-> 0, out |-> None]

Init ==
    /\ customer \in [ver : {Expected}, sat : SUBSET Fields]
    /\ expired = {}
    /\ store = [a \in Attempts |-> None]
    /\ journal = [a \in Attempts |-> {}]
    /\ sent = [a \in Attempts |-> 0]
    /\ wire = {} /\ applied = {}
    /\ answer = [p \in Procs |-> None]
    /\ pc = [p \in Procs |-> "idle"]
    /\ loc = [p \in Procs |-> NoLocals]
    /\ calls = 0

-----------------------------------------------------------------------------
(* A call moves on, returns, writes the attempt record or the journal.     *)

world == <<customer, expired, sent, wire, answer, applied, calls>>

At(p, l) == pc[p] = l
Goto(p, l) == pc' = [pc EXCEPT ![p] = l]
Return(p) == Goto(p, "idle") /\ loc' = [loc EXCEPT ![p] = NoLocals]

Event(type, state, result) == [type |-> type, state |-> state, result |-> result]

\* writeAtomic: the whole record is replaced, old or new after a crash.
WriteRecord(a, s) == store' = [store EXCEPT ![a] = s]

\* FileAttemptStore.Transition under the store's mutex: the record is in state
\* from and the change is allowed, or it fails; it also fails when the directory
\* cannot be synced after the rename.
Transition(p, from, to, l) ==
    LET a == loc[p].att
    IN  /\ \/ /\ store[a] = from /\ Allowed(from, to) /\ WriteRecord(a, to)
              /\ \/ l # "idle" /\ Goto(p, l) /\ loc' = [loc EXCEPT ![p].state = to]
                 \/ Return(p)
           \/ UNCHANGED store /\ Return(p)
        /\ UNCHANGED journal /\ UNCHANGED world

\* journal.Append: recorded, not recorded, or recorded with the answer lost.
Append(p, e, l) ==
    LET a == loc[p].att
        written == journal' = [journal EXCEPT ![a] = @ \cup {e}]
    IN  /\ \/ written /\ l # "idle" /\ Goto(p, l) /\ UNCHANGED loc
           \/ (written \/ UNCHANGED journal) /\ Return(p)
        /\ UNCHANGED store /\ UNCHANGED world

Quiet == UNCHANGED <<customer, expired, store, journal, sent, wire, answer, applied, calls>>

-----------------------------------------------------------------------------
(* Execute.                                                                *)

\* The packet, permit, plan and binding are verified; an expired permit is refused.
Begin(p, kind, a) ==
    /\ At(p, "idle") /\ calls < MaxCalls
    /\ calls' = calls + 1
    /\ kind = "execute" => a \notin expired
    /\ Goto(p, IF kind = "execute" THEN "claim" ELSE "load")
    /\ loc' = [loc EXCEPT ![p] = [NoLocals EXCEPT !.kind = kind, !.att = a]]
    /\ UNCHANGED <<customer, expired, store, journal, sent, wire, answer, applied>>

\* Mutant: a record that is there does not stop a claim.
ClaimAgain(p) ==
    LET a == loc[p].att
    IN  /\ At(p, "claim")
        /\ store' = [store EXCEPT ![a] = "CLAIMED"] /\ Goto(p, "authorize")
        /\ loc' = [loc EXCEPT ![p].state = "CLAIMED"]
        /\ UNCHANGED journal /\ UNCHANGED world

\* Claim creates the file exclusively; it may fail with the file there, written
\* or empty.
Claim(p) ==
    LET a == loc[p].att
        record(s) == store[a] = None /\ store' = [store EXCEPT ![a] = s]
    IN  /\ At(p, "claim")
        /\ \/ record("CLAIMED") /\ Goto(p, "authorize") /\ loc' = [loc EXCEPT ![p].state = "CLAIMED"]
           \/ (record("CLAIMED") \/ record("TORN") \/ UNCHANGED store) /\ Return(p)
        /\ UNCHANGED journal /\ UNCHANGED world

JournalAuthorization(p) ==
    At(p, "authorize") /\ Append(p, Event("AUTHORIZATION", "CLAIMED", None), "before")

\* The customer is read; a failed read or a stale precondition blocks.  The plan
\* may already be satisfied.
ReadBefore(p) ==
    /\ At(p, "before")
    /\ \/ Goto(p, "block") /\ UNCHANGED loc
       \/ /\ Bound(customer)
          /\ IF Evaluate(customer.sat) = "VERIFIED"
             THEN /\ Goto(p, "append")
                  /\ loc' = [loc EXCEPT ![p].out =
                         [state |-> "COMPLETED", result |-> "ALREADY_SATISFIED", acceptance |-> "NOT_DISPATCHED",
                          status |-> "PRE_MUTATION", count |-> 1, eval |-> "VERIFIED", http |-> 0]]
             ELSE Goto(p, "check") /\ UNCHANGED loc
    /\ Quiet

\* The transition to BLOCKED, whose own failure is ignored.
Block(p) ==
    At(p, "block") /\ Transition(p, loc[p].state, "BLOCKED", "idle")

\* checkEffectBoundary, before and after the durable writes.  What it compares
\* besides the validity does not change within a call.
EffectCheck(p) ==
    /\ pc[p] \in {"check", "recheck"}
    /\ IF loc[p].att \in expired THEN Return(p)
       ELSE Goto(p, IF At(p, "check") THEN "intent" ELSE "patch") /\ UNCHANGED loc
    /\ Quiet

JournalIntent(p) ==
    At(p, "intent") /\ Append(p, Event("EXECUTION", "POSSIBLE_EFFECT", None), "possible")

PersistPossible(p) ==
    At(p, "possible") /\ Transition(p, "CLAIMED", "POSSIBLE_EFFECT", "recheck")

\* patchCustomer: one PATCH with If-Match.
SendPatch(p) ==
    /\ At(p, "patch") /\ Goto(p, "wait")
    /\ sent' = [sent EXCEPT ![loc[p].att] = @ + 1]
    /\ wire' = wire \cup {<<p, loc[p].att>>}
    /\ answer' = [answer EXCEPT ![p] = None]
    /\ UNCHANGED <<customer, expired, store, journal, applied, loc, calls>>

\* The answer: 2xx, 412, or anything else (an error or another status).
PatchAnswer(p) ==
    /\ At(p, "wait")
    /\ \/ answer[p] = 200 /\ Goto(p, "accept") /\ loc' = [loc EXCEPT ![p].http = 200]
       \/ answer[p] = 412 /\ Goto(p, "block") /\ UNCHANGED loc
       \/ Goto(p, "observe") /\ UNCHANGED loc
    /\ Quiet

PersistAccepted(p) ==
    At(p, "accept") /\ Transition(p, "POSSIBLE_EFFECT", "ACCEPTED", "observe")

-----------------------------------------------------------------------------
(* Observation, and what it lets Execute and ReconcileAttempt conclude.    *)

\* Mutant: a stable observation closes the attempt whatever was accepted.
OutcomeStableCloses(p, result, status, count, eval) ==
    [state |-> IF result = "UNKNOWN" THEN loc[p].state ELSE "COMPLETED", result |-> result,
     acceptance |-> Acceptance(loc[p].state), status |-> status, count |-> count, eval |-> eval,
     http |-> loc[p].http]

\* The outcome for a result, an observation status and the last evaluation.  An
\* unknown acceptance is discharged only by a stable verified observation.
Outcome(p, result, status, count, eval) ==
    LET l == loc[p]
        open == result = "UNKNOWN" \/ (Acceptance(l.state) = "UNKNOWN" /\ result # "VERIFIED")
    IN  [state |-> IF open THEN l.state ELSE "COMPLETED", result |-> result,
         acceptance |-> Acceptance(l.state), status |-> status, count |-> count, eval |-> eval, http |-> l.http]

Concludes(p, o) ==
    /\ Goto(p, IF ValidOutcome(o) THEN "append" ELSE "invalid")
    /\ loc' = [loc EXCEPT ![p].out = o]

\* observePostcondition: three reads, the last two equal; a read that fails or is
\* of the wrong customer ends it, with what was seen before it retained.
Observe(p) ==
    LET l == loc[p]
        eval == Evaluate(customer.sat)
    IN  /\ At(p, "observe")
        /\ \/ \E status \in {"UNAVAILABLE", "WRONG_TARGET"} :
                  Concludes(p, Outcome(p, "UNKNOWN", status, l.count,
                                       IF l.count = 0 THEN None ELSE Evaluate(l.last)))
           \/ /\ l.count < 2 /\ UNCHANGED pc
              /\ loc' = [loc EXCEPT ![p].count = @ + 1, ![p].last = customer.sat]
           \/ /\ l.count = 2
              /\ Concludes(p, IF customer.sat = l.last
                              THEN Outcome(p, eval, "OBSERVED_STABLE", 3, eval)
                              ELSE Outcome(p, "UNKNOWN", "CONTRADICTORY", 3, eval))
        /\ Quiet

\* appendOutcomeEvent and appendClosureEvent; only a COMPLETED or retired attempt
\* is persisted afterwards.
JournalOutcome(p) ==
    LET o == loc[p].out
    IN  /\ At(p, "append")
        /\ Append(p, Event("OUTCOME", o.state, o.result), IF o.state = loc[p].state THEN "idle" ELSE "complete")

\* The attempt record follows the journal.
Complete(p) ==
    At(p, "complete") /\ Transition(p, loc[p].state, loc[p].out.state, "idle")

-----------------------------------------------------------------------------
(* Recovery.                                                               *)

\* FileAttemptStore.Load: a torn file is not a record.
Recorded(a) == IF store[a] = "TORN" THEN None ELSE store[a]

\* loadRecoveryAttempt and the switch on the state: only an unresolved attempt is
\* observed or retired.
Load(p) ==
    LET s == Recorded(loc[p].att)
    IN  /\ At(p, "load")
        /\ IF s \in {"POSSIBLE_EFFECT", "ACCEPTED"}
           THEN IF loc[p].kind = "reconcile"
                THEN /\ Goto(p, "observe")
                     /\ loc' = [loc EXCEPT ![p].state = s, ![p].http = IF s = "ACCEPTED" THEN 200 ELSE 0]
                ELSE /\ Goto(p, "append")
                     /\ loc' = [loc EXCEPT ![p].state = s, ![p].out =
                            [state |-> "RETIRED_UNKNOWN", result |-> "UNKNOWN", acceptance |-> Acceptance(s),
                             status |-> "UNAVAILABLE", count |-> 0, eval |-> None, http |-> 0]]
           ELSE Return(p)
        /\ Quiet

-----------------------------------------------------------------------------
(* The destination and the rest of the world.                              *)

\* The destination takes a PATCH: If-Match refuses another version than the
\* expected one.  It may keep less than it was given.
PatchArrives(w) ==
    /\ w \in wire /\ wire' = wire \ {w}
    /\ IF customer.ver = Expected
       THEN /\ \E sat \in SUBSET Fields : customer' = [ver |-> customer.ver + 1, sat |-> sat]
            /\ applied' = applied \cup {w[2]}
            /\ answer' = [answer EXCEPT ![w[1]] = IF At(w[1], "wait") /\ loc[w[1]].att = w[2] THEN 200 ELSE @]
       ELSE /\ answer' = [answer EXCEPT ![w[1]] = IF At(w[1], "wait") /\ loc[w[1]].att = w[2] THEN 412 ELSE @]
            /\ UNCHANGED <<customer, applied>>
    /\ UNCHANGED <<expired, store, journal, sent, pc, loc, calls>>

PatchLost(w) ==
    /\ w \in wire /\ wire' = wire \ {w}
    /\ UNCHANGED <<customer, expired, store, journal, sent, answer, applied, pc, loc, calls>>

\* Somebody else writes the customer.
OtherWriter ==
    /\ customer.ver < MaxVersion
    /\ \E sat \in SUBSET Fields : customer' = [ver |-> customer.ver + 1, sat |-> sat]
    /\ UNCHANGED <<expired, store, journal, sent, wire, answer, applied, pc, loc, calls>>

Expire(a) ==
    /\ a \notin expired /\ expired' = expired \cup {a}
    /\ UNCHANGED <<customer, store, journal, sent, wire, answer, applied, pc, loc, calls>>

\* The executor's process dies: every call is gone, what is durable stays.
Crash ==
    /\ \E p \in Procs : ~At(p, "idle")
    /\ pc' = [p \in Procs |-> "idle"] /\ loc' = [p \in Procs |-> NoLocals]
    /\ answer' = [p \in Procs |-> None]
    /\ UNCHANGED <<customer, expired, store, journal, sent, wire, applied, calls>>

Step(p) ==
    \/ Claim(p) \/ JournalAuthorization(p) \/ ReadBefore(p) \/ Block(p) \/ EffectCheck(p)
    \/ JournalIntent(p) \/ PersistPossible(p) \/ SendPatch(p) \/ PatchAnswer(p) \/ PersistAccepted(p)
    \/ Observe(p) \/ JournalOutcome(p) \/ Complete(p) \/ Load(p)

Next ==
    \/ \E p \in Procs :
           \/ \E kind \in {"execute", "reconcile", "retire"}, a \in Attempts : Begin(p, kind, a)
           \/ Step(p)
    \/ \E w \in wire : PatchArrives(w) \/ PatchLost(w)
    \/ OtherWriter \/ Crash
    \/ \E a \in Attempts : Expire(a)

Spec == Init /\ [][Next]_vars

-----------------------------------------------------------------------------
(* Properties.                                                             *)

Labels ==
    {"idle", "load", "claim", "authorize", "before", "check", "intent", "possible", "recheck", "patch", "wait",
     "accept", "block", "observe", "append", "complete", "invalid"}
Evaluations == {"VERIFIED", "PARTIAL", "UNSATISFIED"}
Results == Evaluations \cup {"ALREADY_SATISFIED", "UNKNOWN"}
Outcomes ==
    [state : States, result : Results, acceptance : {"ACCEPTED", "UNKNOWN", "NOT_DISPATCHED"},
     status : {"PRE_MUTATION", "OBSERVED_STABLE", "UNAVAILABLE", "CONTRADICTORY", "WRONG_TARGET"},
     count : 0 .. 3, eval : Evaluations \cup {None}, http : {0, 200}]
Locals ==
    [kind : {"execute", "reconcile", "retire", None}, att : Attempts \cup {None}, state : States \cup {None},
     http : {0, 200}, last : SUBSET Fields, count : 0 .. 2, out : Outcomes \cup {None}]
Events == [type : {"AUTHORIZATION", "EXECUTION", "OUTCOME"}, state : States, result : Results \cup {None}]

\* The records, events and locals have their shape.
TypeOK ==
    /\ customer \in [ver : Nat \ {0}, sat : SUBSET Fields] /\ expired \in SUBSET Attempts
    /\ store \in [Attempts -> States \cup {None, "TORN"}]
    /\ journal \in [Attempts -> SUBSET Events]
    /\ sent \in [Attempts -> Nat] /\ wire \in SUBSET (Procs \X Attempts)
    /\ answer \in [Procs -> {None, 200, 412}] /\ applied \in SUBSET Attempts
    /\ pc \in [Procs -> Labels] /\ loc \in [Procs -> Locals] /\ calls \in Nat

\* However calls are repeated, run side by side or cut off, at most one PATCH is
\* ever sent for an attempt, and before it the dispatch intent was journaled and
\* POSSIBLE_EFFECT was durable (executor.go:355-374).
PatchOnceAndRecorded ==
    \A a \in Attempts :
        /\ sent[a] <= 1
        /\ sent[a] > 0 =>
               /\ store[a] \in {"POSSIBLE_EFFECT", "ACCEPTED", "BLOCKED", "COMPLETED", "RETIRED_UNKNOWN"}
               /\ Event("EXECUTION", "POSSIBLE_EFFECT", None) \in journal[a]

\* A BLOCKED attempt had no effect and can have none: its PATCH was refused or was
\* never sent (executor.go:276-290, 381-390).
BlockedHasNoEffect ==
    \A a \in Attempts :
        store[a] = "BLOCKED" => a \notin applied /\ \A w \in wire : w[2] # a

\* An attempt that was closed with an unverified result was accepted, so nothing of
\* it is still under way; ALREADY_SATISFIED sent nothing (executor.go:465-484,
\* recovery.go:116-118).
ClosureIsEarned ==
    \A a \in Attempts :
        store[a] = "COMPLETED" =>
            LET out == {e \in journal[a] : e.type = "OUTCOME" /\ e.state = "COMPLETED"}
            IN  /\ out # {}
                /\ (\A e \in out : e.result \in {"PARTIAL", "UNSATISFIED"}) => \A w \in wire : w[2] # a
                /\ (\E e \in out : e.result = "ALREADY_SATISFIED") => sent[a] = 0

\* A terminal state other than BLOCKED is on the journal before it is in the store
\* (recovery.go:230-243).
JournalFirst ==
    \A a \in Attempts :
        store[a] \in {"COMPLETED", "RETIRED_UNKNOWN"} =>
            \E e \in journal[a] : e.type = "OUTCOME" /\ e.state = store[a]

\* Every outcome the two calls build passes the check that would otherwise drop it
\* unjournaled, after the effect (executor.go:648, recovery.go:357).
NoOutcomeDropped ==
    \A p \in Procs :
        /\ ~At(p, "invalid")
        /\ At(p, "append") /\ loc[p].kind # "execute" => ValidClosure(loc[p].out, loc[p].state)

\* Once an attempt is COMPLETED or BLOCKED the destination is never changed by it,
\* although another call may still be sending its PATCH: the version it expects
\* is gone (executor.go:975).
NoEffectAfterClosure ==
    [][\A a \in applied' \ applied : store[a] \in {"POSSIBLE_EFFECT", "RETIRED_UNKNOWN"}]_vars

\* A resolved attempt stays as it is (attempt_store.go:289-300).
ResolvedIsFinal ==
    [][\A a \in Attempts :
           store[a] \in {"BLOCKED", "COMPLETED", "RETIRED_UNKNOWN"} => store'[a] = store[a]]_vars

\* An attempt is closed for what really happened and stays so: BLOCKED had no
\* effect and can have none, a closure with an unverified result has nothing under
\* way, ALREADY_SATISFIED sent nothing; the outcome is journaled first, no outcome
\* is dropped by the check that follows the effect, and neither the destination nor
\* the record is changed by the attempt after it.
ClosureIsHonest ==
    /\ [](TypeOK /\ BlockedHasNoEffect /\ ClosureIsEarned /\ JournalFirst /\ NoOutcomeDropped)
    /\ NoEffectAfterClosure /\ ResolvedIsFinal

-----------------------------------------------------------------------------
(* The inductive invariant of CRMExecutorProofs.                           *)

\* The call that created the attempt's record; only it sends the PATCH.
Owner(p, a) == loc[p].kind = "execute" /\ loc[p].att = a /\ pc[p] \notin {"idle", "claim"}

Clear(a) == \A w \in wire : w[2] # a
Untouched(a) == a \notin applied /\ Clear(a)
Settled(a) == a \in applied /\ Clear(a)
Intent(a) == Event("EXECUTION", "POSSIBLE_EFFECT", None) \in journal[a]

\* The version the permits expect is gone, or the plan is not met at it.
Moved == customer.ver # Expected
Unmet == Moved \/ customer.sat # Fields

\* What a call that closes attempt a with a result knows.
Earned(a, result) ==
    /\ result \in Results \ {"UNKNOWN"}
    /\ result \in {"PARTIAL", "UNSATISFIED"} => Settled(a)
    /\ result = "VERIFIED" => Moved
    /\ result = "ALREADY_SATISFIED" => sent[a] = 0 /\ store[a] # None

\* Where a call is, and what holds of its attempt there.
ProcInv(p) ==
    LET l == loc[p]  a == loc[p].att  o == loc[p].out IN
    /\ pc[p] # "invalid" /\ (pc[p] # "idle" => a \in Attempts)
    /\ pc[p] \notin {"idle", "load", "observe", "append", "complete"} => l.kind = "execute"
    /\ pc[p] = "load" => l.kind # "execute"
    /\ Owner(p, a) => store[a] # None
    /\ pc[p] \in {"authorize", "before", "check", "intent", "possible", "recheck", "patch"} => sent[a] = 0
    /\ pc[p] \in {"authorize", "before", "check", "intent", "possible"} => l.state = "CLAIMED"
    /\ pc[p] \in {"recheck", "patch", "wait", "accept"} => l.state = "POSSIBLE_EFFECT"
    /\ pc[p] \in {"check", "intent", "possible", "recheck", "patch", "wait", "accept", "observe"} => Unmet
    /\ pc[p] \in {"possible", "recheck", "patch"} => Intent(a)
    /\ pc[p] \in {"recheck", "patch"} => store[a] \in {"POSSIBLE_EFFECT", "COMPLETED", "RETIRED_UNKNOWN"}
    /\ pc[p] \notin {"accept", "block", "observe", "append", "complete"} => l.http = 0
    /\ pc[p] = "block" => Untouched(a)
    /\ pc[p] = "wait" => (answer[p] = 200 => Settled(a)) /\ (answer[p] = 412 => Untouched(a))
    /\ pc[p] = "accept" => Settled(a) /\ l.http = 200
    /\ pc[p] = "observe" =>
           /\ l.state \in {"POSSIBLE_EFFECT", "ACCEPTED"} /\ l.http = (IF l.state = "ACCEPTED" THEN 200 ELSE 0)
           /\ l.state = "ACCEPTED" => Settled(a)
    /\ pc[p] \in {"append", "complete"} =>
           /\ o \in Outcomes /\ o.state \in {l.state, "COMPLETED", "RETIRED_UNKNOWN"}
           /\ l.state \in {"CLAIMED", "POSSIBLE_EFFECT", "ACCEPTED"}
           /\ o.state = "COMPLETED" => Earned(a, o.result)
           /\ o.result = "ALREADY_SATISFIED" => l.kind = "execute"
    /\ pc[p] = "append" /\ l.kind # "execute" => ValidClosure(o, l.state)
    /\ pc[p] = "complete" =>
           o.state \in {"COMPLETED", "RETIRED_UNKNOWN"} /\ Event("OUTCOME", o.state, o.result) \in journal[a]

AttInv(a) ==
    /\ sent[a] \in {0, 1}
    /\ sent[a] = 1 => store[a] \in {"POSSIBLE_EFFECT", "ACCEPTED", "BLOCKED", "COMPLETED", "RETIRED_UNKNOWN"} /\ Intent(a)
    /\ sent[a] = 0 => Untouched(a)
    /\ a \in applied => Clear(a)
    /\ \A v, w \in wire : v[2] = a /\ w[2] = a => v = w
    /\ store[a] \in {"POSSIBLE_EFFECT", "ACCEPTED"} => Unmet
    /\ store[a] = "ACCEPTED" => Settled(a)
    /\ store[a] = "BLOCKED" => Untouched(a)
    /\ store[a] \in {"COMPLETED", "RETIRED_UNKNOWN"} => \E e \in journal[a] : e.type = "OUTCOME" /\ e.state = store[a]
    /\ \A e \in journal[a] : e.type = "OUTCOME" /\ e.state = "COMPLETED" =>
           /\ Earned(a, e.result)
           /\ e.result = "ALREADY_SATISFIED" => \A p \in Procs : Owner(p, a) => pc[p] = "complete"
    /\ \A p, q \in Procs : Owner(p, a) /\ Owner(q, a) => p = q

CRMInv == TypeOK /\ (\A p \in Procs : ProcInv(p)) /\ (\A a \in Attempts : AttInv(a))
=============================================================================
