--------------------------- MODULE QuorumRotation ---------------------------
(***************************************************************************)
(* The rotation of a journal's witness quorum, internal/journal/           *)
(* quorum_rotation.go: the witnesses both policies share are frozen at one *)
(* head, one by one, and once all of them are, activated under the new     *)
(* policy.  It runs beside clients of the old and of the new quorum        *)
(* (WitnessQuorum), stops anywhere, and is run again.  The succession of a *)
(* governed history (history_succession.go) runs it between two readings   *)
(* of the history's head.                                                  *)
(***************************************************************************)
EXTENDS WitnessQuorum

CONSTANTS
    Shared,       \* the witnesses of both policies, in the plan's order
    Rotators,     \* processes that execute the rotation
    Kinds,        \* what they execute: "rotation", "succession"
    MaxRuns       \* bound: executions started, the last of which is not stopped

Blocking(p) == Cardinality(Members[p]) - Threshold[p] + 1

\* NewQuorumRotationPlan.
ASSUME PlanAssumption ==
    /\ MaxRuns \in Nat
    /\ Shared \in Seq(Witnesses)
    /\ Elements(Shared) = Members["old"] \cap Members["new"]
    /\ Cardinality(Elements(Shared)) = Len(Shared)
    /\ Len(Shared) >= Blocking("old") /\ Len(Shared) >= Blocking("new")
    /\ Len(Shared) >= Threshold["new"]

\* NewHistorySuccessionPlan: purpose and journal stay the same, the Genesis epoch
\* goes on.
ASSUME SuccessionAssumption == Kinds \subseteq {"rotation", "succession"}

VARIABLES
    rpc, rloc,   \* where an execution is, and its locals
    rlate,       \* policy transitions under way whose caller has gone
    rotated,     \* the heads of executions that returned success
    runs

rvars == <<rpc, rloc, rlate, rotated, runs>>
allvars == <<vars, rvars>>

\* before: the head a succession starts from, <<>> in a rotation of its own.
NoRotation == [i |-> 1, before |-> <<>>, head |-> <<>>, found |-> <<>>, votes |-> {}]

RotatorInit ==
    /\ rpc = [r \in Rotators |-> "idle"] /\ rloc = [r \in Rotators |-> NoRotation]
    /\ rlate = {} /\ rotated = {} /\ runs = 0

RInit == Init /\ RotatorInit

-----------------------------------------------------------------------------
\* jointPolicy: the frozen policy commits to the head it is frozen at.
Joint(h) == [phase |-> "JOINT", policy |-> "new", head |-> h]

\* ValidateQuorumPolicyTransition: OLD to JOINT, JOINT to NEW, nothing else.
ValidTransition(from, to) ==
    \/ from = Active("old") /\ to.phase = "JOINT"
    \/ from.phase = "JOINT" /\ to = Active("new")

\* handlePolicyTransition: the policy expected, the head expected, and its version.
Transitions(t) ==
    /\ wit[t.wit].policy = t.from /\ ValidTransition(t.from, t.to)
    /\ wit[t.wit].head = t.head /\ wit[t.wit].ver = t.ver

\* CompareAndTransitionQuorumPolicy: the head is observed first, at its version.
Transition(r, w, from, to) == [wit |-> w, from |-> from, to |-> to, head |-> rloc[r].head, ver |-> wit[w].ver]

Goto(r, l, with) == rpc' = [rpc EXCEPT ![r] = l] /\ rloc' = [rloc EXCEPT ![r] = with]

\* From one shared witness to the next, and after the last one on to l.
Forward(r, l, with) ==
    IF rloc[r].i < Len(Shared)
    THEN Goto(r, rpc[r], [with EXCEPT !.i = @ + 1])
    ELSE Goto(r, l, [with EXCEPT !.i = 1])

Current(r) == Shared[rloc[r].i]

Start(r) ==
    /\ rpc[r] = "idle" /\ runs < MaxRuns /\ rotated = {}
    /\ runs' = runs + 1
    /\ \E kind \in Kinds : Goto(r, IF kind = "rotation" THEN "observe" ELSE "before", NoRotation)
    /\ UNCHANGED <<vars, rlate, rotated>>

\* ExecuteGovernedHistorySuccession: the head of the shared witnesses before.
ObserveBefore(r) ==
    LET h == wit[Current(r)].head
    IN  /\ rpc[r] = "before" /\ h # <<>>
        /\ rloc[r].i > 1 => h = rloc[r].before
        /\ Forward(r, "observe", [rloc[r] EXCEPT !.before = h])
        /\ UNCHANGED <<vars, rlate, rotated, runs>>

\* observeSharedRotationHead: all shared witnesses hold one head.
ObserveShared(r) ==
    LET h == wit[Current(r)].head
    IN  /\ rpc[r] = "observe" /\ h # <<>>
        /\ rloc[r].i > 1 => h = rloc[r].head
        /\ Forward(r, "classify", [rloc[r] EXCEPT !.head = h])
        /\ UNCHANGED <<vars, rlate, rotated, runs>>

\* classifyRotationPolicies: each of them is OLD, frozen at that head, or NEW.
Classify(r) ==
    LET p == wit[Current(r)].policy
    IN  /\ rpc[r] \in {"classify", "reclassify"}
        /\ p \in {Active("old"), Joint(rloc[r].head), Active("new")}
        /\ Forward(r, IF rpc[r] = "classify" THEN "decide" ELSE "frozen",
                   [rloc[r] EXCEPT !.found = Append(@, p)])
        /\ UNCHANGED <<vars, rlate, rotated, runs>>

Found(r, p) == Cardinality({i \in DOMAIN rloc[r].found : rloc[r].found[i] = p})

\* A fresh rotation asks the old quorum for its head, an interrupted one goes on
\* where it stopped; OLD and NEW side by side is ambiguous.
Decide(r) ==
    LET old == Found(r, Active("old"))
    IN  /\ rpc[r] = "decide"
        /\ ~(old > 0 /\ Found(r, Active("new")) > 0)
        /\ Goto(r, IF old = Len(Shared) THEN "oldload" ELSE IF old > 0 THEN "freeze" ELSE "activate",
                [rloc[r] EXCEPT !.found = <<>>])
        /\ UNCHANGED <<vars, rlate, rotated, runs>>

\* oldStore.Load and newStore.Load: a quorum that holds this very head.
QuorumAnswers(r, w) ==
    LET p == IF rpc[r] = "oldload" THEN "old" ELSE "new"
        votes == rloc[r].votes \cup {w}
        with == [rloc[r] EXCEPT !.votes = IF Cardinality(votes) < Threshold[p] THEN votes ELSE {}]
    IN  /\ rpc[r] \in {"oldload", "newload"}
        /\ w \in Members[p] \ rloc[r].votes /\ Readable(w, p) /\ wit[w].head = rloc[r].head
        /\ IF Cardinality(votes) < Threshold[p] THEN Goto(r, rpc[r], with)
           ELSE IF p = "old" THEN Goto(r, "freeze", with)
           ELSE IF rloc[r].before # <<>> THEN Goto(r, "after", with)
           ELSE Goto(r, "idle", NoRotation)
        /\ rotated' = IF rpc'[r] = "idle" THEN rotated \cup {rloc[r].head} ELSE rotated
        /\ UNCHANGED <<vars, rlate, runs>>

\* A succession returns once the rotation has kept the head it started from and the
\* new quorum, read again, holds it.
SuccessionAnswers(r, w) ==
    LET votes == rloc[r].votes \cup {w}
    IN  /\ rpc[r] = "after" /\ rloc[r].before = rloc[r].head
        /\ w \in Members["new"] \ rloc[r].votes /\ Readable(w, "new") /\ wit[w].head = rloc[r].head
        /\ IF Cardinality(votes) < Threshold["new"]
           THEN Goto(r, "after", [rloc[r] EXCEPT !.votes = votes]) /\ UNCHANGED rotated
           ELSE Goto(r, "idle", NoRotation) /\ rotated' = rotated \cup {rloc[r].head}
        /\ UNCHANGED <<vars, rlate, runs>>

\* Mutant: each witness goes from OLD to NEW in phase 1.
FreezeActivates(r) ==
    LET w == Current(r)
    IN  /\ rpc[r] = "freeze"
        /\ wit[w].policy \in {Active("old"), Joint(rloc[r].head)} /\ wit[w].head = rloc[r].head
        /\ wit' = Saved(w, Active("new"), wit[w].head)
        /\ Forward(r, "reclassify", rloc[r])
        /\ UNCHANGED <<pc, loc, late, settled, calls, rlate, rotated, runs>>

\* Phase 1, one shared witness: OLD to JOINT, or found frozen at this head.
Freeze(r) ==
    LET w == Current(r)
        joint == Joint(rloc[r].head)
        t == Transition(r, w, Active("old"), joint)
    IN  /\ rpc[r] = "freeze"
        /\ \/ Transitions(t) /\ wit' = Saved(w, joint, wit[w].head)
           \/ wit[w].policy = joint /\ wit[w].head = rloc[r].head /\ UNCHANGED wit
        /\ Forward(r, "reclassify", rloc[r])
        /\ UNCHANGED <<pc, loc, late, settled, calls, rlate, rotated, runs>>

\* No shared witness may still be OLD.
Frozen(r) ==
    /\ rpc[r] = "frozen" /\ Found(r, Active("old")) = 0
    /\ Goto(r, "activate", [rloc[r] EXCEPT !.found = <<>>])
    /\ UNCHANGED <<vars, rlate, rotated, runs>>

\* Phase 2, one shared witness: JOINT to NEW, or found NEW at this head.
Activate(r) ==
    LET w == Current(r)
        t == Transition(r, w, Joint(rloc[r].head), Active("new"))
    IN  /\ rpc[r] = "activate"
        /\ \/ Transitions(t) /\ wit' = Saved(w, Active("new"), wit[w].head)
           \/ wit[w].policy = Active("new") /\ wit[w].head = rloc[r].head /\ UNCHANGED wit
        /\ Forward(r, "newload", rloc[r])
        /\ UNCHANGED <<pc, loc, late, settled, calls, rlate, rotated, runs>>

\* An error, an unreachable witness or a crash; the transition it was at may still
\* reach the witness.
Stop(r) ==
    /\ rpc[r] # "idle" /\ runs < MaxRuns
    /\ Goto(r, "idle", NoRotation)
    /\ \/ UNCHANGED rlate
       \/ /\ rpc[r] = "freeze" /\ Cardinality(rlate) < MaxLate
          /\ rlate' = rlate \cup {Transition(r, Current(r), Active("old"), Joint(rloc[r].head))}
       \/ /\ rpc[r] = "activate" /\ Cardinality(rlate) < MaxLate
          /\ rlate' = rlate \cup {Transition(r, Current(r), Joint(rloc[r].head), Active("new"))}
    /\ UNCHANGED <<vars, rotated, runs>>

TransitionArrives(t) ==
    /\ t \in rlate /\ rlate' = rlate \ {t}
    /\ wit' = IF Transitions(t) THEN Saved(t.wit, t.to, wit[t.wit].head) ELSE wit
    /\ UNCHANGED <<pc, loc, late, settled, calls, rpc, rloc, rotated, runs>>

\* ExecuteQuorumRotation, one execution.
Execute(r) ==
    \/ ObserveBefore(r) \/ ObserveShared(r) \/ Classify(r) \/ Decide(r) \/ Freeze(r) \/ Frozen(r) \/ Activate(r)
    \/ \E w \in Witnesses : QuorumAnswers(r, w) \/ SuccessionAnswers(r, w)

RNext ==
    \/ Next /\ UNCHANGED rvars
    \/ \E r \in Rotators : Start(r) \/ Execute(r) \/ Stop(r)
    \/ \E t \in rlate : TransitionArrives(t)

RSpec == RInit /\ [][RNext]_allvars

-----------------------------------------------------------------------------
(* Properties.                                                             *)

\* As many members as its quorum accept requests under the policy.
Lives(p) == Cardinality({w \in Members[p] : Readable(w, p)}) >= Threshold[p]

\* The locals of an execution have their shape.
RTypeOK ==
    \A r \in Rotators : /\ rloc[r].i \in 1 .. Len(Shared)
                        /\ Len(rloc[r].found) <= Len(Shared)
                        /\ rloc[r].votes \subseteq Witnesses

\* At no moment, whoever runs the rotation and wherever it stops, could the old
\* and the new quorum both decide (quorum_rotation.go:289-290).
OneQuorumLives == ~(Lives("old") /\ Lives("new"))

\* Every head of the new quorum continues every head the old one settled: nothing
\* committed before or during the rotation is lost (quorum_rotation.go:273-287).
NothingLost ==
    \A s, t \in settled : s.policy = "old" /\ t.policy = "new" => IsPrefix(s.head, t.head)

\* A rotation that returns success has retired the old quorum for good, at a head
\* that holds all it settled (quorum_rotation.go:403-432).
RotatedIsFinal ==
    \A h \in rotated :
        /\ ~Lives("old")
        /\ \A s \in settled : IsPrefix(s.head, h) \/ (s.policy = "new" /\ IsPrefix(h, s.head))

\* Whatever clients do side by side and whatever requests arrive late, the heads
\* that callers are given as a quorum's are one journal growing, and no quorum can
\* form that has not heard of a settled head; no witness ever gives a head up.  A
\* rotation loses none of it: every head of the new quorum continues all that the
\* old one settled, and a rotation that returned success has retired the old
\* quorum for good, at such a head.
SettledStays ==
    /\ [](TypeOK /\ RTypeOK /\ NoFork /\ SettledIsKept /\ NothingLost /\ RotatedIsFinal)
    /\ WitnessForward
=============================================================================
