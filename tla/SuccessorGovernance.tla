------------------------- MODULE SuccessorGovernance -------------------------
(***************************************************************************)
(* The rotation of the authority that governs successors, across Genesis   *)
(* epochs: internal/journal/successor_governance_rotation.go.  The head of *)
(* the authority's journal goes from the old authority to the frozen       *)
(* transition on the old quorum, the quorum is rotated with that head, and *)
(* the new authority is activated on the new quorum.                       *)
(*                                                                         *)
(* A call of the quorum store (WitnessQuorum) is one step that reaches any *)
(* part of the witnesses it may; a rotation of the quorum (QuorumRotation) *)
(* is observed in one step and moves witness by witness.  Executors work   *)
(* side by side on transitions that may differ, stop anywhere and run      *)
(* again.                                                                  *)
(***************************************************************************)
EXTENDS Naturals, FiniteSets

CONSTANTS
    Members, Threshold,   \* of the policies "old" and "new"
    Rotations,            \* transitions both authorities have signed
    Executors,
    MaxRuns,              \* bound: executions; the last one meets no failure
    MayExpire,            \* whether a transition's validity window ends
    Provisioned,          \* whether the old authority is initialized at the start
    None

Epochs == {"old", "new"}
AllWitnesses == Members["old"] \cup Members["new"]
Kept == Members["old"] \cap Members["new"]

VARIABLES
    wit,         \* policy and authority head of every witness
    pc, loc,     \* executors: where, and the transition they execute
    expired,     \* transitions whose window has ended
    frozen,      \* transitions an executor was told are frozen
    completed,   \* transitions an executor returned success for
    runs

vars == <<wit, pc, loc, expired, frozen, completed, runs>>

\* activeSuccessorGovernanceHead, jointSuccessorGovernanceHead,
\* activatedSuccessorGovernanceHead: the last two name their transition.
NoHead == [kind |-> "none", epoch |-> "none", by |-> None]
Genesis(p) == [kind |-> "active", epoch |-> p, by |-> None]
Joint(t) == [kind |-> "joint", epoch |-> "none", by |-> t]
Activated(t) == [kind |-> "active", epoch |-> "new", by |-> t]

NoLocals == [rot |-> None, head |-> NoHead, left |-> {}]

Policy(p) == [phase |-> p, head |-> NoHead]
Freezing(h) == [phase |-> "joint", head |-> h]

Init ==
    /\ wit = [w \in AllWitnesses |->
                 IF w \in Members["old"]
                 THEN [policy |-> Policy("old"), head |-> IF Provisioned THEN Genesis("old") ELSE NoHead]
                 ELSE [policy |-> Policy("new"), head |-> NoHead]]
    /\ pc = [e \in Executors |-> "idle"] /\ loc = [e \in Executors |-> NoLocals]
    /\ expired = {} /\ frozen = {} /\ completed = {} /\ runs = 0

-----------------------------------------------------------------------------
(* The quorum store.  Reached: the readable members that answer.           *)

\* Mutant: witnesses answer under any policy.
ReadableAny(p) == Members[p]

Readable(p) == {w \in Members[p] : wit[w].policy = Policy(p)}
Reached(p) == IF runs = MaxRuns THEN {Readable(p)} ELSE SUBSET Readable(p)
At(S, h) == {w \in S : wit[w].head = h}
Moved(S, h) == [w \in AllWitnesses |-> IF w \in S THEN [wit[w] EXCEPT !.head = h] ELSE wit[w]]

\* A write of S where all of whole could be written.
Written(S, whole) ==
    IF runs = MaxRuns THEN S = whole ELSE S \subseteq whole

\* Load.
Loads(p, h) == \E R \in Reached(p) : Cardinality(At(R, h)) >= Threshold[p]

\* CompareAndAdvance: any of the candidates, and success is a quorum of them.
Advance(p, from, to, S) ==
    /\ Written(S, At(Readable(p), from))
    /\ Cardinality(At(Readable(p), from)) >= Threshold[p]
    /\ wit' = Moved(S, to)

\* A member without a head counts only where absence is allowed.
Observed(allowed, R) == IF NoHead \in allowed THEN R ELSE R \ At(R, NoHead)

\* ConvergeAuthorizedTransition: every member observed is in the transition, and any
\* of those that lag are moved.
Converge(p, allowed, to, R, S) ==
    LET seen == Observed(allowed, R)
    IN  /\ R \in Reached(p) /\ Cardinality(seen) >= Threshold[p]
        /\ \A w \in seen : wit[w].head \in allowed
        /\ Written(S, seen \ At(seen, to))
        /\ wit' = Moved(S, to)

Converged(p, to, R, S) == Cardinality(S \cup At(R, to)) >= Threshold[p]

Goto(e, l) == pc' = [pc EXCEPT ![e] = l]
Local(e, v) == loc' = [loc EXCEPT ![e] = v]

\* InitializeSuccessorGovernanceAuthority: absence or the exact Genesis head on
\* every member that is reached; success only if all absent ones take it.
Initialize(p) ==
    /\ \E R \in Reached(p), S \in SUBSET AllWitnesses : Converge(p, {NoHead, Genesis(p)}, Genesis(p), R, S)
    /\ wit' # wit
    /\ UNCHANGED <<pc, loc, expired, frozen, completed, runs>>

-----------------------------------------------------------------------------
(* ExecuteSuccessorGovernanceCrossGenesisRotation.                         *)

Rot(e) == loc[e].rot

Return(e, done) ==
    /\ Goto(e, "idle") /\ Local(e, NoLocals)
    /\ completed' = IF done THEN completed \cup {Rot(e)} ELSE completed

\* ValidateSuccessorGovernanceRotationAuthorization: inside the signed window.
Valid(t) == t \notin expired

\* VerifySignedSuccessorGovernanceRotation at the time the execution starts.
Begin(e, t) ==
    /\ pc[e] = "idle" /\ runs < MaxRuns /\ Valid(t)
    /\ runs' = runs + 1
    /\ Goto(e, "recover") /\ Local(e, [NoLocals EXCEPT !.rot = t])
    /\ UNCHANGED <<wit, expired, frozen, completed>>

\* What the new quorum shows: this transition completed, or frozen, or nothing; any
\* other head is refused.  A frozen head that all shared witnesses retain goes on
\* with the rotation of the quorum.
Recover(e) ==
    /\ pc[e] = "recover"
    /\ \/ Loads("new", Activated(Rot(e))) /\ Return(e, TRUE)
       \/ Loads("new", Joint(Rot(e))) /\ Goto(e, "activate") /\ UNCHANGED <<loc, completed>>
       \/ /\ runs = MaxRuns => ~\E h \in {wit[w].head : w \in AllWitnesses} \ {NoHead} : Loads("new", h)
          /\ \/ (\A w \in Kept : wit[w].head = Joint(Rot(e))) /\ Goto(e, "observe")
             \/ ((runs = MaxRuns) => (\E w \in Kept : wit[w].head # Joint(Rot(e)))) /\ Goto(e, "freeze")
          /\ UNCHANGED <<loc, completed>>
    /\ UNCHANGED <<wit, expired, frozen, runs>>

\* FreezeSuccessorGovernanceAuthority.
Freeze(e) ==
    /\ pc[e] = "freeze"
    /\ \/ Loads("old", Joint(Rot(e))) /\ Goto(e, "freezeall") /\ UNCHANGED wit
       \/ /\ Loads("old", Genesis("old"))
          /\ \E S \in SUBSET AllWitnesses :
                 /\ Advance("old", Genesis("old"), Joint(Rot(e)), S)
                 /\ Goto(e, IF Cardinality(S) >= Threshold["old"] THEN "freezeall" ELSE "failed")
    /\ UNCHANGED <<loc, expired, frozen, completed, runs>>

FreezeAll(e) ==
    LET j == Joint(Rot(e))
    IN  /\ pc[e] = "freezeall"
        /\ \E R \in Reached("old"), S \in SUBSET AllWitnesses :
               /\ Converge("old", {Genesis("old"), j}, j, R, S)
               /\ IF Converged("old", j, R, S)
                  THEN Goto(e, "observe") /\ frozen' = frozen \cup {Rot(e)}
                  ELSE Goto(e, "failed") /\ UNCHANGED frozen
        /\ UNCHANGED <<loc, expired, completed, runs>>

\* ExecuteQuorumRotation: the shared witnesses agree on a head and are OLD, frozen
\* at it, or NEW; all OLD, it is the old quorum's.
Observe(e) ==
    /\ pc[e] = "observe"
    /\ \E h \in {wit[w].head : w \in Kept} \ {NoHead} :
           LET policies == {wit[w].policy : w \in Kept}
           IN  /\ \A w \in Kept : wit[w].head = h
               /\ policies \subseteq {Policy("old"), Freezing(h), Policy("new")}
               /\ ~({Policy("old"), Policy("new")} \subseteq policies)
               /\ policies = {Policy("old")} => Loads("old", h)
               /\ Goto(e, IF Policy("old") \in policies THEN "fence" ELSE "switch")
               /\ Local(e, [loc[e] EXCEPT !.head = h, !.left = Kept])
    /\ UNCHANGED <<wit, expired, frozen, completed, runs>>

\* One shared witness, OLD to JOINT; after the last of them, JOINT to NEW.
Move(e, from, to, l) ==
    \E w \in loc[e].left :
        /\ wit[w].head = loc[e].head /\ wit[w].policy \in {from, to}
        /\ wit' = [wit EXCEPT ![w].policy = to]
        /\ IF loc[e].left = {w}
           THEN Goto(e, l) /\ Local(e, [loc[e] EXCEPT !.left = Kept])
           ELSE UNCHANGED pc /\ Local(e, [loc[e] EXCEPT !.left = @ \ {w}])
        /\ UNCHANGED <<expired, frozen, completed, runs>>

Fence(e) == pc[e] = "fence" /\ Move(e, Policy("old"), Freezing(loc[e].head), "switch")

Switch(e) ==
    /\ pc[e] = "switch" /\ \A w \in Kept : wit[w].policy # Policy("old")
    /\ Move(e, Freezing(loc[e].head), Policy("new"), "handed")

\* The head the rotation preserved is the frozen one.
Handed(e) ==
    /\ pc[e] = "handed" /\ Loads("new", loc[e].head)
    /\ Goto(e, IF loc[e].head = Joint(Rot(e)) THEN "activate" ELSE "failed")
    /\ UNCHANGED <<wit, loc, expired, frozen, completed, runs>>

\* ActivateSuccessorGovernanceAuthority.
Activate(e) ==
    /\ pc[e] = "activate"
    /\ \/ Loads("new", Activated(Rot(e))) /\ Goto(e, "activateall") /\ UNCHANGED wit
       \/ /\ Loads("new", Joint(Rot(e)))
          /\ \E S \in SUBSET AllWitnesses :
                 /\ Advance("new", Joint(Rot(e)), Activated(Rot(e)), S)
                 /\ Goto(e, IF Cardinality(S) >= Threshold["new"] THEN "activateall" ELSE "failed")
    /\ UNCHANGED <<loc, expired, frozen, completed, runs>>

ActivateAll(e) ==
    LET n == Activated(Rot(e))
    IN  /\ pc[e] = "activateall"
        /\ \E R \in Reached("new"), S \in SUBSET AllWitnesses :
               /\ Converge("new", {Genesis("old"), Joint(Rot(e)), n}, n, R, S)
               /\ Return(e, Converged("new", n, R, S))
        /\ UNCHANGED <<expired, frozen, runs>>

\* An error is returned, or the process dies.
Stop(e) ==
    /\ pc[e] # "idle" /\ runs < MaxRuns /\ Return(e, FALSE)
    /\ UNCHANGED <<wit, expired, frozen, runs>>

Expire(t) ==
    /\ MayExpire /\ t \notin expired /\ expired' = expired \cup {t}
    /\ UNCHANGED <<wit, pc, loc, frozen, completed, runs>>

Step(e) ==
    \/ Recover(e) \/ Freeze(e) \/ FreezeAll(e) \/ Observe(e) \/ Fence(e) \/ Switch(e)
    \/ Handed(e) \/ Activate(e) \/ ActivateAll(e)

Next ==
    \/ \E p \in Epochs : Initialize(p)
    \/ \E e \in Executors : Step(e) \/ Stop(e) \/ \E t \in Rotations : Begin(e, t)
    \/ \E t \in Rotations : Expire(t)

Spec == Init /\ [][Next]_vars

\* An execution goes on until it returns, and is run again.
FairSpec ==
    /\ Spec
    /\ \A e \in Executors :
           WF_vars(Step(e)) /\ WF_vars(Stop(e)) /\ \A t \in Rotations : WF_vars(Begin(e, t))

-----------------------------------------------------------------------------
(* Properties.                                                             *)

\* RequireActiveSuccessorGovernanceAuthority: a quorum that names the authority.
CurrentAuthority(p) ==
    \E h \in {x \in {wit[w].head : w \in AllWitnesses} : x.kind = "active" /\ x.epoch = p} :
        Cardinality(At(Readable(p), h)) >= Threshold[p]

\* Witnesses and executors have their shape.
TypeOK ==
    /\ \A w \in AllWitnesses : wit[w].policy.phase \in {"old", "joint", "new"}
    /\ \A e \in Executors : loc[e].left \subseteq Kept
    /\ completed \subseteq Rotations /\ frozen \subseteq Rotations

\* The two authorities are never current at the same moment, whichever transitions
\* are executed side by side and wherever they stop
\* (docs/verified-compute-settlement-vcs14.md:13).
NeverBothCurrent == ~(CurrentAuthority("old") /\ CurrentAuthority("new"))

\* Once a caller is told that a transition is frozen, the old authority is never
\* current again and no other transition is frozen or completed
\* (docs/verified-compute-settlement-vcs14.md:65).
FrozenIsExclusive ==
    /\ Cardinality(frozen \cup completed) <= 1
    /\ frozen \cup completed # {} => ~CurrentAuthority("old")

\* The new authority is current only by a transition, never by being initialized,
\* and it stays so (successor_governance_rotation.go:283-300).
ActivatedForGood ==
    [][CurrentAuthority("new") => CurrentAuthority("new")']_vars

\* What docs/verified-compute-settlement-vcs14.md:56 says: a transition that is
\* interrupted anywhere and executed again while it is valid comes to its end.
TransitionCompletes == <>(completed # {})

\* A write reached some witnesses of a quorum only, and neither the head before it
\* nor the one after it has a threshold.
Split(p, from, to) ==
    /\ \A w \in Kept : wit[w].policy = Policy(p)
    /\ At(Readable(p), to) # {}
    /\ \A h \in {from, to} : Cardinality(At(Readable(p), h)) < Threshold[p]

\* The freeze or the activation of a transition did so.
Stranded(t) == Split("old", Genesis("old"), Joint(t)) \/ Split("new", Joint(t), Activated(t))

\* A single transition, interrupted anywhere and executed again while it is valid,
\* comes to its end, unless it is stranded; and one that is stranded stays so
\* (successor_governance_rotation.go:405, 486, 536).
CompletesOrStranded == <>(\A t \in Rotations : t \in completed \/ Stranded(t))
StrandedForGood == [][\A t \in Rotations : Stranded(t) => Stranded(t)']_vars
=============================================================================
