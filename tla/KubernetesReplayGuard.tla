----------------------- MODULE KubernetesReplayGuard -----------------------
(***************************************************************************)
(* internal/server/kubernetes_replay.go: the execution-claim record of one *)
(* authorization kept in one ConfigMap, shared by the daemon replicas.     *)
(*                                                                         *)
(* Callers (HTTP requests of any replica) run Issue, Claim, Consume, Abort *)
(* and State concurrently; every API call is a step of its own, so the     *)
(* record may change between a Get and the Update built from it.  A call   *)
(* may fail, and a write whose caller gave up may still land later.        *)
(***************************************************************************)
EXTENDS Naturals

CONSTANTS Callers,   \* requests of all replicas that touch this record
          Details,   \* outcomes and abort reasons
          NoDetail,  \* the empty outcome or reason
          MaxCalls   \* bound: operations started in all

ASSUME NoDetailAssumption == NoDetail \notin Details
ASSUME MaxCallsAssumption == MaxCalls \in Nat

VARIABLES cm,        \* the ConfigMap; rv = 0 when it does not exist
          pc,        \* where each caller is in its operation
          goal,      \* what a finalizing caller writes: <<state, detail>>
          seen,      \* the ConfigMap each caller's next Update is built from
          calls,     \* operations started so far
          orphans,   \* writes in flight whose caller gave up on them
          granted,   \* how many calls of Claim returned nil
          acked,     \* the finalizations that returned nil
          observed   \* the state each caller's last State call returned

vars == <<cm, pc, goal, seen, calls, orphans, granted, acked, observed>>

Final == {"CONSUMED", "ABORTED"}
Detail == Details \cup {NoDetail}

\* "LEGACY" is a ConfigMap written by the replay-only implementation, which
\* has no state field.
StoredState == {"NONE", "LEGACY", "ISSUED", "CLAIMED"} \cup Final
ConfigMap == [rv: Nat, state: StoredState, detail: Detail]
Write == [rv: Nat, state: StoredState, detail: Detail]

Absent == [rv |-> 0, state |-> "NONE", detail |-> NoDetail]
Legacy == [rv |-> 1, state |-> "LEGACY", detail |-> NoDetail]

\* (mutant) A record without a state is read as one that was only issued.
StateOfLenient(m) == IF m.state = "LEGACY" THEN "ISSUED" ELSE m.state

\* A record without a state is conservatively read as already CLAIMED.
StateOf(m) == IF m.state = "LEGACY" THEN "CLAIMED" ELSE m.state

\* (mutant) The Update is built from a new ConfigMap, not from the one the Get
\* returned: it carries no resourceVersion and the last writer wins.
WriteOfUnversioned(c) ==
  CASE pc[c] = "issueCreate" -> [rv |-> 0, state |-> "ISSUED", detail |-> NoDetail]
    [] pc[c] = "claimCreate" -> [rv |-> 0, state |-> "CLAIMED", detail |-> NoDetail]
    [] pc[c] = "claimUpdate" -> [rv |-> cm.rv, state |-> "CLAIMED", detail |-> NoDetail]
    [] OTHER -> [rv |-> cm.rv, state |-> goal[c][1], detail |-> goal[c][2]]

\* The write each caller is about to send: a Create is a write against
\* version 0, an Update one against the version its Get returned.
WriteOf(c) ==
  CASE pc[c] = "issueCreate" -> [rv |-> 0, state |-> "ISSUED", detail |-> NoDetail]
    [] pc[c] = "claimCreate" -> [rv |-> 0, state |-> "CLAIMED", detail |-> NoDetail]
    [] pc[c] = "claimUpdate" -> [rv |-> seen[c].rv, state |-> "CLAIMED", detail |-> NoDetail]
    [] OTHER -> [rv |-> seen[c].rv, state |-> goal[c][1], detail |-> goal[c][2]]

\* The API server accepts a Create of an absent object and an Update whose
\* resourceVersion is the current one.
Accepts(w) == cm.rv = w.rv

Store(w) == cm' = [rv |-> cm.rv + 1, state |-> w.state, detail |-> w.detail]

Goto(c, l) == pc' = [pc EXCEPT ![c] = l]
Return(c) == Goto(c, "idle")

Reading == {"issueGet", "claimGet", "finalizeGet", "resolveGet", "stateGet"}
Writing == {"issueCreate", "claimCreate", "claimUpdate", "finalizeUpdate"}

-----------------------------------------------------------------------------
Init ==
  /\ cm \in {Absent, Legacy}
  /\ pc = [c \in Callers |-> "idle"]
  /\ goal = [c \in Callers |-> <<"CONSUMED", NoDetail>>]
  /\ seen = [c \in Callers |-> Absent]
  /\ calls = 0
  /\ orphans = {}
  /\ granted = 0
  /\ acked = {}
  /\ observed = [c \in Callers |-> "NONE"]

Begin(c, l) ==
  /\ pc[c] = "idle"
  /\ calls < MaxCalls
  /\ calls' = calls + 1
  /\ Goto(c, l)
  /\ UNCHANGED <<cm, seen, orphans, granted, acked, observed>>

Issue(c) == Begin(c, "issueCreate") /\ UNCHANGED goal
Claim(c) == Begin(c, "claimGet") /\ UNCHANGED goal
State(c) == Begin(c, "stateGet") /\ UNCHANGED goal

Consume(c, d) ==
  /\ Begin(c, "finalizeGet")
  /\ goal' = [goal EXCEPT ![c] = <<"CONSUMED", d>>]

\* An empty reason is refused before any API call, so only Details start.
Abort(c, d) ==
  /\ Begin(c, "finalizeGet")
  /\ goal' = [goal EXCEPT ![c] = <<"ABORTED", d>>]

-----------------------------------------------------------------------------
\* Issue: Create; when the object exists, Get it and accept it if still ISSUED.
IssueCreate(c) ==
  /\ pc[c] = "issueCreate"
  /\ \/ Accepts(WriteOf(c)) /\ Store(WriteOf(c)) /\ Return(c)
     \/ ~Accepts(WriteOf(c)) /\ Goto(c, "issueGet") /\ UNCHANGED cm
  /\ UNCHANGED <<goal, seen, calls, orphans, granted, acked, observed>>

\* Whatever it reads, Issue changes nothing any more: nil or ErrExecutionReplay.
IssueGet(c) ==
  /\ pc[c] = "issueGet"
  /\ Return(c)
  /\ UNCHANGED <<cm, goal, seen, calls, orphans, granted, acked, observed>>

\* Claim: Get, then Create (nothing issued), Update (ISSUED) or refuse.
ClaimGet(c) ==
  /\ pc[c] = "claimGet"
  /\ seen' = [seen EXCEPT ![c] = cm]
  /\ \/ cm.rv = 0 /\ Goto(c, "claimCreate")
     \/ cm.rv # 0 /\ StateOf(cm) = "ISSUED" /\ Goto(c, "claimUpdate")
     \/ cm.rv # 0 /\ StateOf(cm) # "ISSUED" /\ Return(c)
  /\ UNCHANGED <<cm, goal, calls, orphans, granted, acked, observed>>

\* AlreadyExists and Conflict are both ErrExecutionReplay.
ClaimWrite(c) ==
  /\ pc[c] \in {"claimCreate", "claimUpdate"}
  /\ \/ /\ Accepts(WriteOf(c))
        /\ Store(WriteOf(c))
        /\ granted' = granted + 1
     \/ ~Accepts(WriteOf(c)) /\ UNCHANGED <<cm, granted>>
  /\ Return(c)
  /\ UNCHANGED <<goal, seen, calls, orphans, acked, observed>>

-----------------------------------------------------------------------------
\* The record already says what this caller wants to write.
AlreadyFinal(c) == <<StateOf(cm), cm.detail>> = goal[c]

Acknowledge(c) == acked' = acked \cup {goal[c]}

\* Consume and Abort: Get, then Update if CLAIMED; a record that already says
\* the same is success, any other is ErrExecutionClaimTransition.
FinalizeGet(c) ==
  /\ pc[c] = "finalizeGet"
  /\ seen' = [seen EXCEPT ![c] = cm]
  /\ \/ StateOf(cm) = "CLAIMED" /\ Goto(c, "finalizeUpdate") /\ UNCHANGED acked
     \/ StateOf(cm) # "CLAIMED" /\ AlreadyFinal(c) /\ Acknowledge(c) /\ Return(c)
     \/ StateOf(cm) # "CLAIMED" /\ ~AlreadyFinal(c) /\ Return(c) /\ UNCHANGED acked
  /\ UNCHANGED <<cm, goal, calls, orphans, granted, observed>>

FinalizeUpdate(c) ==
  /\ pc[c] = "finalizeUpdate"
  /\ \/ Accepts(WriteOf(c)) /\ Store(WriteOf(c)) /\ Acknowledge(c) /\ Return(c)
     \/ ~Accepts(WriteOf(c)) /\ Goto(c, "resolveGet") /\ UNCHANGED <<cm, acked>>
  /\ UNCHANGED <<goal, seen, calls, orphans, granted, observed>>

\* (mutant) After a Conflict: somebody finalized it, report success.
ResolveGetOptimistic(c) ==
  /\ pc[c] = "resolveGet"
  /\ Acknowledge(c)
  /\ Return(c)
  /\ UNCHANGED <<cm, goal, seen, calls, orphans, granted, observed>>

\* After a Conflict: nil only if the winner wrote exactly the same.
ResolveGet(c) ==
  /\ pc[c] = "resolveGet"
  /\ \/ AlreadyFinal(c) /\ Acknowledge(c)
     \/ ~AlreadyFinal(c) /\ UNCHANGED acked
  /\ Return(c)
  /\ UNCHANGED <<cm, goal, seen, calls, orphans, granted, observed>>

StateGet(c) ==
  /\ pc[c] = "stateGet"
  /\ observed' = [observed EXCEPT ![c] = StateOf(cm)]
  /\ Return(c)
  /\ UNCHANGED <<cm, goal, seen, calls, orphans, granted, acked>>

-----------------------------------------------------------------------------
\* The API server is unreachable or the context ends: the operation returns an
\* error.  A read leaves no trace; a write may still be on its way.
ReadFails(c) ==
  /\ pc[c] \in Reading
  /\ Return(c)
  /\ UNCHANGED <<cm, goal, seen, calls, orphans, granted, acked, observed>>

WriteFails(c) ==
  /\ pc[c] \in Writing
  /\ orphans' = orphans \cup {WriteOf(c)}
  /\ Return(c)
  /\ UNCHANGED <<cm, goal, seen, calls, granted, acked, observed>>

\* An abandoned write reaches the API server, or is lost.
OrphanArrives(w) ==
  /\ orphans' = orphans \ {w}
  /\ \/ Accepts(w) /\ Store(w)
     \/ UNCHANGED cm
  /\ UNCHANGED <<pc, goal, seen, calls, granted, acked, observed>>

Step(c) ==
  \/ Issue(c) \/ Claim(c) \/ State(c)
  \/ \E d \in Detail : Consume(c, d)
  \/ \E d \in Details : Abort(c, d)
  \/ IssueCreate(c) \/ IssueGet(c)
  \/ ClaimGet(c) \/ ClaimWrite(c)
  \/ FinalizeGet(c) \/ FinalizeUpdate(c) \/ ResolveGet(c)
  \/ StateGet(c)
  \/ ReadFails(c) \/ WriteFails(c)

Next ==
  \/ \E c \in Callers : Step(c)
  \/ \E w \in orphans : OrphanArrives(w)

Spec == Init /\ [][Next]_vars

-----------------------------------------------------------------------------
\* The shape of the state.
TypeOK ==
  /\ cm \in ConfigMap
  /\ pc \in [Callers -> {"idle"} \cup Reading \cup Writing]
  /\ goal \in [Callers -> Final \X Detail]
  /\ seen \in [Callers -> ConfigMap]
  /\ calls \in 0..MaxCalls
  /\ orphans \subseteq Write
  /\ granted \in Nat
  /\ acked \subseteq Final \X Detail
  /\ observed \in [Callers -> StoredState \ {"LEGACY"}]

\* However many replicas race, and whatever writes get lost or delayed, Claim
\* returns nil at most once for an authorization.
ClaimAtMostOnce == granted <= 1

\* Consume and Abort never both return nil, nor two Consumes with different
\* outcomes: every acknowledged finalization is the one on record, for ever.
FinalizationAgreement == \A f \in acked : f = <<cm.state, cm.detail>>

Rank == [s \in StoredState |->
  IF s = "NONE" THEN 0 ELSE IF s = "ISSUED" THEN 1 ELSE IF s = "CLAIMED" THEN 2 ELSE 3]

\* The record only moves forward, and a CONSUMED or ABORTED one is never
\* written again, not even by a delayed write.
ForwardOnly ==
  [][/\ Rank[StateOf(cm)] <= Rank[StateOf(cm')]
     /\ cm.state \in Final => cm' = cm]_vars

\* Successive State calls of one caller never see the capability go back.
MonotoneReads ==
  [][\A c \in Callers : Rank[observed[c]] <= Rank[observed'[c]]]_vars

\* The transitions the lifecycle allows, from the stored m to the written w.
LegalChange(m, w) ==
  \/ StateOf(m) = "NONE" /\ w.state \in {"ISSUED", "CLAIMED"} /\ w.detail = m.detail
  \/ StateOf(m) = "ISSUED" /\ w.state = "CLAIMED" /\ w.detail = m.detail
  \/ StateOf(m) = "CLAIMED" /\ w.state \in Final

LegalIfAccepted(w) == w.rv <= cm.rv /\ (Accepts(w) => LegalChange(cm, w))

\* Every write on its way, a caller's next one or an abandoned one, is a legal
\* transition of the record it would meet if the API server accepted it now:
\* the version a Get returned stands for everything that was checked about it.
WritesStayLegal ==
  /\ \A c \in Callers : pc[c] \in Writing => LegalIfAccepted(WriteOf(c))
  /\ \A w \in orphans : LegalIfAccepted(w)

\* The inductive invariant: with WritesStayLegal, what the record says about
\* the claims granted, the finalizations acknowledged and the states observed.
IndInv ==
  /\ TypeOK
  /\ WritesStayLegal
  /\ cm.rv = 0 <=> cm.state = "NONE"
  /\ cm.state \notin Final => cm.detail = NoDetail
  /\ ClaimAtMostOnce
  /\ granted = 1 => StateOf(cm) \in {"CLAIMED"} \cup Final
  /\ FinalizationAgreement
  /\ \A c \in Callers : Rank[observed[c]] <= Rank[StateOf(cm)]

\* The ConfigMap guard implements the abstract claim lifecycle.
Lifecycle == INSTANCE ExecutionClaim WITH
  state <- StateOf(cm), detail <- cm.detail, granted <- granted > 0

ImplementsLifecycle == Lifecycle!ClaimSpec
=============================================================================
