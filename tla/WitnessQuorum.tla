--------------------------- MODULE WitnessQuorum ---------------------------
(***************************************************************************)
(* The quorum of external head witnesses of internal/journal: the governed *)
(* witness handler over its state store (remote_witness_policy_protocol.go, *)
(* governed_witness_state_store.go) and the client that keeps a journal    *)
(* head on a strict majority of witnesses (quorum_head_store.go).          *)
(*                                                                         *)
(* A head is the sequence of what the journal holds, since its hash chain  *)
(* commits to all of it: <<v>> is sequence zero, <<>> no head at all.  A   *)
(* witness takes a request in one step: its state is replaced under the    *)
(* version it was read at, or the request conflicts.  Requests fail, their *)
(* answers are lost, and a request may be carried out after its caller has *)
(* gone.  A policy is "old" or "new", or the frozen state between the two. *)
(***************************************************************************)
EXTENDS Integers, Sequences, FiniteSets

CONSTANTS
    Witnesses,
    Members,      \* the witnesses of a policy, from its Genesis binding
    Threshold,    \* and its quorum
    Clients,      \* processes that use a QuorumHeadStore
    Bound,        \* the policy a client's store is bound to
    Enrolled,     \* a head the witnesses of the old policy start with, or <<>>
    Entry,        \* contents of the journal entries a client writes
    Ops,          \* the calls made
    MaxLength,    \* bound: length of the journal
    MaxLate,      \* bound: requests under way whose caller has gone
    MaxCalls      \* bound: calls

Elements(s) == {s[i] : i \in DOMAIN s}

\* Head h continues head g, or is it.
IsPrefix(g, h) == Len(g) <= Len(h) /\ \A i \in 1 .. Len(g) : g[i] = h[i]

Policies == {"old", "new"}
Active(p) == [phase |-> "ACTIVE", policy |-> p, head |-> <<>>]

\* validateGenesisQuorumBinding, normalizeQuorumTrustPolicy: a strict majority.
ASSUME QuorumAssumption ==
    /\ IsFiniteSet(Witnesses)
    /\ Members \in [Policies -> SUBSET Witnesses] /\ Bound \in [Clients -> Policies]
    /\ Threshold \in [Policies -> Nat]
    /\ \A p \in Policies :
           /\ 2 * Threshold[p] > Cardinality(Members[p])
           /\ Threshold[p] <= Cardinality(Members[p])

\* A head is a sequence of entries, and there are the three calls below.
ASSUME JournalAssumption ==
    /\ Enrolled \in Seq(Elements(Enrolled)) /\ Len(Enrolled) <= MaxLength
    /\ Ops \subseteq {"load", "advance", "converge"}
    /\ MaxLength \in Nat /\ MaxLate \in Nat /\ MaxCalls \in Nat

VARIABLES
    wit,       \* the state of every witness: policy, head, store version
    pc, loc,   \* where a client is, and its locals
    late,      \* requests under way whose caller has gone
    settled,   \* heads a caller was given as the quorum's, and under which policy
    calls

vars == <<wit, pc, loc, late, settled, calls>>

NoLocals == [prev |-> <<>>, next |-> <<>>, asked |-> {}, seen |-> {}, done |-> {}, ok |-> {}]

\* InitializeGovernedWitnessState: the policy of its Genesis, no heads.
Init ==
    /\ wit = [w \in Witnesses |->
                 IF w \in Members["old"]
                 THEN [policy |-> Active("old"), head |-> Enrolled, ver |-> 0]
                 ELSE [policy |-> Active("new"), head |-> <<>>, ver |-> 0]]
    /\ pc = [c \in Clients |-> "idle"]
    /\ loc = [c \in Clients |-> NoLocals]
    /\ late = {} /\ settled = {} /\ calls = 0

-----------------------------------------------------------------------------
(* The witness.                                                            *)

\* CompareAndSwap of the state store: the next state has the next version.
Saved(w, policy, head) == [wit EXCEPT ![w] = [policy |-> policy, head |-> head, ver |-> wit[w].ver + 1]]

\* handleHeadLoad: only under the witness's own ACTIVE policy.
Readable(w, p) == wit[w].policy = Active(p)

\* Mutant: the head is replaced whatever head is there.
AcceptsAny(w, r) == Readable(w, r.policy)

\* handleHeadAdvance: the policy, the expected head at the expected version, and
\* a sequence that does not fall; an absent head only becomes sequence zero.
Accepts(w, r) ==
    /\ Readable(w, r.policy)
    /\ r.head = wit[w].head
    /\ IF wit[w].head = <<>> THEN Len(r.next) = 1
       ELSE /\ r.ver = wit[w].ver
            /\ Len(r.next) > Len(r.head) \/ r.next = r.head

\* A request of a client that has gone.
LateArrives(r) ==
    /\ r \in late /\ late' = late \ {r}
    /\ wit' = IF Accepts(r.wit, r) THEN Saved(r.wit, wit[r.wit].policy, r.next) ELSE wit
    /\ UNCHANGED <<pc, loc, settled, calls>>

-----------------------------------------------------------------------------
(* The client.  seen holds what the members answered to the load.          *)

Quorum(c) == Threshold[Bound[c]]
MembersOf(c) == Members[Bound[c]]

Holding(c, h) == {o \in loc[c].seen : o.head = h}

\* The members whose observation matches what the caller expects, whose head may
\* be compared and advanced.
Candidates(c) == Holding(c, loc[c].prev)

Request(c, o) == [wit |-> o.wit, policy |-> Bound[c], head |-> o.head, ver |-> o.ver, next |-> loc[c].next]

\* What a converging client moves: every member that is not at the target.
Behind(c) == {o \in loc[c].seen : o.head # loc[c].next}

ToAdvance(c) == IF pc[c] = "advance" THEN Candidates(c) ELSE Behind(c)

\* ConvergeAuthorizedTransition stops at a member outside the transition.
Outside(c) == \E o \in loc[c].seen : o.head \notin {loc[c].prev, loc[c].next}

\* No member is advanced before a quorum of them matches (quorumEstablished), or,
\* converging, before every member answered and enough of them are in the transition.
Launched(c) ==
    IF pc[c] = "advance" THEN Cardinality(Candidates(c)) >= Quorum(c)
    ELSE loc[c].asked = MembersOf(c) /\ ~Outside(c) /\ Cardinality(loc[c].seen) >= Quorum(c)

Succeeded(c) ==
    LET l == loc[c]
    IN  Cardinality(l.ok \cup (IF pc[c] = "converge" THEN {o.wit : o \in Holding(c, l.next)} ELSE {})) >= Quorum(c)

Settle(c, h) == settled' = settled \cup {[head |-> h, policy |-> Bound[c]]}

\* The call returns; what it has launched and not heard of may still arrive.
Leave(c) ==
    /\ pc' = [pc EXCEPT ![c] = "idle"] /\ loc' = [loc EXCEPT ![c] = NoLocals]
    /\ \E rest \in SUBSET {Request(c, o) : o \in {x \in ToAdvance(c) : Launched(c) /\ x.wit \notin loc[c].done}} :
           Cardinality(late \cup rest) <= MaxLate /\ late' = late \cup rest

\* A caller holds a head it was given, or knows that there is none; the next one
\* extends it by an entry.
Begin(c, op) ==
    /\ pc[c] = "idle" /\ calls < MaxCalls
    /\ calls' = calls + 1
    /\ pc' = [pc EXCEPT ![c] = op]
    /\ IF op = "load" THEN UNCHANGED loc
       ELSE \E h \in {<<>>, Enrolled} \cup {s.head : s \in settled}, v \in Entry[c] :
                /\ Len(h) < MaxLength
                /\ loc' = [loc EXCEPT ![c].prev = h, ![c].next = Append(h, v)]
    /\ UNCHANGED <<wit, late, settled>>

\* loadAll: a member answers, or fails; a member under another policy refuses.
\* Only converging waits for every answer: elsewhere a failure is an answer that
\* has not come when the call returns.  A member without a head counts for a
\* convergence only when that converges on sequence zero.
Ask(c, w) ==
    /\ pc[c] # "idle" /\ w \in MembersOf(c) \ loc[c].asked
    /\ \/ /\ Readable(w, Bound[c])
          /\ (pc[c] = "converge" /\ wit[w].head = <<>>) => loc[c].prev = <<>>
          /\ loc' = [loc EXCEPT ![c].asked = @ \cup {w},
                                ![c].seen = @ \cup {[wit |-> w, head |-> wit[w].head, ver |-> wit[w].ver]}]
       \/ /\ pc[c] = "converge"
          /\ loc' = [loc EXCEPT ![c].asked = @ \cup {w}]
    /\ UNCHANGED <<wit, pc, late, settled, calls>>

\* Load: a head that a quorum answered with; a quorum without a head is an answer
\* too, and settles nothing.
LoadReturns(c) ==
    /\ pc[c] = "load"
    /\ \E o \in loc[c].seen :
           /\ Cardinality(Holding(c, o.head)) >= Quorum(c)
           /\ IF o.head = <<>> THEN UNCHANGED settled ELSE Settle(c, o.head)
    /\ pc' = [pc EXCEPT ![c] = "idle"] /\ loc' = [loc EXCEPT ![c] = NoLocals]
    /\ UNCHANGED <<wit, late, calls>>

\* compareAndAdvanceMember: carried out or not, and its answer heard or not.
Advance(c, o) ==
    LET r == Request(c, o)
    IN  /\ pc[c] \in {"advance", "converge"} /\ Launched(c)
        /\ o \in ToAdvance(c) /\ o.wit \notin loc[c].done
        /\ IF Accepts(o.wit, r)
           THEN /\ wit' = Saved(o.wit, wit[o.wit].policy, r.next)
                /\ \E heard \in BOOLEAN :
                       loc' = [loc EXCEPT ![c].done = @ \cup {o.wit},
                                          ![c].ok = IF heard THEN @ \cup {o.wit} ELSE @]
           ELSE loc' = [loc EXCEPT ![c].done = @ \cup {o.wit}] /\ UNCHANGED wit
        /\ UNCHANGED <<pc, late, settled, calls>>

\* CompareAndAdvance returns at the quorum; converging waits for every member, and
\* for the success of every one when it enrolls sequence zero.
AdvanceReturns(c) ==
    /\ pc[c] \in {"advance", "converge"} /\ Launched(c) /\ Succeeded(c)
    /\ pc[c] = "converge" =>
           {o.wit : o \in Behind(c)} \subseteq (IF loc[c].prev = <<>> THEN loc[c].ok ELSE loc[c].done)
    /\ Settle(c, loc[c].next) /\ Leave(c)
    /\ UNCHANGED <<wit, calls>>

\* The context ends, no quorum can be reached, or the process dies.
Abandon(c) ==
    /\ pc[c] # "idle" /\ Leave(c)
    /\ UNCHANGED <<wit, settled, calls>>

ClientStep(c) ==
    \/ \E op \in Ops : Begin(c, op)
    \/ \E w \in Witnesses : Ask(c, w)
    \/ \E o \in loc[c].seen : Advance(c, o)
    \/ LoadReturns(c) \/ AdvanceReturns(c) \/ Abandon(c)

Next == (\E c \in Clients : ClientStep(c)) \/ \E r \in late : LateArrives(r)

Spec == Init /\ [][Next]_vars

-----------------------------------------------------------------------------
(* Properties.                                                             *)

Heads == {s.head : s \in settled}

\* Witnesses, requests and settled heads have their shape.
TypeOK ==
    /\ \A w \in Witnesses : wit[w].ver \in Nat /\ Len(wit[w].head) <= MaxLength
    /\ Cardinality(late) <= MaxLate
    /\ \A s \in settled : s.policy \in Policies /\ Len(s.head) \in 1 .. MaxLength

\* Whatever clients do side by side and whatever requests arrive late, the heads
\* that callers are given as the quorum's are one journal growing: of any two, one
\* continues the other (quorum_head_store.go:173-344).
NoFork == \A g, h \in Heads : IsPrefix(g, h) \/ IsPrefix(h, g)

\* A settled head is never lost: at every moment a quorum cannot form that has
\* not heard of it (quorum_head_store.go:308-327).
SettledIsKept ==
    \A s \in settled :
        Cardinality({w \in Members[s.policy] : Readable(w, s.policy) /\ ~IsPrefix(s.head, wit[w].head)})
            < Threshold[s.policy]

\* A witness never gives up what it holds: its head only grows
\* (remote_witness_policy_protocol.go:234-244).
WitnessForward == [][\A w \in Witnesses : IsPrefix(wit[w].head, wit'[w].head)]_vars
=============================================================================
