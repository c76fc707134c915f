--------------------------- MODULE RemoteWitness ---------------------------
(***************************************************************************)
(* One governed head witness across its wire: the client                   *)
(* (internal/journal/remote_head_store.go), the handlers of the witness    *)
(* (remote_witness_policy_protocol.go), its state in a ConfigMap           *)
(* (governed_witness_state_store.go) and its signer                        *)
(* (external_head_witness_signer.go).  Several replicas or goroutines of   *)
(* the witness handle requests side by side: each loads the state, checks, *)
(* writes it back under the version it loaded, and has the answer signed.  *)
(* The network delays, reorders, duplicates and loses requests and answers;*)
(* a signed answer may be delivered to any later call.                     *)
(***************************************************************************)
EXTENDS Naturals, Sequences, FiniteSets

CONSTANTS
    Journals,
    Clients,
    MaxSeq,       \* bound: highest sequence
    MaxEpoch,     \* bound: highest epoch
    MaxCalls,     \* bound: requests sent, each with a nonce of its own
    MaxBusy,      \* bound: requests the witness handles side by side
    MaxTwice      \* bound: requests delivered again

Operations == {"load", "advance", "observe", "policy", "transition"}

VARIABLES
    state,      \* the ConfigMap: policy, heads, version
    requests,   \* requests sent, by nonce
    taken,      \* how often each was delivered
    busy,       \* handlers at work: the request, and the state loaded
    answers,    \* signed answers
    pc, loc,    \* clients
    saved,      \* the nonces whose request changed the state, with how often
    accepted,   \* answers a client accepted, and the versions its call spans
    hist        \* the states the witness was in, by version

vars == <<state, requests, taken, busy, answers, pc, loc, saved, accepted, hist>>

Policy(phase, epoch) == [phase |-> phase, epoch |-> epoch]
HeadOf(s, j) == [seq |-> s.heads[j], ver |-> s.ver]

NoCall == [nonce |-> 0, since |-> 0, head |-> [seq |-> 0, ver |-> 0]]

Init ==
    /\ \E h \in [Journals -> 0 .. 1], p \in {Policy("ACTIVE", 1), Policy("JOINT", 2)} :
           state = [policy |-> p, heads |-> h, ver |-> 1]
    /\ requests = <<>> /\ taken = <<>> /\ busy = {} /\ answers = {}
    /\ pc = [c \in Clients |-> "idle"] /\ loc = [c \in Clients |-> NoCall]
    /\ saved = <<>> /\ accepted = {} /\ hist = <<state>>

-----------------------------------------------------------------------------
(* The client.                                                             *)

Nonces == DOMAIN requests

\* newRemoteWitnessNonce: a request of its own nonce.
Send(c, r) ==
    /\ Cardinality(Nonces) < MaxCalls
    /\ LET n == Cardinality(Nonces) + 1
       IN  /\ requests' = [m \in Nonces \cup {n} |-> IF m = n THEN r ELSE requests[m]]
           /\ taken' = [m \in Nonces \cup {n} |-> IF m = n THEN 0 ELSE taken[m]]
           /\ saved' = [m \in Nonces \cup {n} |-> IF m = n THEN 0 ELSE saved[m]]
           /\ loc' = [loc EXCEPT ![c].nonce = n, ![c].since = state.ver]
    /\ pc' = [pc EXCEPT ![c] = r.op]
    /\ UNCHANGED <<state, busy, answers, accepted, hist>>

Request(op, j, policy, head, seq, next) ==
    [op |-> op, journal |-> j, policy |-> policy, head |-> head, seq |-> seq, next |-> next]

NoHead == [seq |-> 0, ver |-> 0]

\* LoadForQuorum under the policy of the client's store.
Load(c, j) ==
    /\ pc[c] = "idle"
    /\ \E e \in 1 .. MaxEpoch : Send(c, Request("load", j, Policy("ACTIVE", e), NoHead, 0, Policy("ACTIVE", e)))

\* CompareAndAdvanceForQuorum from a head the client accepted, or from none.
CompareAndAdvance(c, j) ==
    /\ pc[c] = "idle"
    /\ \E e \in 1 .. MaxEpoch, h \in {NoHead} \cup {a.head : a \in {x \in accepted : x.journal = j}} :
           /\ h.seq < MaxSeq
           /\ Send(c, Request("advance", j, Policy("ACTIVE", e), h, h.seq + 1, Policy("ACTIVE", e)))

\* CompareAndTransitionQuorumPolicy observes the head first (ObserveQuorumRotationHead).
Observe(c, j) ==
    /\ pc[c] = "idle"
    /\ Send(c, Request("observe", j, Policy("ACTIVE", 1), NoHead, 0, Policy("ACTIVE", 1)))

\* ValidateQuorumPolicyTransition.
ValidTransition(from, to) ==
    \/ from.phase = "ACTIVE" /\ to.phase = "JOINT" /\ to.epoch > from.epoch
    \/ from.phase = "JOINT" /\ to.phase = "ACTIVE" /\ to.epoch = from.epoch

Transition(c, j) ==
    /\ pc[c] = "observed"
    /\ \E from, to \in [phase : {"ACTIVE", "JOINT"}, epoch : 1 .. MaxEpoch] :
           ValidTransition(from, to) /\ Send(c, Request("transition", j, from, loc[c].head, 0, to))

\* CurrentQuorumPolicy.
CurrentPolicy(c, j) ==
    /\ pc[c] = "idle"
    /\ Send(c, Request("policy", j, Policy("ACTIVE", 1), NoHead, 0, Policy("ACTIVE", 1)))

\* verifyResponseWithPolicy, verifyPolicyResponse: the nonce, the journal, the
\* operation that is signed, and the policy asked for.
Verifies(c, a) ==
    LET r == requests[loc[c].nonce]
    IN  /\ a.nonce = loc[c].nonce /\ a.op = r.op /\ a.journal = r.journal
        /\ r.op \in {"load", "advance"} => a.policy = r.policy
        /\ r.op = "transition" => a.policy = r.next

Accept(c, a) ==
    /\ pc[c] \in Operations /\ a \in answers /\ Verifies(c, a)
    /\ accepted' = accepted \cup {[op |-> a.op, journal |-> a.journal, head |-> a.head, policy |-> a.policy,
                                   nonce |-> loc[c].nonce, since |-> loc[c].since, until |-> state.ver]}
    /\ IF pc[c] = "observe"
       THEN pc' = [pc EXCEPT ![c] = "observed"] /\ loc' = [loc EXCEPT ![c].head = a.head]
       ELSE pc' = [pc EXCEPT ![c] = "idle"] /\ loc' = [loc EXCEPT ![c] = NoCall]
    /\ UNCHANGED <<state, requests, taken, busy, answers, saved, hist>>

\* An answer without signature (a refusal, not found, an error), a timeout, a crash.
Fail(c) ==
    /\ pc[c] # "idle"
    /\ pc' = [pc EXCEPT ![c] = "idle"] /\ loc' = [loc EXCEPT ![c] = NoCall]
    /\ UNCHANGED <<state, requests, taken, busy, answers, saved, accepted, hist>>

-----------------------------------------------------------------------------
(* The witness.                                                            *)

\* Mutant: a head is advanced under a frozen policy.
MayAdvanceFrozen(r, s) ==
    /\ r.head.seq = s.heads[r.journal]
    /\ s.heads[r.journal] > 0 => r.head.ver = s.ver

\* handleHeadAdvance up to its write.
MayAdvance(r, s) ==
    /\ s.policy = r.policy /\ r.policy.phase = "ACTIVE"
    /\ r.head.seq = s.heads[r.journal]
    /\ IF s.heads[r.journal] = 0 THEN r.seq = 1 ELSE r.head.ver = s.ver /\ r.seq > r.head.seq

\* handlePolicyTransition up to its write.
MayTransition(r, s) ==
    /\ s.policy = r.policy /\ ValidTransition(r.policy, r.next)
    /\ s.heads[r.journal] > 0
    /\ r.head.ver = s.ver /\ r.head.seq = s.heads[r.journal]

\* handleHeadLoad, handleRotationObserve, handleCurrentPolicy: no write.
MayRead(r, s) ==
    CASE r.op = "load" -> s.policy = r.policy /\ s.heads[r.journal] > 0
      [] r.op = "observe" -> s.heads[r.journal] > 0
      [] OTHER -> r.op = "policy"

\* writeSignedHead, writeSignedPolicy.
Answer(n, s) ==
    [op |-> requests[n].op, nonce |-> n, journal |-> requests[n].journal,
     head |-> HeadOf(s, requests[n].journal), policy |-> s.policy]

\* Sign may fail, and the answer then is an error: it is one that never arrives.
Signed(n, s) == answers' = answers \cup {Answer(n, s)}

Again == Cardinality({n \in Nonces : taken[n] > 1})

\* ServeHTTP: a request arrives, perhaps once more; the handler loads the state.
Take(n) ==
    LET r == requests[n]
    IN  /\ taken[n] > 0 => Again < MaxTwice
        /\ taken' = [taken EXCEPT ![n] = @ + 1]
        /\ \/ /\ MayRead(r, state) /\ Signed(n, state) /\ UNCHANGED busy
           \/ /\ (r.op = "advance" /\ MayAdvance(r, state)) \/ (r.op = "transition" /\ MayTransition(r, state))
              /\ Cardinality(busy) < MaxBusy
              /\ busy' = busy \cup {[nonce |-> n, state |-> state]} /\ UNCHANGED answers
        /\ UNCHANGED <<state, requests, pc, loc, saved, accepted, hist>>

Written(b) ==
    LET r == requests[b.nonce]
    IN  IF r.op = "advance" THEN [b.state EXCEPT !.heads[r.journal] = r.seq, !.ver = @ + 1]
        ELSE [b.state EXCEPT !.policy = r.next, !.ver = @ + 1]

\* CompareAndSwap: an Update under the version the handler loaded.
Swappable(b) == b.state.ver = state.ver

\* The handler writes, and has its answer signed; on a conflict it refuses.
Write(b) ==
    /\ b \in busy /\ busy' = busy \ {b}
    /\ IF Swappable(b)
       THEN /\ state' = Written(b) /\ Signed(b.nonce, Written(b))
            /\ saved' = [saved EXCEPT ![b.nonce] = @ + 1]
            /\ hist' = Append(hist, Written(b))
       ELSE UNCHANGED <<state, answers, saved, hist>>
    /\ UNCHANGED <<requests, taken, pc, loc, accepted>>

Next ==
    \/ \E c \in Clients, j \in Journals :
           Load(c, j) \/ CompareAndAdvance(c, j) \/ Observe(c, j) \/ Transition(c, j) \/ CurrentPolicy(c, j)
    \/ \E c \in Clients : Fail(c) \/ \E a \in answers : Accept(c, a)
    \/ \E n \in Nonces : Take(n)
    \/ \E b \in busy : Write(b)

Spec == Init /\ [][Next]_vars

-----------------------------------------------------------------------------
(* Properties.                                                             *)

\* State, calls and counters have their shape.
TypeOK ==
    /\ state.ver \in Nat /\ state.policy.epoch \in 1 .. MaxEpoch
    /\ \A j \in Journals : state.heads[j] \in 0 .. MaxSeq
    /\ \A n \in Nonces : requests[n].op \in Operations /\ Again <= MaxTwice

\* What a call accepts was the witness's state at a moment within the call, however
\* old or repeated the answers in the network are (remote_head_store.go:464-533).
Fresh ==
    \A a \in accepted :
        \E v \in a.since .. a.until : HeadOf(hist[v], a.journal) = a.head /\ hist[v].policy = a.policy

\* An advance or a transition a caller was told of was carried out, and no request
\* is ever carried out twice, delivered twice or not
\* (remote_witness_policy_protocol.go:210-262).
CarriedOutOnce ==
    /\ \A n \in Nonces : saved[n] <= 1
    /\ \A a \in accepted : a.op \in {"advance", "transition"} => saved[a.nonce] = 1

\* Handlers that load and write side by side still are the register that
\* quorum_head_store.go and quorum_rotation.go rely on: one thing changes at a
\* time, a head only under an ACTIVE policy and only upwards, a policy only from
\* ACTIVE to JOINT of a later epoch and from there to that epoch's ACTIVE.
AdvanceHead(j) ==
    /\ state.policy.phase = "ACTIVE" /\ state'.heads[j] > state.heads[j]
    /\ state'.heads = [state.heads EXCEPT ![j] = state'.heads[j]]
    /\ state'.policy = state.policy

ChangePolicy ==
    /\ \/ /\ state.policy.phase = "ACTIVE" /\ state'.policy.phase = "JOINT"
          /\ state'.policy.epoch > state.policy.epoch
       \/ /\ state.policy.phase = "JOINT" /\ state'.policy.phase = "ACTIVE"
          /\ state'.policy.epoch = state.policy.epoch
    /\ state'.heads = state.heads

IsRegister ==
    [][(\E j \in Journals : AdvanceHead(j)) \/ ChangePolicy]_<<state.policy, state.heads>>
=============================================================================
