--------------------------- MODULE CapabilityRoot ---------------------------
(***************************************************************************)
(* The rooted capability authority of internal/server: the decorator       *)
(* IndependentRootCapabilityAuthority (capability_monotonic_root.go) over  *)
(* AnchoredFileCapabilityMonotonicRoot                                     *)
(* (anchored_capability_monotonic_root.go), whose hash-chained ledger file *)
(* is committed in an external head (external_head_capability_root_anchor, *)
(* internal/journal/kubernetes_head_store.go).                             *)
(*                                                                         *)
(* A commitment hashes the last record, which binds its predecessor, so    *)
(* the head is modelled by the whole history it commits to.  The authority *)
(* below the decorator may have been restored to anything: every call      *)
(* observes an arbitrary snapshot.  The ledger is a local file, written    *)
(* under an exclusive flock; it may be torn, lose its unsynced tail in a   *)
(* power loss, and be restored from an older copy while nobody holds it.   *)
(* A call to the head store may fail, and may fail with its write still on *)
(* the way.                                                                *)
(***************************************************************************)
EXTENDS CapabilityCoordinates, Sequences, FiniteSets, SequencesExt

CONSTANTS
    Callers,       \* requests inside Issue or Current, each in its own process
    Scopes,        \* capability scopes (scopeDigest)
    Snapshots,     \* what the mutable authority may report
    MaxSequence,   \* the largest anchor sequence, ^uint64(0) in the code
    MaxLate,       \* bound: writes whose caller has given up
    MaxRestores,   \* bound: ledger copies put back
    None, Nobody, Torn

VARIABLES
    ledger,    \* the records in the file, a torn line being Torn
    durable,   \* how many of them an fsync has covered
    head,      \* external head: resource version (0: absent) and history
    late,      \* writes of callers that have given up on the answer
    flock,     \* holder of LOCK_EX on the ledger
    pc, loc,   \* where each caller is, and its locals
    told,      \* per scope, what Advance or Current of the root last returned
    restores

vars == <<ledger, durable, head, late, flock, pc, loc, told, restores>>

Record == [scope : Scopes, snap : Snapshots]
Locals == [op : {"issue", "current", None}, scope : Scopes \cup {None},
           obs : Snapshots \cup {None}, rv : Nat,
           res : Snapshots \cup {None}, floor : Snapshots \cup {None}]
NoLocals == [op |-> None, scope |-> None, obs |-> None, rv |-> 0, res |-> None, floor |-> None]

\* latestCapabilityRootSnapshot: the last record of the scope.
Latest(log, s) ==
    LET at == {i \in 1 .. Len(log) : log[i] # Torn /\ log[i].scope = s}
    IN  IF at = {} THEN None
        ELSE log[CHOOSE i \in at : \A j \in at : j <= i].snap

\* readRecords and validateRecord: every line decodes, and within a scope every
\* record strictly advances the one before it.
ReadsBack(log) ==
    /\ Torn \notin Range(log)
    /\ \A i \in 1 .. Len(log) :
           LET before == Latest(SubSeq(log, 1, i - 1), log[i].scope)
           IN  before # None => Compare(log[i].snap, before) = "ahead"

\* openVerified: the local history is exactly the one the head commits to.
Verified == ReadsBack(ledger) /\ ledger = head.log

Init ==
    /\ ledger = <<>> /\ durable = 0
    /\ head = [rv |-> 0, log |-> <<>>]
    /\ late = {} /\ flock = Nobody
    /\ pc = [c \in Callers |-> "idle"]
    /\ loc = [c \in Callers |-> NoLocals]
    /\ told = [s \in Scopes |-> None]
    /\ restores = 0

-----------------------------------------------------------------------------
(* Ends of a call.  Closing the ledger's descriptor releases the flock.    *)

Release(c) == flock' = IF flock = c THEN Nobody ELSE flock

\* The call returns an error.
Refuse(c) ==
    /\ pc' = [pc EXCEPT ![c] = "idle"]
    /\ loc' = [loc EXCEPT ![c] = NoLocals]
    /\ Release(c)
    /\ UNCHANGED told

\* The root returned v; Issue wants it equal to what it observed, Current takes
\* it when it is equal or ahead.
RootReturns(c, v) ==
    LET l == loc[c]
        good == Compare(v, l.obs) \in (IF l.op = "issue" THEN {"equal"} ELSE {"equal", "ahead"})
    IN  /\ told' = [told EXCEPT ![l.scope] = v]
        /\ pc' = [pc EXCEPT ![c] = IF good THEN "answered" ELSE "idle"]
        /\ loc' = [loc EXCEPT ![c] = IF good THEN [l EXCEPT !.res = v, !.rv = 0] ELSE NoLocals]
        /\ Release(c)

-----------------------------------------------------------------------------
(* The calls.                                                              *)

\* Mutable.Issue or Mutable.Current has returned obs.
Begin(c, op, s, obs) ==
    /\ pc[c] \in {"idle", "answered"}
    /\ pc' = [pc EXCEPT ![c] = "open"]
    /\ loc' = [loc EXCEPT ![c] = [op |-> op, scope |-> s, obs |-> obs,
                                  rv |-> 0, res |-> None, floor |-> told[s]]]
    /\ UNCHANGED <<ledger, durable, head, late, flock, told, restores>>

\* openVerified with the flock taken, and what Advance and Current decide on the
\* records it returns.
Open(c) ==
    LET l == loc[c]
        current == Latest(ledger, l.scope)
        order == IF current = None THEN "behind" ELSE Compare(current, l.obs)
    IN  /\ pc[c] = "open" /\ flock = Nobody
        /\ \/ /\ \/ ~Verified
                 \/ l.op = "current" /\ current = None
                 \/ l.op = "issue" /\ order = "error"
                 \/ l.op = "issue" /\ order = "behind" /\ Len(head.log) = MaxSequence
              /\ Refuse(c)
           \/ /\ Verified /\ current # None
              /\ l.op = "current" \/ order \in {"equal", "ahead"}
              /\ RootReturns(c, current)
           \/ /\ Verified /\ l.op = "issue" /\ order = "behind" /\ Len(head.log) # MaxSequence
              /\ flock' = c
              /\ pc' = [pc EXCEPT ![c] = "load"]
              /\ UNCHANGED <<loc, told>>
        /\ UNCHANGED <<ledger, durable, head, late, restores>>

\* ExternalHeadCapabilityRootAnchor.Advance loads the head, which must still be
\* the one the ledger was verified against; an absent head is created first.
LoadHead(c) ==
    /\ pc[c] = "load"
    /\ IF head.log = ledger
       THEN /\ pc' = [pc EXCEPT ![c] = IF head.rv = 0 THEN "create" ELSE "put"]
            /\ loc' = [loc EXCEPT ![c].rv = head.rv]
            /\ UNCHANGED <<flock, told>>
       ELSE Refuse(c)
    /\ UNCHANGED <<ledger, durable, head, late, restores>>

\* The write a caller asks the head store for, conditional on the version.
Request(c) ==
    [rv  |-> loc[c].rv,
     log |-> IF pc[c] = "create" THEN <<>>
             ELSE Append(ledger, [scope |-> loc[c].scope, snap |-> loc[c].obs])]

\* KubernetesHeadStore: Create when absent, Update under the resource version.
Commit(r) == head' = [rv |-> r.rv + 1, log |-> r.log]

\* CompareAndAdvance answers: done, or a conflict.
Put(c) ==
    /\ pc[c] \in {"create", "put"}
    /\ IF head.rv = loc[c].rv
       THEN /\ Commit(Request(c))
            /\ pc' = [pc EXCEPT ![c] = IF pc[c] = "create" THEN "put" ELSE "append"]
            /\ loc' = [loc EXCEPT ![c].rv = head.rv + 1]
            /\ UNCHANGED <<flock, told>>
       ELSE Refuse(c) /\ UNCHANGED head
    /\ UNCHANGED <<ledger, durable, late, restores>>

\* CompareAndAdvance fails at the caller with its request still on the way.
PutGivenUp(c) ==
    /\ pc[c] \in {"create", "put"} /\ Cardinality(late) < MaxLate
    /\ late' = late \cup {Request(c)}
    /\ Refuse(c)
    /\ UNCHANGED <<ledger, durable, head, restores>>

\* The request of a caller that has given up is carried out, or is not.
LateArrives(r) ==
    /\ r \in late
    /\ late' = late \ {r}
    /\ IF head.rv = r.rv THEN Commit(r) ELSE UNCHANGED head
    /\ UNCHANGED <<ledger, durable, flock, pc, loc, told, restores>>

\* Mutant: the error of a partial write is dropped.
AppendIgnoringError(c) ==
    /\ pc[c] = "append"
    /\ \E r \in {[scope |-> loc[c].scope, snap |-> loc[c].obs], Torn} : ledger' = Append(ledger, r)
    /\ pc' = [pc EXCEPT ![c] = "sync"]
    /\ UNCHANGED <<durable, head, late, flock, loc, told, restores>>

\* The append to the ledger: whole, or an error after part of the line.
AppendRecord(c) ==
    /\ pc[c] = "append"
    /\ \/ /\ ledger' = Append(ledger, [scope |-> loc[c].scope, snap |-> loc[c].obs])
          /\ pc' = [pc EXCEPT ![c] = "sync"]
          /\ UNCHANGED <<flock, loc, told>>
       \/ ledger' = Append(ledger, Torn) /\ Refuse(c)
    /\ UNCHANGED <<durable, head, late, restores>>

\* fsync of the file and of its directory; then Advance returns what it observed.
SyncLedger(c) ==
    /\ pc[c] = "sync"
    /\ durable' = Len(ledger)
    /\ RootReturns(c, loc[c].obs)
    /\ UNCHANGED <<ledger, head, late, restores>>

-----------------------------------------------------------------------------
(* Faults.                                                                 *)

\* A system or API call fails without effect and the caller returns its error, or
\* the caller's process dies there and the kernel drops its flock.
FailOrCrash(c) ==
    /\ pc[c] \notin {"idle", "answered"}
    /\ Refuse(c)
    /\ UNCHANGED <<ledger, durable, head, late, restores>>

\* The host loses power: of the records no fsync has covered a prefix is left,
\* the record after it torn or gone.
PowerLoss ==
    /\ \E k \in durable .. Len(ledger) :
           \/ ledger' = SubSeq(ledger, 1, k)
           \/ k < Len(ledger) /\ ledger' = Append(SubSeq(ledger, 1, k), Torn)
    /\ ledger' # ledger
    /\ durable' = Len(ledger')
    /\ pc' = [c \in Callers |-> "idle"] /\ loc' = [c \in Callers |-> NoLocals]
    /\ flock' = Nobody
    /\ UNCHANGED <<head, late, told, restores>>

\* An older copy of the ledger is put back.
RestoreLedger(k) ==
    /\ restores < MaxRestores /\ flock = Nobody /\ k < Len(ledger)
    /\ restores' = restores + 1
    /\ ledger' = SubSeq(ledger, 1, k) /\ durable' = k
    /\ UNCHANGED <<head, late, flock, pc, loc, told>>

CallerStep(c) ==
    Open(c) \/ LoadHead(c) \/ Put(c) \/ AppendRecord(c) \/ SyncLedger(c)

Next ==
    \/ \E c \in Callers :
           \/ \E op \in {"issue", "current"}, s \in Scopes, v \in Snapshots : Begin(c, op, s, v)
           \/ CallerStep(c) \/ PutGivenUp(c) \/ FailOrCrash(c)
    \/ \E r \in late : LateArrives(r)
    \/ PowerLoss
    \/ \E k \in 0 .. MaxSequence : RestoreLedger(k)

\* Fairness: a running call goes on, and the kernel grants a flock that keeps
\* becoming free.
Fairness ==
    \A c \in Callers :
        /\ SF_vars(Open(c))
        /\ WF_vars(LoadHead(c) \/ Put(c) \/ AppendRecord(c) \/ SyncLedger(c))

Spec == Init /\ [][Next]_vars

FairSpec == Spec /\ Fairness

-----------------------------------------------------------------------------
(* Properties.                                                             *)

\* The records and the head have their shape and only the holder of the flock is
\* between openVerified and the close.
TypeOK ==
    /\ ledger \in Seq(Record \cup {Torn}) /\ durable \in 0 .. Len(ledger)
    /\ head \in [rv : Nat, log : Seq(Record)]
    /\ late \subseteq [rv : Nat, log : Seq(Record)]
    /\ told \in [Scopes -> Snapshots \cup {None}] /\ loc \in [Callers -> Locals]
    /\ \A c \in Callers :
           (pc[c] \in {"load", "create", "put", "append", "sync"}) <=> (flock = c)

\* Through restores of the authority and of the ledger, lost tails, torn lines and
\* late writes, no call returns coordinates older than what the root had returned
\* for the scope before the call began (capability_monotonic_root.go:20-26).
AnswersNeverFall ==
    \A c \in Callers :
        pc[c] = "answered" /\ loc[c].floor # None => AtLeast(loc[c].res, loc[c].floor)

\* Nor older than what the mutable authority reported to that very call.
AnswersCoverObservation ==
    \A c \in Callers : pc[c] = "answered" => AtLeast(loc[c].res, loc[c].obs)

\* Everything the root ever returned is in the history the head commits to: the
\* anchor is advanced before the ledger (anchored_...root.go:159).
ToldIsAnchored ==
    \A s \in Scopes :
        told[s] # None => Latest(head.log, s) # None /\ AtLeast(Latest(head.log, s), told[s])

\* The committed history is only ever extended, one record at a time and never
\* past MaxSequence, whichever late writes arrive.
HeadOnlyExtends ==
    [][head.log' # head.log =>
           /\ Len(head.log') = Len(head.log) + 1 /\ Len(head.log') <= MaxSequence
           /\ IsPrefix(head.log, head.log')]_vars

\* While the ledger differs from the committed history nobody is told anything:
\* a half-done advance or a restored copy closes the root.
ClosedWhileApart ==
    [][\A c \in Callers :
           pc[c] # "answered" /\ pc'[c] = "answered" => ledger = head.log]_vars

\* The root is a MonotonicRoot: its mark is the last committed record of the scope.
Abstract == INSTANCE MonotonicRoot
    WITH root <- [s \in Scopes |-> Latest(head.log, s)], Above <- Supersedes

RefinesMonotonicRoot == Abstract!Spec

=============================================================================
