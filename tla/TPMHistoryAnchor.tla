-------------------------- MODULE TPMHistoryAnchor --------------------------
(***************************************************************************)
(* The recovery history of a host and its anchor: the append-only store of *)
(* signed receipts (internal/kernelfabric/taint_recovery_history_linux.go),*)
(* the TPM anchor of its head (internal/server/tpm_history_anchor.go and   *)
(* tpm_history_anchor_head.go), and the store that requires both           *)
(* (internal/kernelfabric/taint_recovery_history_anchor_linux.go).         *)
(*                                                                         *)
(* The digest of a receipt covers its predecessor's: a head is the         *)
(* sequence of the receipts behind it.  The TPM holds a counter and the    *)
(* exact head; the volume holds the receipts, the local head and the       *)
(* companion files of the anchor, and may be copied and restored whole.    *)
(* Callers are goroutines of one process.                                  *)
(***************************************************************************)
EXTENDS Naturals, Sequences, SequencesExt, FiniteSets, TLC

CONSTANTS
    Callers, Receipts, None,
    Identities,   \* device and measured boot, as the TPM reports them
    Imports,      \* the heads a transfer may import: a set of histories
    MaxHistory, MaxGeneration, MaxFaults

VARIABLES
    counter, nv,        \* the NV counter; the exact head
    identity,
    files,              \* the companion files: committed and pending
    store,              \* the local head and the receipts that have a file
    call,               \* caller -> the call it is executing
    told, accepted,     \* the last answer of the anchor; of the anchored store
    backup, faults

vars == <<counter, nv, identity, files, store, call, told, accepted, backup, faults>>

Empty == <<>>
Idle == [pc |-> "idle"]
Busy == {"pending", "head", "increment", "promote"}

FirstIdentity == CHOOSE i \in Identities : TRUE

\* publicTPMHistoryAnchorState
Public(state) == [seq |-> state.seq, head |-> state.head]

\* sealTPMNVHistoryAnchorState: what a companion file may hold.
ValidLineage(state) == state.kind = "import" => state.prevSeq = 0 /\ state.prevHead = Empty

ValidState(state) ==
    /\ state.gen # 0
    /\ ValidLineage(state)
    /\ IF state.seq = 0
       THEN state.head = Empty /\ state.prevSeq = 0 /\ state.prevHead = Empty /\ state.kind = ""
       ELSE state.head # Empty /\ (state.kind = "" => state.prevSeq + 1 = state.seq)

TypeOK ==
    /\ counter \in 1..MaxGeneration + 1
    /\ nv.gen \in 1..MaxGeneration + 1 /\ (nv.seq = 0) = (nv.head = Empty)
    /\ identity \in Identities
    /\ ValidState(files.committed) /\ (files.pending # None => ValidState(files.pending))
    /\ store.head \in Seq(Receipts) /\ store.torn \subseteq store.receipts
    /\ \A c \in Callers : call[c].pc \in {"idle", "local", "read", "anchor"} \cup Busy

\* ProvisionTPMNVHistoryAnchor: counter and head are defined and set, then the
\* state is written; a provisioning that fails undefines both.
Init ==
    /\ counter = 1
    /\ nv = [gen |-> 1, seq |-> 0, head |-> Empty]
    /\ identity = FirstIdentity
    /\ files = [committed |-> [id |-> FirstIdentity, gen |-> 1, prevGen |-> 0, seq |-> 0, prevSeq |-> 0,
                               head |-> Empty, prevHead |-> Empty, kind |-> ""],
                pending |-> None]
    /\ store = [head |-> Empty, receipts |-> {}, torn |-> {}]
    /\ call = [c \in Callers |-> Idle]
    /\ told = None /\ accepted = Empty
    /\ backup = None /\ faults = 0

(***************************************************************************)
(* Recovery of the anchor                                                  *)
(***************************************************************************)
Unlocked == \A c \in Callers : call[c].pc \notin Busy

\* protectedTPMHistoryHeadMatches
Protected(f) == nv = [gen |-> f.gen, seq |-> f.seq, head |-> f.head]

isPendingSuccessor(c, p) ==
    /\ p.prevGen = c.gen /\ p.gen = c.gen + 1
    /\ p.prevSeq = c.seq /\ p.seq = c.seq + 1
    /\ p.prevHead = c.head /\ p.head # Empty

isPendingMigration(c, p) ==
    /\ c.seq = 0 /\ c.head = Empty
    /\ p.kind = "import"
    /\ p.prevGen = c.gen /\ p.gen = c.gen + 1
    /\ p.prevSeq = 0 /\ p.prevHead = Empty
    /\ p.seq > 0 /\ p.head # Empty

PendingRecoverable(c, p) == p # None /\ (isPendingSuccessor(c, p) \/ isPendingMigration(c, p))

IdentityMatches(f) ==
    /\ f.committed.id = identity
    /\ f.pending # None => f.pending.id = f.committed.id

\* Mutant: a committed file is taken without the TPM's word for it.
RecoverTrusting(f) == f.pending = None \/ PendingRecoverable(f.committed, f.pending)

\* recoverLocked, case by case: the committed state is the protected one, or
\* the pending one is and its transition is finished.
RecoverCommitted(f) ==
    /\ f.committed.gen = counter /\ Protected(f.committed)
    /\ f.pending = None \/ PendingRecoverable(f.committed, f.pending)

RecoverPending(f) ==
    /\ ~(f.committed.gen = counter /\ Protected(f.committed))
    /\ PendingRecoverable(f.committed, f.pending) /\ Protected(f.pending)
    /\ counter \in {f.committed.gen, f.pending.gen}

Recoverable == IdentityMatches(files) /\ (RecoverCommitted(files) \/ RecoverPending(files))

Recovered == IF RecoverCommitted(files) THEN files.committed ELSE files.pending

recoverLocked ==
    /\ Unlocked
    /\ Recoverable
    /\ files' = [committed |-> Recovered, pending |-> None]
    /\ counter' = Recovered.gen

\* The counter is completed, and the process stops before it promotes.
RecoverInterrupted ==
    /\ Unlocked
    /\ Recoverable /\ RecoverPending(files) /\ counter = files.committed.gen
    /\ faults < MaxFaults
    /\ faults' = faults + 1
    /\ counter' = counter + 1
    /\ UNCHANGED <<nv, identity, files, store, call, told, accepted, backup>>

(***************************************************************************)
(* CompareAndAdvance and the import of a transferred head                  *)
(***************************************************************************)
Goto(c, pc) == call' = [call EXCEPT ![c].pc = pc]
Return(c) == call' = [call EXCEPT ![c] = Idle]

SuccessorState(state, next) ==
    [state EXCEPT !.prevGen = state.gen, !.gen = state.gen + 1, !.prevSeq = state.seq,
                  !.seq = next.seq, !.prevHead = state.head, !.head = next.head, !.kind = ""]

\* The anchor already holds the next head, behind the expected one.
AdvanceRepeated(c) ==
    /\ call[c].pc = "anchor"
    /\ recoverLocked
    /\ Public(Recovered) = call[c].next
    /\ Recovered.prevSeq = call[c].expected.seq /\ Recovered.prevHead = call[c].expected.head
    /\ told' = call[c].next
    /\ Return(c)
    /\ UNCHANGED <<nv, identity, store, accepted, backup, faults>>

AdvanceRefused(c) ==
    /\ call[c].pc = "anchor"
    /\ recoverLocked
    /\ Public(Recovered) # call[c].expected
    /\ Public(Recovered) = call[c].next =>
           Recovered.prevSeq # call[c].expected.seq \/ Recovered.prevHead # call[c].expected.head
    /\ Return(c)
    /\ UNCHANGED <<nv, identity, store, told, accepted, backup, faults>>

CompareAndAdvance(c) ==
    /\ call[c].pc = "anchor"
    /\ recoverLocked
    /\ Public(Recovered) = call[c].expected
    /\ Recovered.gen # MaxGeneration
    /\ call' = [call EXCEPT ![c] = [pc |-> "pending", state |-> SuccessorState(Recovered, call[c].next)]]
    /\ UNCHANGED <<nv, identity, store, told, accepted, backup, faults>>

\* importTPMHistoryContinuityDestination, onto the anchor the authorization saw.
ImportHead(c, h) ==
    /\ call[c] = Idle
    /\ recoverLocked
    /\ Recovered.gen = 1 /\ Recovered.seq = 0 /\ Recovered.head = Empty
    /\ call' = [call EXCEPT ![c] =
                   [pc |-> "pending",
                    state |-> [Recovered EXCEPT !.prevGen = 1, !.gen = 2, !.seq = Len(h),
                                                !.head = h, !.kind = "import"]]]
    /\ UNCHANGED <<nv, identity, store, told, accepted, backup, faults>>

WritePending(c) ==
    /\ call[c].pc = "pending"
    /\ files' = [files EXCEPT !.pending = call[c].state]
    /\ Goto(c, "head")
    /\ UNCHANGED <<counter, nv, identity, store, told, accepted, backup, faults>>

writeProtectedHead(c) ==
    /\ call[c].pc = "head"
    /\ nv' = [gen |-> call[c].state.gen, seq |-> call[c].state.seq, head |-> call[c].state.head]
    /\ Goto(c, "increment")
    /\ UNCHANGED <<counter, identity, files, store, told, accepted, backup, faults>>

Increment(c) ==
    /\ call[c].pc = "increment"
    /\ counter' = counter + 1
    /\ IF counter' = call[c].state.gen THEN Goto(c, "promote") ELSE Return(c)
    /\ UNCHANGED <<nv, identity, files, store, told, accepted, backup, faults>>

Promote(c) ==
    /\ call[c].pc = "promote"
    /\ files' = [committed |-> files.pending, pending |-> None]
    /\ told' = Public(call[c].state)
    /\ Return(c)
    /\ UNCHANGED <<counter, nv, identity, store, accepted, backup, faults>>

(***************************************************************************)
(* The anchored store                                                      *)
(***************************************************************************)
\* validateTaintRecoveryHistoryAnchorBinding
Bound(anchor, head) == IF head = Empty THEN anchor.seq = 0 ELSE anchor.seq # 0 /\ anchor.head = head

\* currentLocked: the head names a whole receipt.
LocalReadable == store.head = Empty \/ store.head \in store.receipts \ store.torn

\* Current and Append of the anchored store read the local head first ...
ReadLocal(c, op) ==
    /\ call[c] = Idle
    /\ LocalReadable
    /\ call' = [call EXCEPT ![c] = op @@ [pc |-> "local", head |-> store.head]]
    /\ UNCHANGED <<counter, nv, identity, files, store, told, accepted, backup, faults>>

\* ... and the anchor second, which may have moved in between.
AnchoredCurrent(c) ==
    /\ call[c].pc = "local" /\ call[c].op = "current"
    /\ recoverLocked
    /\ told' = Public(Recovered)
    /\ accepted' = IF Bound(told', call[c].head) THEN call[c].head ELSE accepted
    /\ Return(c)
    /\ UNCHANGED <<nv, identity, store, backup, faults>>

AnchoredAppend(c) ==
    /\ call[c].pc = "local" /\ call[c].op = "append"
    /\ recoverLocked
    /\ told' = Public(Recovered)
    /\ IF Bound(told', call[c].head)
       THEN call' = [call EXCEPT ![c] = [pc |-> "read", anchor |-> told'] @@ @]
       ELSE Return(c)
    /\ UNCHANGED <<nv, identity, store, accepted, backup, faults>>

\* Store.Append, under the lock of the directory, where the head may have
\* moved: a receipt that is the head already is only reported, one whose
\* predecessor is not the head is refused, and so is one that collides with the
\* torn file of an earlier attempt.
Digest(c) == Append(call[c].prev, call[c].receipt)

StoreAppend(c) ==
    /\ call[c].pc = "read"
    /\ LocalReadable
    /\ store.head # Digest(c)
    /\ call[c].prev = store.head
    /\ Digest(c) \notin store.torn
    /\ store' = [store EXCEPT !.head = Digest(c), !.receipts = @ \cup {Digest(c)}]
    /\ call' = [call EXCEPT ![c] =
                   [pc |-> "anchor", expected |-> call[c].anchor,
                    next |-> [seq |-> call[c].anchor.seq + 1, head |-> Digest(c)]]]
    /\ UNCHANGED <<counter, nv, identity, files, told, accepted, backup, faults>>

StoreAppendRepeated(c) ==
    /\ call[c].pc = "read"
    /\ store.head = Digest(c)
    /\ IF call[c].head = Digest(c) THEN Return(c)
       ELSE call' = [call EXCEPT ![c] =
                        [pc |-> "anchor", expected |-> call[c].anchor,
                         next |-> [seq |-> call[c].anchor.seq + 1, head |-> Digest(c)]]]
    /\ UNCHANGED <<counter, nv, identity, files, store, told, accepted, backup, faults>>

StoreAppendRefused(c) ==
    /\ call[c].pc = "read"
    /\ store.head # Digest(c)
    /\ call[c].prev = store.head => Digest(c) \in store.torn
    /\ Return(c)
    /\ UNCHANGED <<counter, nv, identity, files, store, told, accepted, backup, faults>>

\* The process stops while it writes the receipt, or before it writes the head.
StoreAppendTorn(c) ==
    /\ call[c].pc = "read"
    /\ call[c].prev = store.head /\ Digest(c) \notin store.receipts
    /\ faults < MaxFaults
    /\ faults' = faults + 1
    /\ \E torn \in {{}, {Digest(c)}} :
           store' = [store EXCEPT !.receipts = @ \cup {Digest(c)}, !.torn = @ \cup torn]
    /\ Return(c)
    /\ UNCHANGED <<counter, nv, identity, files, told, accepted, backup>>

\* The host stops when the head is durable and the entry of the receipt in its
\* directory, which is synced last, is not.
StoreAppendHeadOnly(c) ==
    /\ call[c].pc = "read"
    /\ call[c].prev = store.head /\ Digest(c) \notin store.receipts
    /\ faults < MaxFaults
    /\ faults' = faults + 1
    /\ store' = [store EXCEPT !.head = Digest(c)]
    /\ call' = [d \in Callers |-> Idle]
    /\ UNCHANGED <<counter, nv, identity, files, told, accepted, backup>>

(***************************************************************************)
(* The environment                                                         *)
(***************************************************************************)
\* A step fails and its caller returns, with what it did in place.
Fail(c) ==
    /\ call[c] # Idle
    /\ faults < MaxFaults
    /\ faults' = faults + 1
    /\ Return(c)
    /\ UNCHANGED <<counter, nv, identity, files, store, told, accepted, backup>>

Reboot(i) ==
    /\ faults < MaxFaults
    /\ faults' = faults + 1
    /\ identity' = i
    /\ call' = [c \in Callers |-> Idle]
    /\ UNCHANGED <<counter, nv, files, store, told, accepted, backup>>

\* The volume is copied at any time, and restored while nothing uses it.
Backup ==
    /\ backup = None
    /\ MaxFaults > 0
    /\ backup' = [files |-> files, store |-> store]
    /\ UNCHANGED <<counter, nv, identity, files, store, call, told, accepted, faults>>

Restore ==
    /\ backup # None
    /\ \A c \in Callers : call[c] = Idle
    /\ faults < MaxFaults
    /\ faults' = faults + 1
    /\ files' = backup.files /\ store' = backup.store
    /\ UNCHANGED <<counter, nv, identity, call, told, accepted, backup>>

\* The receipts of a transferred history are copied onto a volume that has none.
CopyHistory(h) ==
    /\ store.head = Empty
    /\ store' = [head |-> h, receipts |-> {SubSeq(h, 1, n) : n \in 1..Len(h)}, torn |-> {}]
    /\ UNCHANGED <<counter, nv, identity, files, call, told, accepted, backup, faults>>

Caller(c) ==
    \/ ReadLocal(c, [op |-> "current"])
    \/ \E r \in Receipts, prev \in store.receipts \cup {Empty} :
           Len(prev) < MaxHistory /\ ReadLocal(c, [op |-> "append", receipt |-> r, prev |-> prev])
    \/ AnchoredCurrent(c) \/ AnchoredAppend(c)
    \/ StoreAppend(c) \/ StoreAppendRepeated(c) \/ StoreAppendRefused(c)
    \/ StoreAppendTorn(c) \/ StoreAppendHeadOnly(c)
    \/ AdvanceRepeated(c) \/ AdvanceRefused(c) \/ CompareAndAdvance(c)
    \/ WritePending(c) \/ writeProtectedHead(c) \/ Increment(c) \/ Promote(c)
    \/ Fail(c)
    \/ \E h \in Imports : ImportHead(c, h)

Next ==
    \/ \E c \in Callers : Caller(c)
    \/ RecoverInterrupted
    \/ \E i \in Identities : Reboot(i)
    \/ Backup \/ Restore
    \/ \E h \in Imports : CopyHistory(h)

Spec == Init /\ [][Next]_vars

(***************************************************************************)
(* Properties                                                              *)
(***************************************************************************)
\* The TPM anchor is the anchor of the interface, a monotonic root of one head:
\* its head is the one the TPM protects, whatever step was interrupted and
\* whatever files were restored, it rises by one sequence number or is imported
\* into an empty anchor, and every answer reads it.
Mark(state) ==
    [s \in {"head"} |-> IF state = None \/ state.seq = 0 THEN None
                       ELSE [seq |-> state.seq, head |-> state.head]]
NextSequence(v, r) == v.seq = r.seq + 1
Abstract == INSTANCE MonotonicRoot
    WITH Scopes <- {"head"}, root <- Mark(nv), told <- Mark(told), Above <- NextSequence
ImplementsHeadAnchor == Abstract!Spec

\* A history that was accepted once is part of every history accepted later:
\* neither a restored volume nor a crash between the store, the companion
\* files, the exact head and the counter takes a receipt back or forks it.
AcceptedExtends == [][IsPrefix(accepted, accepted')]_vars

\* An interruption never costs the anchor: with its own files in place, and in
\* the identity it was provisioned in, recovery finishes or discards what was
\* begun.
InterruptedIsRecoverable ==
    backup = None /\ Unlocked /\ identity = files.committed.id => Recoverable
=============================================================================
