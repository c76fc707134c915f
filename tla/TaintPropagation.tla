------------------------- MODULE TaintPropagation --------------------------
(***************************************************************************)
(* How labels travel in a protected cgroup: the file_permission hook, the  *)
(* fork tracepoint and the connect programs of kernel/bpf/                 *)
(* aegis_taint.bpf.c.                                                      *)
(*                                                                         *)
(* Tasks are threads of processes; the label maps are keyed by process and *)
(* by file.  A union is a lookup and, later, an update of the whole entry; *)
(* hooks of different tasks interleave between the two.  An update that    *)
(* adds a key fails when the map is full, and any update may fail.  The    *)
(* data moves after the hook has returned; know and content follow the     *)
(* data itself, and are what the labels are compared with.  Entries are    *)
(* never removed, and a TGID is used again.  The source continuity of      *)
(* TaintRecovery is taken as intact.                                       *)
(***************************************************************************)
EXTENDS Naturals, FiniteSets

CONSTANTS
    Tasks,       \* threads
    ProcOf,      \* the process (TGID) of each
    Files,
    Source,      \* labels of each enrolled file, aegis_tsrc
    Allowed,     \* the cgroup's allow-mask, aegis_tallow
    Capacity,    \* entries that fit in aegis_ptaint
    Overlap,     \* hooks of different tasks overlap
    MaxFaults,   \* bound: updates that fail below capacity
    None

Procs == {ProcOf[t] : t \in Tasks}
Labels == UNION {Source[f] : f \in Files}

ASSUME PropagationAssumption ==
    /\ ProcOf \in [Tasks -> Procs] /\ Source \in [Files -> SUBSET Labels]
    /\ Allowed \subseteq Labels /\ Overlap \in BOOLEAN
    /\ Capacity \in Nat /\ MaxFaults \in Nat
    /\ \A s \in SUBSET Labels : s # None

VARIABLES
    ptaint,   \* aegis_ptaint: labels of a process, None when it has no entry
    ftaint,   \* aegis_ftaint: labels propagated to a file
    fail,     \* aegis_tfail is non-zero
    born,     \* processes that exist
    task,     \* the hook or system call each task is in
    direct,   \* history: labels of the enrolled files a process has read
    know,     \* history: labels of all the data it has got hold of
    content,  \* history: labels of the data written to a file
    opened,   \* history: the last connect, if it was admitted
    faults

maps == <<ptaint, ftaint, fail>>
data == <<direct, know, content>>
vars == <<ptaint, ftaint, fail, born, task, direct, know, content, opened, faults>>

Idle == [pc |-> "idle"]
Get(e) == IF e = None THEN {} ELSE e
At(t, pc) == ProcOf[t] \in born /\ task[t].pc = pc
Set(t, r) == task' = [task EXCEPT ![t] = r]

\* A task enters the kernel.
Enter(t) ==
    /\ At(t, "idle") /\ (Overlap \/ \A u \in Tasks : task[u] = Idle)
    /\ opened' = None

-----------------------------------------------------------------------------
\* mark_failure: the counter becomes non-zero.
MarkFailure == fail' = TRUE

\* bpf_map_update_elem on aegis_ptaint: a full map takes no new key.
Full(p) == ptaint[p] = None /\ Cardinality({q \in Procs : ptaint[q] # None}) >= Capacity

Stored(p, labels) == ~Full(p) /\ ptaint' = [ptaint EXCEPT ![p] = labels] /\ UNCHANGED <<fail, faults>>

\* An update that fails is counted against the cgroup.
Refused(full) ==
    /\ full \/ faults < MaxFaults
    /\ faults' = IF full THEN faults ELSE faults + 1
    /\ MarkFailure

-----------------------------------------------------------------------------
(* aegis_fperm, MAY_WRITE.                                                 *)

\* The identity of the file cannot be read: the access is refused.
Unidentified(t) ==
    /\ Enter(t)
    /\ Refused(FALSE)
    /\ UNCHANGED <<ptaint, ftaint, data, born, task>>

\* The labels of the writer and of the file are looked up.  A process without
\* labels goes straight to the write.
WriteLookup(t, f) ==
    /\ Enter(t)
    /\ LET labels == Get(ptaint[ProcOf[t]]) IN
       Set(t, IF labels = {} THEN [pc |-> "write", file |-> f, labels |-> {}]
              ELSE [pc |-> "mark", file |-> f, labels |-> labels \cup ftaint[f]])
    /\ UNCHANGED <<maps, data, born, faults>>

\* The file's entry is replaced by the union, or the write is refused.
WriteUpdate(t) ==
    /\ At(t, "mark")
    /\ \/ /\ ftaint' = [ftaint EXCEPT ![task[t].file] = task[t].labels]
          /\ Set(t, [task[t] EXCEPT !.pc = "write"])
          /\ UNCHANGED <<fail, faults>>
       \/ Refused(FALSE) /\ Set(t, Idle) /\ UNCHANGED ftaint
    /\ UNCHANGED <<ptaint, data, born, opened>>

\* The write itself.
Write(t) ==
    /\ At(t, "write")
    /\ content' = [content EXCEPT ![task[t].file] = @ \cup know[ProcOf[t]]]
    /\ Set(t, Idle)
    /\ UNCHANGED <<maps, direct, know, born, opened, faults>>

-----------------------------------------------------------------------------
(* aegis_fperm, MAY_READ.                                                  *)

\* Mutant: only the enrolled labels are looked at.
FileLabelsEnrolled(f) == Source[f]

\* The labels of the file, as a source and as propagated.
FileLabels(f) == Source[f] \cup ftaint[f]

ReadLookup(t, f) ==
    /\ Enter(t)
    /\ Set(t, [pc |-> IF FileLabels(f) = {} THEN "read" ELSE "join", file |-> f, labels |-> FileLabels(f)])
    /\ UNCHANGED <<maps, data, born, faults>>

\* Mutant: the entry is replaced, not joined.
UnionLookupFresh(t) ==
    /\ At(t, "join")
    /\ Set(t, [task[t] EXCEPT !.pc = "union"])
    /\ UNCHANGED <<maps, data, born, opened, faults>>

\* union_process_taint: the process's entry is looked up,
UnionLookup(t) ==
    /\ At(t, "join")
    /\ Set(t, [task[t] EXCEPT !.pc = "union", !.labels = @ \cup Get(ptaint[ProcOf[t]])])
    /\ UNCHANGED <<maps, data, born, opened, faults>>

\* and replaced by the union, or the read is refused.
UnionUpdate(t) ==
    /\ At(t, "union")
    /\ \/ Stored(ProcOf[t], task[t].labels) /\ Set(t, [task[t] EXCEPT !.pc = "read"])
       \/ Refused(Full(ProcOf[t])) /\ Set(t, Idle) /\ UNCHANGED ptaint
    /\ UNCHANGED <<ftaint, data, born, opened>>

\* The read itself.
Read(t) ==
    LET p == ProcOf[t]  f == task[t].file IN
    /\ At(t, "read")
    /\ direct' = [direct EXCEPT ![p] = @ \cup Source[f]]
    /\ know' = [know EXCEPT ![p] = @ \cup Source[f] \cup content[f]]
    /\ Set(t, Idle)
    /\ UNCHANGED <<maps, content, born, opened, faults>>

-----------------------------------------------------------------------------
(* aegis_fork.  The child has the parent's memory and runs once the        *)
(* tracepoint has returned; a new thread has its parent's own key.         *)

ForkLookup(t, p) ==
    /\ Enter(t) /\ (p = ProcOf[t] \/ p \notin born)
    /\ \A u \in Tasks : task[u].pc = "fork" => task[u].child # p
    /\ Set(t, [pc |-> "fork", child |-> p, labels |-> Get(ptaint[ProcOf[t]]),
               direct |-> direct[ProcOf[t]], know |-> know[ProcOf[t]]])
    /\ UNCHANGED <<maps, data, born, faults>>

\* The parent's labels, if it has any, replace what the child's TGID had.  The
\* child's TGID may also be unreadable.
CopyLabels(p, labels) ==
    \/ labels = {} /\ UNCHANGED <<ptaint, fail, faults>>
    \/ labels # {} /\ Stored(p, labels)
    \/ Refused(labels # {} /\ Full(p)) /\ UNCHANGED ptaint

ForkCopy(t) ==
    LET p == task[t].child IN
    /\ At(t, "fork")
    /\ CopyLabels(p, task[t].labels)
    /\ IF p \in born THEN UNCHANGED <<born, direct, know>>
       ELSE /\ born' = born \cup {p}
            /\ direct' = [direct EXCEPT ![p] = task[t].direct]
            /\ know' = [know EXCEPT ![p] = task[t].know]
    /\ Set(t, Idle)
    /\ UNCHANGED <<ftaint, content, opened>>

\* A process other than the last exits.  No program removes its entry.
Exit(p) ==
    /\ p \in born /\ born # {p}
    /\ \A t \in Tasks : ProcOf[t] = p => task[t] = Idle
    /\ born' = born \ {p}
    /\ direct' = [direct EXCEPT ![p] = {}]
    /\ know' = [know EXCEPT ![p] = {}]
    /\ opened' = None
    /\ UNCHANGED <<maps, task, content, faults>>

-----------------------------------------------------------------------------
(* enforce_taint_egress: the process's labels, then the failure counter    *)
(* and the allow-mask.                                                     *)

ConnectLookup(t) ==
    /\ Enter(t)
    /\ Set(t, [pc |-> "connect", labels |-> Get(ptaint[ProcOf[t]]),
               direct |-> direct[ProcOf[t]], know |-> know[ProcOf[t]]])
    /\ UNCHANGED <<maps, data, born, faults>>

Admits(labels) == ~fail /\ labels \subseteq Allowed

ConnectVerdict(t) ==
    /\ At(t, "connect")
    /\ opened' = IF Admits(task[t].labels) THEN [direct |-> task[t].direct, know |-> task[t].know] ELSE None
    /\ Set(t, Idle)
    /\ UNCHANGED <<maps, data, born, faults>>

-----------------------------------------------------------------------------
Init ==
    /\ ptaint = [p \in Procs |-> None]
    /\ ftaint = [f \in Files |-> {}]
    /\ fail = FALSE
    /\ born \in {{p} : p \in Procs}
    /\ task = [t \in Tasks |-> Idle]
    /\ direct = [p \in Procs |-> {}] /\ know = [p \in Procs |-> {}]
    /\ content = [f \in Files |-> {}]
    /\ opened = None /\ faults = 0

Next ==
    \/ \E t \in Tasks :
          \/ \E f \in Files : WriteLookup(t, f) \/ ReadLookup(t, f)
          \/ Unidentified(t) \/ WriteUpdate(t) \/ Write(t)
          \/ UnionLookup(t) \/ UnionUpdate(t) \/ Read(t)
          \/ \E p \in Procs : ForkLookup(t, p)
          \/ ForkCopy(t)
          \/ ConnectLookup(t) \/ ConnectVerdict(t)
    \/ \E p \in Procs : Exit(p)

Spec == Init /\ [][Next]_vars

-----------------------------------------------------------------------------
(* Properties.                                                             *)

Hooks ==
    {Idle}
    \cup [pc : {"mark", "write", "join", "union", "read"}, file : Files, labels : SUBSET Labels]
    \cup [pc : {"fork"}, child : Procs, labels : SUBSET Labels, direct : SUBSET Labels, know : SUBSET Labels]
    \cup [pc : {"connect"}, labels : SUBSET Labels, direct : SUBSET Labels, know : SUBSET Labels]

\* The maps hold labels, and only tasks of processes that exist are in a hook.
TypeOK ==
    /\ ptaint \in [Procs -> (SUBSET Labels) \cup {None}] /\ ftaint \in [Files -> SUBSET Labels]
    /\ fail \in BOOLEAN /\ born \in SUBSET Procs /\ born # {} /\ faults \in 0..MaxFaults
    /\ task \in [Tasks -> Hooks]
    /\ direct \in [Procs -> SUBSET Labels] /\ know \in [Procs -> SUBSET Labels]
    /\ content \in [Files -> SUBSET Labels]
    /\ \A t \in Tasks : task[t] # Idle => ProcOf[t] \in born

\* A process that has read an enrolled file, or was forked by one that had,
\* carries its labels or the cgroup's failure counter is set, however the hooks
\* of single-threaded processes overlap: the read goes on only once the union is
\* recorded, and a child whose entry does not fit is a counted failure.
ReaderIsLabelled == \A p \in born : ~fail => direct[p] \subseteq Get(ptaint[p])

\* A connect is admitted only to a process whose enrolled reads, and those of
\* the processes it descends from, the allow-mask covers.
ReadersEgressAdmitted == opened # None => opened.direct \subseteq Allowed

\* Labels follow every enrolled read of a single-threaded process to its connects.
LabelsFollowReads == TypeOK /\ ReaderIsLabelled /\ ReadersEgressAdmitted

\* When hooks do not overlap, labels follow the data through any chain of
\* processes and files: a connect is admitted only to a process that got hold of
\* no data outside the allow-mask.
DataEgressAdmitted == opened # None => opened.know \subseteq Allowed

\* No live process loses a label, however the hooks of single-threaded processes
\* overlap: its entry is replaced only by its own union or by its own clone.
ProcessLabelsKept == [][\A p \in born : Get(ptaint[p]) \subseteq Get(ptaint'[p])]_vars

\* Propagation is monotonic: no live process and no file loses a label.
PropagationMonotonic == ProcessLabelsKept /\ [][\A f \in Files : ftaint[f] \subseteq ftaint'[f]]_vars

\* A tainted process's write leaves its labels with the file: once the write is
\* done, a later reader finds the labels of the data.
WriteLabelsFile == \A f \in Files : ~fail => content[f] \subseteq FileLabels(f)

\* Labels follow the data when hooks do not overlap.
LabelsFollowData == DataEgressAdmitted /\ WriteLabelsFile

-----------------------------------------------------------------------------
(* The inductive invariant of TaintPropagationProofs.                      *)

SingleThreaded == \A t, u \in Tasks : ProcOf[t] = ProcOf[u] => t = u

\* A fork is into a TGID nobody has, which no other fork is into, or is a clone.
ForkTarget(t) ==
    task[t].pc = "fork" =>
        /\ \A u \in Tasks : task[u].pc = "fork" /\ task[u].child = task[t].child => u = t
        /\ task[t].child # ProcOf[t] => task[t].child \notin born

\* What a hook has looked up is still what it needs when it goes on.
ReadHook(t) ==
    LET h == task[t]  p == ProcOf[t] IN
    /\ h.pc \in {"join", "union"} => Source[h.file] \subseteq h.labels
    /\ h.pc = "union" => Get(ptaint[p]) \subseteq h.labels
    /\ h.pc = "read" /\ ~fail => Source[h.file] \subseteq Get(ptaint[p])
    /\ h.pc \in {"fork", "connect"} /\ ~fail => h.direct \subseteq h.labels
    /\ h.pc = "fork" /\ h.child = p => h.direct = direct[p] /\ h.labels = Get(ptaint[p])

ReadInv == LabelsFollowReads /\ \A t \in Tasks : ForkTarget(t) /\ ReadHook(t)
=============================================================================
