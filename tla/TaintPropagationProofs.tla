----------------------- MODULE TaintPropagationProofs -----------------------
(***************************************************************************)
(* Proofs about TaintPropagation, for any tasks, processes, files, labels, *)
(* allow-mask, capacity and number of failed updates: however their hooks  *)
(* overlap, labels follow the reads of single-threaded processes, and no   *)
(* live process loses a label.                                             *)
(***************************************************************************)
EXTENDS TaintPropagation, TLAPS

FileHooks == [pc : {"mark", "write", "join", "union", "read"}, file : Files, labels : SUBSET Labels]
ForkHooks == [pc : {"fork"}, child : Procs, labels : SUBSET Labels, direct : SUBSET Labels, know : SUBSET Labels]
ConnectHooks == [pc : {"connect"}, labels : SUBSET Labels, direct : SUBSET Labels, know : SUBSET Labels]

\* A hook's entry as its fields.
Hook(l, f, s) == [pc |-> l, file |-> f, labels |-> s]

\* A task that is in a hook has the fields the hook needs.
LEMMA HookFields ==
  ASSUME TypeOK, NEW t \in Tasks
  PROVE  /\ ProcOf[t] \in Procs
         /\ task[t].pc = "idle" <=> task[t] = Idle
         /\ task[t].pc \in {"mark", "write", "join", "union", "read"} => task[t] \in FileHooks
         /\ task[t].pc = "fork" => task[t] \in ForkHooks
         /\ task[t].pc = "connect" => task[t] \in ConnectHooks
<1>1. ProcOf[t] \in Procs
  BY Zenon DEF Procs
<1>2. \/ task[t] = Idle \/ task[t] \in FileHooks \/ task[t] \in ForkHooks \/ task[t] \in ConnectHooks
  BY Zenon DEF TypeOK, Hooks, FileHooks, ForkHooks, ConnectHooks
<1>3. CASE task[t] = Idle
  BY <1>1, <1>3 DEF Idle
<1>4. CASE task[t] \in FileHooks
  BY <1>1, <1>4 DEF Idle, FileHooks
<1>5. CASE task[t] \in ForkHooks
  BY <1>1, <1>5 DEF Idle, ForkHooks
<1>6. CASE task[t] \in ConnectHooks
  BY <1>1, <1>6 DEF Idle, ConnectHooks
<1> QED BY <1>2, <1>3, <1>4, <1>5, <1>6, Zenon

\* A step of a hook changes the label and the labels of its entry only.
LEMMA HookSteps ==
  ASSUME NEW h \in FileHooks, NEW l \in {"write", "union", "read"}, NEW s \in SUBSET Labels
  PROVE  /\ [h EXCEPT !.pc = l] = Hook(l, h.file, h.labels)
         /\ [h EXCEPT !.pc = l, !.labels = s] = Hook(l, h.file, s)
         /\ h.file \in Files /\ h.labels \in SUBSET Labels
         /\ Hook(l, h.file, h.labels) \in Hooks /\ Hook(l, h.file, s) \in Hooks
<1>1. h.file \in Files /\ h.labels \in SUBSET Labels /\ h = [pc |-> h.pc, file |-> h.file, labels |-> h.labels]
  BY Zenon DEF FileHooks
<1>2. [h EXCEPT !.pc = l] = Hook(l, h.file, h.labels)
  BY <1>1 DEF Hook
<1>3. [h EXCEPT !.pc = l, !.labels = s] = Hook(l, h.file, s)
  <2>1. [h EXCEPT !.pc = l, !.labels = s] = [[h EXCEPT !.pc = l] EXCEPT !.labels = s]
    BY Zenon
  <2>2. [[h EXCEPT !.pc = l] EXCEPT !.labels = s] = [Hook(l, h.file, h.labels) EXCEPT !.labels = s]
    BY <1>2, Zenon
  <2>3. [Hook(l, h.file, h.labels) EXCEPT !.labels = s] = Hook(l, h.file, s)
    BY DEF Hook
  <2> QED BY <2>1, <2>2, <2>3, Zenon
<1>4. Hook(l, h.file, h.labels) \in Hooks /\ Hook(l, h.file, s) \in Hooks
  BY <1>1, Zenon DEF Hook, Hooks
<1> QED BY <1>1, <1>2, <1>3, <1>4, Zenon

\* The labels a hook works with are labels.
LEMMA LabelFacts ==
  ASSUME TypeOK
  PROVE  /\ \A p \in Procs : Get(ptaint[p]) \in SUBSET Labels
         /\ \A f \in Files : FileLabels(f) \in SUBSET Labels /\ Source[f] \in SUBSET Labels
         /\ Get(None) = {} /\ \A s \in SUBSET Labels : Get(s) = s
BY PropagationAssumption, Zenon DEF TypeOK, Get, FileLabels

\* What a step makes of a task is a hook, and the task's process exists.
LEMMA SetType ==
  ASSUME TypeOK, NEW t \in Tasks, ProcOf[t] \in born, NEW r \in Hooks, Set(t, r)
  PROVE  /\ task' \in [Tasks -> Hooks] /\ task'[t] = r /\ \A u \in Tasks \ {t} : task'[u] = task[u]
         /\ \A u \in Tasks : task'[u] # Idle => ProcOf[u] \in born
BY Zenon DEF TypeOK, Set

\* Every step keeps the types.
LEMMA TypeInd == TypeOK /\ [Next]_vars => TypeOK'
<1> SUFFICES ASSUME TypeOK, [Next]_vars PROVE TypeOK'
  BY Zenon
<1> USE LabelFacts, PropagationAssumption
<1>0. Idle \in Hooks
  BY Zenon DEF Hooks
<1>1. ASSUME NEW t \in Tasks, NEW f \in Files, WriteLookup(t, f) PROVE TypeOK'
  <2> DEFINE labels == Get(ptaint[ProcOf[t]])
             r == IF labels = {} THEN Hook("write", f, {}) ELSE Hook("mark", f, labels \cup ftaint[f])
  <2>1. labels \in SUBSET Labels /\ ftaint[f] \in SUBSET Labels
    BY HookFields, Zenon DEF TypeOK
  <2>2. r \in Hooks
    BY <2>1, Zenon DEF Hook, Hooks
  <2>3. Set(t, r) /\ ProcOf[t] \in born /\ UNCHANGED <<maps, data, born, faults>>
    BY <1>1, Zenon DEF WriteLookup, Enter, At, Hook
  <2> QED BY <2>2, <2>3, SetType, Zenon DEF TypeOK, maps, data
<1>2. ASSUME NEW t \in Tasks, NEW f \in Files, ReadLookup(t, f) PROVE TypeOK'
  <2> DEFINE r == Hook(IF FileLabels(f) = {} THEN "read" ELSE "join", f, FileLabels(f))
  <2>1. r \in Hooks
    BY Zenon DEF Hook, Hooks
  <2>2. Set(t, r) /\ ProcOf[t] \in born /\ UNCHANGED <<maps, data, born, faults>>
    BY <1>2, Zenon DEF ReadLookup, Enter, At, Hook
  <2> QED BY <2>1, <2>2, SetType, Zenon DEF TypeOK, maps, data
<1>3. ASSUME NEW t \in Tasks, Unidentified(t) PROVE TypeOK'
  BY <1>3 DEF Unidentified, Refused, MarkFailure, TypeOK, data
<1>4. ASSUME NEW t \in Tasks, WriteUpdate(t) PROVE TypeOK'
  <2>1. task[t] \in FileHooks /\ ProcOf[t] \in born
    BY <1>4, HookFields, Zenon DEF WriteUpdate, At
  <2>2. CASE Set(t, [task[t] EXCEPT !.pc = "write"]) /\ ftaint' = [ftaint EXCEPT ![task[t].file] = task[t].labels] /\ UNCHANGED <<fail, faults>>
    <3>1. Set(t, Hook("write", task[t].file, task[t].labels)) /\ Hook("write", task[t].file, task[t].labels) \in Hooks
          /\ task[t].file \in Files /\ task[t].labels \in SUBSET Labels
      BY <2>1, <2>2, HookSteps, Zenon
    <3> QED BY <1>4, <2>1, <2>2, <3>1, SetType, Zenon DEF WriteUpdate, TypeOK, data
  <2>3. CASE Refused(FALSE) /\ Set(t, Idle) /\ UNCHANGED ftaint
    BY <1>4, <1>0, <2>1, <2>3, SetType DEF WriteUpdate, TypeOK, data, Refused, MarkFailure
  <2> QED BY <1>4, <2>2, <2>3, Zenon DEF WriteUpdate
<1>5. ASSUME NEW t \in Tasks, Write(t) PROVE TypeOK'
  <2>1. task[t] \in FileHooks /\ ProcOf[t] \in born /\ task[t].file \in Files /\ ProcOf[t] \in Procs
    BY <1>5, HookFields, HookSteps, Zenon DEF Write, At, FileHooks
  <2> QED BY <1>0, <1>5, <2>1, SetType DEF Write, TypeOK, maps
<1>6. ASSUME NEW t \in Tasks, UnionLookup(t) PROVE TypeOK'
  <2>1. task[t] \in FileHooks /\ ProcOf[t] \in born /\ Get(ptaint[ProcOf[t]]) \in SUBSET Labels
    BY <1>6, HookFields, Zenon DEF UnionLookup, At
  <2>2. task[t].labels \cup Get(ptaint[ProcOf[t]]) \in SUBSET Labels
    BY <2>1, Zenon DEF FileHooks
  <2> DEFINE s == task[t].labels \cup Get(ptaint[ProcOf[t]])
  <2>3. Set(t, [task[t] EXCEPT !.pc = "union", !.labels = s]) /\ s \in SUBSET Labels
    BY <1>6, <2>2, Zenon DEF UnionLookup
  <2> HIDE DEF s
  <2>4. Set(t, Hook("union", task[t].file, s)) /\ Hook("union", task[t].file, s) \in Hooks
    BY <2>1, <2>3, HookSteps, Zenon
  <2> QED BY <1>6, <2>1, <2>4, SetType, Zenon DEF UnionLookup, TypeOK, maps, data
<1>7. ASSUME NEW t \in Tasks, UnionUpdate(t) PROVE TypeOK'
  <2>1. task[t] \in FileHooks /\ ProcOf[t] \in born /\ ProcOf[t] \in Procs
    BY <1>7, HookFields, Zenon DEF UnionUpdate, At
  <2>2. CASE Stored(ProcOf[t], task[t].labels) /\ Set(t, [task[t] EXCEPT !.pc = "read"])
    <3>1. Set(t, Hook("read", task[t].file, task[t].labels)) /\ Hook("read", task[t].file, task[t].labels) \in Hooks
          /\ task[t].labels \in SUBSET Labels
      BY <2>1, <2>2, HookSteps, Zenon
    <3> QED BY <1>7, <2>1, <2>2, <3>1, SetType, Zenon DEF UnionUpdate, Stored, TypeOK, data
  <2>3. CASE Refused(Full(ProcOf[t])) /\ Set(t, Idle) /\ UNCHANGED ptaint
    BY <1>7, <1>0, <2>1, <2>3, SetType DEF UnionUpdate, TypeOK, data, Refused, MarkFailure
  <2> QED BY <1>7, <2>2, <2>3, Zenon DEF UnionUpdate
<1>8. ASSUME NEW t \in Tasks, Read(t) PROVE TypeOK'
  <2>1. task[t] \in FileHooks /\ ProcOf[t] \in born /\ task[t].file \in Files /\ ProcOf[t] \in Procs
    BY <1>8, HookFields, Zenon DEF Read, At, FileHooks
  <2> QED BY <1>0, <1>8, <2>1, SetType DEF Read, TypeOK, maps
<1>9. ASSUME NEW t \in Tasks, NEW p \in Procs, ForkLookup(t, p) PROVE TypeOK'
  <2> DEFINE r == [pc |-> "fork", child |-> p, labels |-> Get(ptaint[ProcOf[t]]),
                   direct |-> direct[ProcOf[t]], know |-> know[ProcOf[t]]]
  <2>1. r \in Hooks
    BY HookFields, Zenon DEF Hooks, TypeOK
  <2> QED BY <1>9, <2>1, SetType, Zenon DEF ForkLookup, Enter, At, TypeOK, maps, data
<1>10. ASSUME NEW t \in Tasks, ForkCopy(t) PROVE TypeOK'
  <2>1. task[t] \in ForkHooks /\ ProcOf[t] \in born
    BY <1>10, HookFields, Zenon DEF ForkCopy, At
  <2>2. task[t].child \in Procs /\ task[t].labels \in SUBSET Labels
        /\ task[t].direct \in SUBSET Labels /\ task[t].know \in SUBSET Labels
    BY <2>1, Zenon DEF ForkHooks
  <2>3. /\ ptaint' \in [Procs -> (SUBSET Labels) \cup {None}] /\ fail' \in BOOLEAN /\ faults' \in 0..MaxFaults
    <3>1. CopyLabels(task[t].child, task[t].labels)
      BY <1>10, Zenon DEF ForkCopy
    <3>2. CASE UNCHANGED <<ptaint, fail, faults>>
      BY <3>2, Zenon DEF TypeOK
    <3>3. CASE Stored(task[t].child, task[t].labels)
      BY <2>2, <3>3, Zenon DEF Stored, TypeOK
    <3>4. CASE (\E b \in BOOLEAN : Refused(b)) /\ UNCHANGED ptaint
      BY <3>4 DEF Refused, MarkFailure, TypeOK
    <3>5. (task[t].labels # {} /\ Full(task[t].child)) \in BOOLEAN
      BY Zenon
    <3> QED BY <3>1, <3>2, <3>3, <3>4, <3>5, Zenon DEF CopyLabels
  <2>4. /\ born' \in SUBSET Procs /\ born \subseteq born'
        /\ direct' \in [Procs -> SUBSET Labels] /\ know' \in [Procs -> SUBSET Labels]
    BY <1>10, <2>2 DEF ForkCopy, TypeOK
  <2> QED BY <1>0, <1>10, <2>1, <2>3, <2>4, SetType, Zenon DEF ForkCopy, TypeOK
<1>11. ASSUME NEW t \in Tasks, ConnectLookup(t) PROVE TypeOK'
  <2> DEFINE r == [pc |-> "connect", labels |-> Get(ptaint[ProcOf[t]]),
                   direct |-> direct[ProcOf[t]], know |-> know[ProcOf[t]]]
  <2>1. r \in Hooks
    BY HookFields, Zenon DEF Hooks, TypeOK
  <2> QED BY <1>11, <2>1, SetType, Zenon DEF ConnectLookup, Enter, At, TypeOK, maps, data
<1>12. ASSUME NEW t \in Tasks, ConnectVerdict(t) PROVE TypeOK'
  BY <1>0, <1>12, SetType, Zenon DEF ConnectVerdict, At, TypeOK, maps, data
<1>13. ASSUME NEW p \in Procs, Exit(p) PROVE TypeOK'
  BY <1>13 DEF Exit, TypeOK, maps
<1>14. CASE UNCHANGED vars
  BY <1>14, Zenon DEF vars, TypeOK
<1> QED BY <1>1, <1>2, <1>3, <1>4, <1>5, <1>6, <1>7, <1>8, <1>9, <1>10, <1>11, <1>12, <1>13, <1>14, Zenon DEF Next

-----------------------------------------------------------------------------
\* The invariant about the targets of forks: a fork that ends adds its own target
\* to the processes, which no other fork has.
LEMMA ForkKept ==
  ASSUME TypeOK, \A u \in Tasks : ForkTarget(u), NEW t \in Tasks,
         \A u \in Tasks \ {t} : task'[u] = task[u], task'[t].pc # "fork",
         \A p \in born' : p \in born \/ (task[t].pc = "fork" /\ p = task[t].child)
  PROVE  \A u \in Tasks : ForkTarget(u)'
BY DEF ForkTarget

\* A fork that begins is into a TGID that no process and no other fork has.
LEMMA ForkBegun ==
  ASSUME TypeOK, \A u \in Tasks : ForkTarget(u), NEW t \in Tasks, NEW p \in Procs, ForkLookup(t, p)
  PROVE  \A u \in Tasks : ForkTarget(u)'
<1>1. task'[t].pc = "fork" /\ task'[t].child = p /\ \A u \in Tasks \ {t} : task'[u] = task[u]
  BY Zenon DEF ForkLookup, Set, TypeOK
<1>2. \A u \in Tasks : task[u].pc = "fork" => task[u].child # p
  BY Zenon DEF ForkLookup
<1>3. born' = born /\ (p = ProcOf[t] \/ p \notin born)
  BY Zenon DEF ForkLookup
<1> QED BY <1>1, <1>2, <1>3 DEF ForkTarget

\* A step of one hook keeps the invariant when it keeps it for that hook's task
\* and process: the other tasks see neither of them change.
LEMMA ReadStep ==
  ASSUME ReadInv, TypeOK', \A u \in Tasks : ForkTarget(u)', NEW t \in Tasks, ~fail' => ~fail,
         \A u \in Tasks \ {t} :
            /\ task'[u] = task[u]
            /\ task[u] # Idle => ptaint'[ProcOf[u]] = ptaint[ProcOf[u]] /\ direct'[ProcOf[u]] = direct[ProcOf[u]],
         ReaderIsLabelled', ReadHook(t)',
         opened' # None => opened' = opened \/ opened'.direct \subseteq Allowed
  PROVE  ReadInv'
<1>1. ASSUME NEW u \in Tasks \ {t} PROVE ReadHook(u)'
  <2>1. CASE task[u] = Idle
    BY <2>1 DEF Idle, ReadHook
  <2>2. CASE task[u] # Idle
    BY <2>2, ZenonT(30) DEF ReadInv, ReadHook
  <2> QED BY <2>1, <2>2, Zenon
<1>2. ReadersEgressAdmitted'
  BY Zenon DEF ReadersEgressAdmitted, ReadInv, LabelsFollowReads
<1> QED BY <1>1, <1>2, Zenon DEF ReadInv, LabelsFollowReads

\* Every step keeps the invariant.
LEMMA ReadInd == ASSUME SingleThreaded PROVE ReadInv /\ [Next]_vars => ReadInv'
<1> SUFFICES ASSUME ReadInv, [Next]_vars PROVE ReadInv'
  BY Zenon
<1>0. /\ TypeOK /\ TypeOK' /\ ReaderIsLabelled /\ ReadersEgressAdmitted
      /\ \A u \in Tasks : ForkTarget(u) /\ ReadHook(u)
  BY TypeInd, Zenon DEF ReadInv, LabelsFollowReads
<1> USE <1>0
<1>a. ASSUME NEW t \in Tasks, NEW u \in Tasks \ {t} PROVE ProcOf[u] # ProcOf[t]
  BY Zenon DEF SingleThreaded
<1>b. ASSUME NEW t \in Tasks, NEW r, Set(t, r) PROVE task'[t] = r /\ \A u \in Tasks \ {t} : task'[u] = task[u]
  BY <1>b, Zenon DEF Set, TypeOK
<1>c. ASSUME NEW t \in Tasks, task'[t] = Idle PROVE ReadHook(t)' /\ task'[t].pc # "fork"
  BY <1>c DEF Idle, ReadHook
<1>d. ASSUME NEW t \in Tasks, \A u \in Tasks \ {t} : task'[u] = task[u], task'[t].pc # "fork", born' = born
      PROVE  \A u \in Tasks : ForkTarget(u)'
  <2>1. \A p \in born' : p \in born \/ (task[t].pc = "fork" /\ p = task[t].child)
    BY <1>d, Zenon
  <2>2. \A u \in Tasks : ForkTarget(u)
    BY Zenon
  <2> QED BY <1>d, <2>1, <2>2, ForkKept, Zenon
<1>e. ASSUME UNCHANGED <<ptaint, direct, born>>, ~fail' => ~fail PROVE ReaderIsLabelled'
  BY <1>e, Zenon DEF ReaderIsLabelled
<1>1. ASSUME NEW t \in Tasks, NEW f \in Files, WriteLookup(t, f) PROVE ReadInv'
  <2>1. /\ task'[t].pc \in {"write", "mark"} /\ \A u \in Tasks \ {t} : task'[u] = task[u]
    BY <1>1, Zenon DEF WriteLookup, Set, TypeOK
  <2>2. UNCHANGED <<ptaint, fail, direct, born>> /\ opened' = None
    BY <1>1, Zenon DEF WriteLookup, Enter, maps, data
  <2>3. ReadHook(t)'
    BY <2>1, <2>2, Zenon DEF ReadHook
  <2>4. ReaderIsLabelled' /\ \A u \in Tasks : ForkTarget(u)'
    BY <1>d, <1>e, <2>1, <2>2, Zenon
  <2> QED BY <2>1, <2>2, <2>3, <2>4, ReadStep, Zenon
<1>2. ASSUME NEW t \in Tasks, NEW f \in Files, ReadLookup(t, f) PROVE ReadInv'
  <2>1. /\ task'[t] = Hook(IF FileLabels(f) = {} THEN "read" ELSE "join", f, FileLabels(f))
        /\ \A u \in Tasks \ {t} : task'[u] = task[u]
    BY <1>2, <1>b, Zenon DEF ReadLookup, Hook
  <2>2. UNCHANGED <<ptaint, ftaint, fail, direct, born>> /\ opened' = None
    BY <1>2, Zenon DEF ReadLookup, Enter, maps, data
  <2>3. task'[t].file = f /\ task'[t].labels = FileLabels(f) /\ task'[t].pc = IF FileLabels(f) = {} THEN "read" ELSE "join"
    BY <2>1 DEF Hook
  <2>4. Source[f] \subseteq FileLabels(f)
    BY Zenon DEF FileLabels
  <2>5. ReadHook(t)' /\ task'[t].pc # "fork"
    BY <2>3, <2>4, Zenon DEF ReadHook
  <2>6. ReaderIsLabelled' /\ \A u \in Tasks : ForkTarget(u)'
    BY <1>d, <1>e, <2>1, <2>2, <2>5, Zenon
  <2> QED BY <2>1, <2>2, <2>5, <2>6, ReadStep, Zenon
<1>3. ASSUME NEW t \in Tasks, Unidentified(t) PROVE ReadInv'
  <2>1. UNCHANGED <<ptaint, direct, born, task>> /\ fail' /\ opened' = None
    BY <1>3, Zenon DEF Unidentified, Enter, Refused, MarkFailure, data
  <2> QED BY <2>1, Zenon DEF ReadInv, LabelsFollowReads, ReaderIsLabelled, ReadersEgressAdmitted, ReadHook, ForkTarget
<1>4. ASSUME NEW t \in Tasks, WriteUpdate(t) PROVE ReadInv'
  <2>1. UNCHANGED <<ptaint, direct, born, opened>> /\ (~fail' => ~fail)
    BY <1>4 DEF WriteUpdate, Refused, MarkFailure, data
  <2>2. task'[t].pc \in {"write", "idle"} /\ \A u \in Tasks \ {t} : task'[u] = task[u]
    <3>1. task[t] \in FileHooks
      BY <1>4, HookFields, Zenon DEF WriteUpdate, At
    <3>2. [task[t] EXCEPT !.pc = "write"] = Hook("write", task[t].file, task[t].labels)
      BY <3>1, HookSteps, Zenon
    <3>3. \E r \in {Hook("write", task[t].file, task[t].labels), Idle} : Set(t, r)
      BY <1>4, <3>2, Zenon DEF WriteUpdate
    <3>4. /\ task'[t] \in {Hook("write", task[t].file, task[t].labels), Idle}
          /\ \A u \in Tasks \ {t} : task'[u] = task[u]
      BY <1>b, <3>3, Zenon
    <3> QED BY <3>4 DEF Hook, Idle
  <2>3. ReadHook(t)'
    BY <2>1, <2>2, Zenon DEF ReadHook
  <2>4. ReaderIsLabelled' /\ \A u \in Tasks : ForkTarget(u)'
    BY <1>d, <1>e, <2>1, <2>2, Zenon
  <2> QED BY <2>1, <2>2, <2>3, <2>4, ReadStep, Zenon
<1>5. ASSUME NEW t \in Tasks, Write(t) PROVE ReadInv'
  <2>1. UNCHANGED <<ptaint, fail, direct, born, opened>>
    BY <1>5, Zenon DEF Write, maps
  <2>2. task'[t] = Idle /\ \A u \in Tasks \ {t} : task'[u] = task[u]
    BY <1>5, <1>b, Zenon DEF Write
  <2>3. ReaderIsLabelled' /\ \A u \in Tasks : ForkTarget(u)'
    BY <1>c, <1>d, <1>e, <2>1, <2>2, Zenon
  <2> QED BY <1>c, <2>1, <2>2, <2>3, ReadStep, Zenon
<1>6. ASSUME NEW t \in Tasks, UnionLookup(t) PROVE ReadInv'
  <2> DEFINE s == task[t].labels \cup Get(ptaint[ProcOf[t]])
  <2>1. task[t].pc = "join" /\ task[t] \in FileHooks /\ Source[task[t].file] \subseteq task[t].labels
    BY <1>6, HookFields, Zenon DEF UnionLookup, At, ReadHook
  <2>2. UNCHANGED <<ptaint, fail, direct, born, opened>>
    BY <1>6, Zenon DEF UnionLookup, maps, data
  <2>3. s \in SUBSET Labels /\ Set(t, [task[t] EXCEPT !.pc = "union", !.labels = s])
    BY <1>6, <2>1, LabelFacts, HookFields, Zenon DEF UnionLookup, FileHooks
  <2>4. Source[task[t].file] \subseteq s /\ Get(ptaint[ProcOf[t]]) \subseteq s
    BY <2>1, Zenon
  <2> HIDE DEF s
  <2>5. Set(t, Hook("union", task[t].file, s))
    BY <2>1, <2>3, HookSteps, Zenon
  <2>6. task'[t] = Hook("union", task[t].file, s) /\ \A u \in Tasks \ {t} : task'[u] = task[u]
    BY <1>b, <2>5, Zenon
  <2>7. task'[t].pc = "union" /\ task'[t].file = task[t].file /\ task'[t].labels = s
    BY <2>6 DEF Hook
  <2>8. ReadHook(t)'
    BY <2>2, <2>4, <2>7, Zenon DEF ReadHook
  <2>9. ReaderIsLabelled' /\ \A u \in Tasks : ForkTarget(u)'
    BY <1>d, <1>e, <2>2, <2>6, <2>7, Zenon
  <2> QED BY <2>2, <2>6, <2>8, <2>9, ReadStep, Zenon
<1>7. ASSUME NEW t \in Tasks, UnionUpdate(t) PROVE ReadInv'
  <2>1. /\ task[t].pc = "union" /\ task[t] \in FileHooks /\ ProcOf[t] \in Procs
        /\ Source[task[t].file] \subseteq task[t].labels /\ Get(ptaint[ProcOf[t]]) \subseteq task[t].labels
    BY <1>7, HookFields, Zenon DEF UnionUpdate, At, ReadHook
  <2>2. UNCHANGED <<direct, born, opened>>
    BY <1>7, Zenon DEF UnionUpdate, data
  <2>3. CASE Stored(ProcOf[t], task[t].labels) /\ Set(t, [task[t] EXCEPT !.pc = "read"])
    <3>1. Set(t, Hook("read", task[t].file, task[t].labels)) /\ task[t].labels \in SUBSET Labels
      BY <2>1, <2>3, HookSteps, Zenon
    <3>2. task'[t] = Hook("read", task[t].file, task[t].labels) /\ \A u \in Tasks \ {t} : task'[u] = task[u]
      BY <1>b, <3>1, Zenon
    <3>3. task'[t].pc = "read" /\ task'[t].file = task[t].file
      BY <3>2 DEF Hook
    <3>4. fail' = fail /\ ptaint'[ProcOf[t]] = task[t].labels /\ \A p \in Procs \ {ProcOf[t]} : ptaint'[p] = ptaint[p]
      BY <2>1, <2>3, Zenon DEF Stored, TypeOK
    <3>5. Get(ptaint'[ProcOf[t]]) = task[t].labels
      BY <3>1, <3>4, LabelFacts, Zenon
    <3>6. ReadHook(t)'
      BY <2>1, <3>3, <3>5, Zenon DEF ReadHook
    <3>7. ReaderIsLabelled'
      BY <2>1, <2>2, <3>4, <3>5, Zenon DEF ReaderIsLabelled, TypeOK
    <3>8. \A u \in Tasks : ForkTarget(u)'
      BY <1>d, <2>2, <3>2, <3>3, Zenon
    <3>9. \A u \in Tasks \ {t} : ptaint'[ProcOf[u]] = ptaint[ProcOf[u]]
      BY <1>a, <3>4, HookFields, Zenon
    <3> QED BY <2>2, <3>2, <3>4, <3>6, <3>7, <3>8, <3>9, ReadStep, Zenon
  <2>4. CASE Refused(Full(ProcOf[t])) /\ Set(t, Idle) /\ UNCHANGED ptaint
    <3>1. fail' /\ task'[t] = Idle /\ \A u \in Tasks \ {t} : task'[u] = task[u]
      BY <1>b, <2>4, Zenon DEF Refused, MarkFailure
    <3>2. ReaderIsLabelled' /\ ReadHook(t)' /\ \A u \in Tasks : ForkTarget(u)'
      BY <1>c, <1>d, <1>e, <2>2, <2>4, <3>1, Zenon
    <3> QED BY <2>2, <2>4, <3>1, <3>2, ReadStep, Zenon
  <2> QED BY <1>7, <2>3, <2>4, Zenon DEF UnionUpdate
<1>8. ASSUME NEW t \in Tasks, Read(t) PROVE ReadInv'
  <2> DEFINE P == ProcOf[t]
  <2>1. /\ task[t].pc = "read" /\ task[t] \in FileHooks /\ P \in Procs
        /\ ~fail => Source[task[t].file] \subseteq Get(ptaint[P])
    BY <1>8, HookFields, Zenon DEF Read, At, ReadHook
  <2>2. UNCHANGED <<ptaint, fail, born, opened>>
    BY <1>8, Zenon DEF Read, maps
  <2>3. direct'[P] = direct[P] \cup Source[task[t].file] /\ \A p \in Procs \ {P} : direct'[p] = direct[p]
    BY <1>8, <2>1, Zenon DEF Read, TypeOK
  <2>4. task'[t] = Idle /\ \A u \in Tasks \ {t} : task'[u] = task[u]
    BY <1>8, <1>b, Zenon DEF Read
  <2>5. ReaderIsLabelled'
    BY <2>1, <2>2, <2>3, Zenon DEF ReaderIsLabelled, TypeOK
  <2>6. \A u \in Tasks \ {t} : direct'[ProcOf[u]] = direct[ProcOf[u]]
    BY <1>a, <2>3, HookFields, Zenon
  <2>7. ReadHook(t)' /\ \A u \in Tasks : ForkTarget(u)'
    BY <1>c, <1>d, <2>2, <2>4, Zenon
  <2> QED BY <2>2, <2>4, <2>5, <2>6, <2>7, ReadStep, Zenon
<1>9. ASSUME NEW t \in Tasks, NEW p \in Procs, ForkLookup(t, p) PROVE ReadInv'
  <2> DEFINE P == ProcOf[t]
  <2>1. /\ P \in born /\ P \in Procs /\ UNCHANGED <<ptaint, fail, direct, born>> /\ opened' = None
    BY <1>9, HookFields, Zenon DEF ForkLookup, Enter, At, maps, data
  <2>2. /\ task'[t].pc = "fork" /\ task'[t].labels = Get(ptaint[P]) /\ task'[t].direct = direct[P]
        /\ \A u \in Tasks \ {t} : task'[u] = task[u]
    BY <1>9, Zenon DEF ForkLookup, Set, TypeOK
  <2>3. \A u \in Tasks : ForkTarget(u)'
    BY <1>9, ForkBegun, Zenon
  <2>4. ~fail => direct[P] \subseteq Get(ptaint[P])
    BY <2>1, Zenon DEF ReaderIsLabelled
  <2>5. ReadHook(t)' /\ ReaderIsLabelled'
    BY <1>e, <2>1, <2>2, <2>4, Zenon DEF ReadHook
  <2> QED BY <2>1, <2>2, <2>3, <2>5, ReadStep, Zenon
<1>10. ASSUME NEW t \in Tasks, ForkCopy(t) PROVE ReadInv'
  <2> DEFINE P == ProcOf[t]
             c == task[t].child
             s == task[t].labels
  <2>1. /\ task[t].pc = "fork" /\ task[t] \in ForkHooks /\ P \in Procs /\ P \in born
    BY <1>10, HookFields, Zenon DEF ForkCopy, At
  <2>2. c \in Procs /\ s \in SUBSET Labels
    BY <2>1, Zenon DEF ForkHooks
  <2>3. /\ c # P => c \notin born
        /\ ~fail => task[t].direct \subseteq s
        /\ c = P => task[t].direct = direct[P]
    BY <2>1, Zenon DEF ForkTarget, ReadHook
  <2>4. task'[t] = Idle /\ \A u \in Tasks \ {t} : task'[u] = task[u]
    BY <1>10, <1>b, Zenon DEF ForkCopy
  <2>5. /\ born' = born \cup {c} /\ opened' = opened
        /\ \A p \in Procs \ {c} : direct'[p] = direct[p]
        /\ direct'[c] = task[t].direct
    BY <1>10, <2>1, <2>2, <2>3 DEF ForkCopy, TypeOK
  <2>6. /\ \A p \in Procs \ {c} : ptaint'[p] = ptaint[p]
        /\ ~fail' => ~fail /\ (s = {} \/ ptaint'[c] = s)
    <3>1. CopyLabels(c, s)
      BY <1>10, Zenon DEF ForkCopy
    <3>2. CASE s = {} /\ UNCHANGED <<ptaint, fail, faults>>
      BY <3>2, Zenon
    <3>3. CASE Stored(c, s)
      BY <2>2, <3>3, Zenon DEF Stored, TypeOK
    <3>4. CASE fail' /\ UNCHANGED ptaint
      BY <3>4, Zenon
    <3> QED BY <3>1, <3>2, <3>3, <3>4, Zenon DEF CopyLabels, Refused, MarkFailure
  <2>7. ~fail' => direct'[c] \subseteq Get(ptaint'[c])
    <3>1. ~fail' /\ s # {} => Get(ptaint'[c]) = s
      BY <2>2, <2>6, LabelFacts, Zenon
    <3> QED BY <2>3, <2>5, <2>6, <3>1, Zenon
  <2>8. ReaderIsLabelled'
    BY <2>5, <2>6, <2>7, Zenon DEF ReaderIsLabelled, TypeOK
  <2>9. ReadHook(t)' /\ task'[t].pc # "fork"
    BY <1>c, <2>4, Zenon
  <2>10. \A u \in Tasks : ForkTarget(u)'
    <3>1. \A p \in born' : p \in born \/ (task[t].pc = "fork" /\ p = task[t].child)
      BY <2>1, <2>5, Zenon
    <3>2. \A u \in Tasks : ForkTarget(u)
      BY Zenon
    <3> QED BY <2>4, <2>9, <3>1, <3>2, ForkKept, Zenon
  <2>11. \A u \in Tasks \ {t} : task[u] # Idle => ProcOf[u] # c /\ ProcOf[u] \in Procs
    BY <1>a, <2>3, HookFields, Zenon DEF TypeOK
  <2>12. \A u \in Tasks \ {t} : task[u] # Idle =>
           ptaint'[ProcOf[u]] = ptaint[ProcOf[u]] /\ direct'[ProcOf[u]] = direct[ProcOf[u]]
    BY <2>5, <2>6, <2>11, Zenon
  <2> QED BY <2>4, <2>5, <2>6, <2>8, <2>9, <2>10, <2>12, ReadStep, ZenonT(30)
<1>11. ASSUME NEW t \in Tasks, ConnectLookup(t) PROVE ReadInv'
  <2> DEFINE P == ProcOf[t]
  <2>1. /\ P \in born /\ P \in Procs /\ UNCHANGED <<ptaint, fail, direct, born>> /\ opened' = None
    BY <1>11, HookFields, Zenon DEF ConnectLookup, Enter, At, maps, data
  <2>2. /\ task'[t].pc = "connect" /\ task'[t].labels = Get(ptaint[P]) /\ task'[t].direct = direct[P]
        /\ \A u \in Tasks \ {t} : task'[u] = task[u]
    BY <1>11, Zenon DEF ConnectLookup, Set, TypeOK
  <2>3. ~fail => direct[P] \subseteq Get(ptaint[P])
    BY <2>1, Zenon DEF ReaderIsLabelled
  <2>4. ReadHook(t)'
    BY <2>1, <2>2, <2>3, Zenon DEF ReadHook
  <2>5. ReaderIsLabelled' /\ \A u \in Tasks : ForkTarget(u)'
    BY <1>d, <1>e, <2>1, <2>2, Zenon
  <2> QED BY <2>1, <2>2, <2>4, <2>5, ReadStep, Zenon
<1>12. ASSUME NEW t \in Tasks, ConnectVerdict(t) PROVE ReadInv'
  <2>1. /\ task[t].pc = "connect" /\ (~fail => task[t].direct \subseteq task[t].labels)
        /\ UNCHANGED <<ptaint, fail, direct, born>>
    BY <1>12, ZenonT(30) DEF ConnectVerdict, At, ReadHook, maps, data
  <2>2. task'[t] = Idle /\ \A u \in Tasks \ {t} : task'[u] = task[u]
    BY <1>12, <1>b, Zenon DEF ConnectVerdict
  <2>3. opened' # None => opened'.direct \subseteq Allowed
    BY <1>12, <2>1, Zenon DEF ConnectVerdict, Admits
  <2>4. ReaderIsLabelled' /\ ReadHook(t)' /\ \A u \in Tasks : ForkTarget(u)'
    BY <1>c, <1>d, <1>e, <2>1, <2>2, Zenon
  <2> QED BY <2>1, <2>2, <2>3, <2>4, ReadStep, ZenonT(30)
<1>13. ASSUME NEW p \in Procs, Exit(p) PROVE ReadInv'
  <2>1. /\ UNCHANGED <<ptaint, fail, task>> /\ opened' = None /\ born' = born \ {p}
        /\ \A q \in Procs \ {p} : direct'[q] = direct[q]
        /\ \A t \in Tasks : ProcOf[t] = p => task[t] = Idle
    BY <1>13, Zenon DEF Exit, maps, TypeOK
  <2>2. ReaderIsLabelled' /\ ReadersEgressAdmitted'
    BY <2>1, Zenon DEF ReaderIsLabelled, ReadersEgressAdmitted, TypeOK
  <2>3. ASSUME NEW t \in Tasks PROVE ReadHook(t)' /\ ForkTarget(t)'
    <3>1. CASE task[t] = Idle
      BY <2>1, <3>1 DEF Idle, ReadHook, ForkTarget
    <3>2. CASE task[t] # Idle
      <4>1. ProcOf[t] # p /\ ProcOf[t] \in Procs
        BY <2>1, <3>2, HookFields, Zenon
      <4> QED BY <2>1, <4>1, Zenon DEF ReadHook, ForkTarget
    <3> QED BY <3>1, <3>2, Zenon
  <2> QED BY <2>2, <2>3, Zenon DEF ReadInv, LabelsFollowReads
<1>14. CASE UNCHANGED vars
  BY <1>14, Zenon DEF vars, ReadInv, LabelsFollowReads, ReaderIsLabelled, ReadersEgressAdmitted, ReadHook, ForkTarget
<1> QED BY <1>1, <1>2, <1>3, <1>4, <1>5, <1>6, <1>7, <1>8, <1>9, <1>10, <1>11, <1>12, <1>13, <1>14, Zenon DEF Next

-----------------------------------------------------------------------------
\* An update of a process's entry is a union of it or is a fork's, into a TGID
\* nobody has or, for a clone, of the entry itself.
LEMMA KeptStep ==
  ASSUME ReadInv, [Next]_vars, NEW q \in born
  PROVE  Get(ptaint[q]) \subseteq Get(ptaint'[q])
<1>0. TypeOK /\ (\A u \in Tasks : ForkTarget(u) /\ ReadHook(u)) /\ q \in Procs
  BY Zenon DEF ReadInv, LabelsFollowReads, TypeOK
<1>1. ASSUME NEW p \in Procs, NEW s \in SUBSET Labels, Stored(p, s), p = q => Get(ptaint[q]) \subseteq s
      PROVE  Get(ptaint[q]) \subseteq Get(ptaint'[q])
  <2>1. ptaint' = [ptaint EXCEPT ![p] = s] /\ Get(s) = s
    BY <1>0, <1>1, LabelFacts, Zenon DEF Stored
  <2> QED BY <1>0, <1>1, <2>1, Zenon DEF TypeOK
<1>2. ASSUME NEW t \in Tasks, UnionUpdate(t) PROVE Get(ptaint[q]) \subseteq Get(ptaint'[q])
  <2>1. /\ ProcOf[t] \in Procs /\ task[t] \in FileHooks
        /\ Get(ptaint[ProcOf[t]]) \subseteq task[t].labels
    BY <1>0, <1>2, HookFields, Zenon DEF UnionUpdate, At, ReadHook
  <2>2. task[t].labels \in SUBSET Labels
    BY <2>1, Zenon DEF FileHooks
  <2> QED BY <1>1, <1>2, <2>1, <2>2, Zenon DEF UnionUpdate
<1>3. ASSUME NEW t \in Tasks, ForkCopy(t) PROVE Get(ptaint[q]) \subseteq Get(ptaint'[q])
  <2>1. /\ task[t].pc = "fork" /\ task[t] \in ForkHooks
        /\ task[t].child # ProcOf[t] => task[t].child \notin born
        /\ task[t].child = ProcOf[t] => task[t].labels = Get(ptaint[ProcOf[t]])
    BY <1>0, <1>3, HookFields, Zenon DEF ForkCopy, At, ForkTarget, ReadHook
  <2>2. task[t].child \in Procs /\ task[t].labels \in SUBSET Labels
    BY <2>1, Zenon DEF ForkHooks
  <2>3. CopyLabels(task[t].child, task[t].labels)
    BY <1>3, Zenon DEF ForkCopy
  <2> QED BY <1>1, <2>1, <2>2, <2>3, Zenon DEF CopyLabels
<1>4. CASE ptaint' = ptaint
  BY <1>4, Zenon
<1> QED BY <1>2, <1>3, <1>4, Zenon DEF Next, vars, maps, WriteLookup, ReadLookup, Unidentified, WriteUpdate, Write, UnionLookup, Read, ForkLookup, ConnectLookup, ConnectVerdict, Exit

\* The invariant holds at the start.
LEMMA InitInv == Init => ReadInv
<1> SUFFICES ASSUME Init PROVE ReadInv
  BY Zenon
<1>1. \A t \in Tasks : task[t] = Idle
  BY Zenon DEF Init
<1>2. TypeOK
  <2>1. ptaint \in [Procs -> (SUBSET Labels) \cup {None}] /\ ftaint \in [Files -> SUBSET Labels]
    BY Zenon DEF Init
  <2>2. born \in SUBSET Procs /\ born # {} /\ fail \in BOOLEAN /\ faults \in 0..MaxFaults
    <3>1. PICK p \in Procs : born = {p}
      BY Zenon DEF Init
    <3>2. born \in SUBSET Procs /\ born # {}
      BY <3>1, Zenon
    <3>3. fail = FALSE /\ faults = 0 /\ MaxFaults \in Nat
      BY PropagationAssumption, Zenon DEF Init
    <3>4. faults \in 0..MaxFaults
      BY <3>3
    <3> QED BY <3>2, <3>3, <3>4, Zenon
  <2>3. task \in [Tasks -> Hooks]
    BY Zenon DEF Init, Hooks
  <2>4. direct \in [Procs -> SUBSET Labels] /\ know \in [Procs -> SUBSET Labels] /\ content \in [Files -> SUBSET Labels]
    BY Zenon DEF Init
  <2> QED BY <1>1, <2>1, <2>2, <2>3, <2>4, Zenon DEF TypeOK
<1>3. \A t \in Tasks : ForkTarget(t) /\ ReadHook(t)
  BY <1>1 DEF Idle, ForkTarget, ReadHook
<1>4. ReaderIsLabelled
  BY <1>2, Zenon DEF Init, ReaderIsLabelled, TypeOK
<1> QED BY <1>1, <1>2, <1>3, <1>4, Zenon DEF Init, ReadInv, LabelsFollowReads, ReadersEgressAdmitted

\* aegis_fperm, aegis_fork and the connect programs: however the hooks of
\* single-threaded processes interleave, whatever updates fail and whatever the
\* capacity of aegis_ptaint, a process that read an enrolled file, and its
\* descendants, have its labels or the failure counter is set, and only a process
\* whose enrolled reads the allow-mask covers is let through.
THEOREM ReadsAreFollowed == ASSUME SingleThreaded PROVE Spec => []LabelsFollowReads
<1>1. Init => ReadInv
  BY InitInv, Zenon
<1>2. ReadInv /\ [Next]_vars => ReadInv'
  BY ReadInd, Zenon
<1>3. ReadInv => LabelsFollowReads
  BY Zenon DEF ReadInv
<1> QED BY <1>1, <1>2, <1>3, PTL DEF Spec

\* union_process_taint and aegis_fork: however the hooks of single-threaded
\* processes interleave, no step takes a label from a live process.
THEOREM LabelsAreKept == ASSUME SingleThreaded PROVE Spec => ProcessLabelsKept
<1> DEFINE Kept == \A p \in born : Get(ptaint[p]) \subseteq Get(ptaint'[p])
<1>1. Init => ReadInv
  BY InitInv, Zenon
<1>2. ReadInv /\ [Next]_vars => ReadInv' /\ [Kept]_vars
  BY ReadInd, KeptStep, Zenon
<1>3. ProcessLabelsKept <=> [][Kept]_vars
  BY Zenon DEF ProcessLabelsKept
<1> QED BY <1>1, <1>2, <1>3, PTL DEF Spec
=============================================================================
