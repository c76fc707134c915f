----------------------------- MODULE FileJournal -----------------------------
(***************************************************************************)
(* The anchored file journal, internal/journal/journal.go and              *)
(* anchored_file.go: a chain of entries in one file, a signed anchor of    *)
(* its head in another, and the heads retained by an external store, one   *)
(* per journal identity, the Kubernetes one of kubernetes_head_store.go.   *)
(*                                                                         *)
(* Processes share disks (the journal's mutex is inside one process), and  *)
(* disks are copied, restored from backups and replaced by the files of    *)
(* another journal.  A process dies between any two steps and in the       *)
(* middle of a line; no directory is ever synced, so power loss may also   *)
(* undo the rename of an anchor and the creation of the journal file.  The *)
(* hash of an entry is the sequence of events up to it.                    *)
(***************************************************************************)
EXTENDS Naturals, Sequences, FiniteSets, SequencesExt

CONSTANTS
    Processes, Disks, Events,
    KeyOf,         \* the signer's key of every process; the keyring has them all
    Foreign,       \* files of another journal, correctly signed; its head may be
                   \* retained in the same store
    PowerLoss,     \* whether power fails
    MaxCalls,      \* bound: calls begun
    MaxRestores    \* bound: backups restored

Pinned == "pinned"    \* expectedJournalID

VARIABLES
    disk,       \* journal file and anchor file of every disk
    durable,    \* the directory entries of every disk that power loss falls back to
    backup,     \* a copy of a disk
    ext,        \* the external head of every identity and its version
    open,       \* the disk of every process's journal, or "none"
    pc, loc,
    acked,      \* identities and heads of appends that returned success
    told,       \* what the last verification that found TRUSTED_HISTORY said
    calls, restores

vars == <<disk, durable, backup, ext, open, pc, loc, acked, told, calls, restores>>

NoAnchor == [id |-> "none", head |-> <<>>, key |-> "none"]
NoFiles == [file |-> <<>>, exists |-> FALSE, anchor |-> NoAnchor]
Torn == [id |-> "torn", seq |-> 0, prev |-> <<>>, event |-> "torn"]
NoHead == [anchor |-> NoAnchor, ver |-> 0]
NoEntries == [exists |-> FALSE, anchor |-> NoAnchor]
IDs == {Pinned, Foreign.anchor.id}
NoLocals == [disk |-> "none", call |-> "none", event |-> "none", old |-> NoAnchor,
             new |-> NoAnchor, ver |-> 0, since |-> {}]

Init ==
    /\ disk = [d \in Disks |-> NoFiles] /\ durable = [d \in Disks |-> NoEntries]
    /\ backup = NoFiles
    /\ \E head \in {NoHead, [anchor |-> Foreign.anchor, ver |-> 1]} :
           ext = [id \in IDs |-> IF id = Pinned THEN NoHead ELSE head]
    /\ open = [p \in Processes |-> "none"]
    /\ pc = [p \in Processes |-> "idle"] /\ loc = [p \in Processes |-> NoLocals]
    /\ acked = {} /\ told = [id |-> Pinned, head |-> <<>>, since |-> {}]
    /\ calls = 0 /\ restores = 0

-----------------------------------------------------------------------------
Goto(p, l) == pc' = [pc EXCEPT ![p] = l]
With(p, v) == loc' = [loc EXCEPT ![p] = v]
MyDisk(p) == disk[loc[p].disk]

\* The events of the first n entries: the hash entry n + 1 builds on.
Hash(file, n) == [i \in 1 .. n |-> file[i].event]

\* verifyIntegrityAndHead, the part that is local: identity, chain and anchor.
Chained(file, id) ==
    \A i \in DOMAIN file : /\ file[i].id = id /\ file[i].seq = i
                           /\ file[i].prev = Hash(file, i - 1)

Local(files) ==
    /\ files.exists /\ files.anchor.id = Pinned
    /\ Chained(files.file, Pinned)
    /\ files.anchor.head = Hash(files.file, Len(files.file))

\* writeAnchorAtomic: in place at once, durable some time later.
PutAnchor(d, a) == disk' = [disk EXCEPT ![d].anchor = a]

\* The directory entries of a disk.
Entries(files) == [exists |-> files.exists, anchor |-> files.anchor]

\* A call ends: an error, or the process dies.
Ends(p) == Goto(p, "idle") /\ With(p, NoLocals)

Failed(p) ==
    /\ Ends(p) /\ UNCHANGED <<disk, durable, backup, ext, open, acked, told, calls, restores>>

Begin(p, d, call, l, event) ==
    /\ pc[p] = "idle" /\ calls < MaxCalls /\ calls' = calls + 1
    /\ Goto(p, l)
    /\ With(p, [NoLocals EXCEPT !.disk = d, !.call = call, !.event = event, !.since = acked])
    /\ UNCHANGED <<disk, durable, backup, ext, open, acked, told, restores>>

-----------------------------------------------------------------------------
(* CreateAnchoredFileJournal, and the initialize it calls.                 *)

Create(p, d) ==
    /\ open[p] = "none" /\ ~disk[d].exists /\ disk[d].anchor = NoAnchor
    /\ Begin(p, d, "create", "checkwitness", "none")

CheckWitness(p) ==
    /\ pc[p] = "checkwitness" /\ ext[Pinned].ver = 0 /\ Goto(p, "file")
    /\ UNCHANGED <<disk, durable, backup, ext, open, loc, acked, told, calls, restores>>

CreateFile(p) ==
    /\ pc[p] = "file" /\ ~MyDisk(p).exists
    /\ disk' = [disk EXCEPT ![loc[p].disk] = [@ EXCEPT !.exists = TRUE, !.file = <<>>]]
    /\ Goto(p, "anchor") /\ With(p, [loc[p] EXCEPT !.new = [id |-> Pinned, head |-> <<>>, key |-> KeyOf[p]]])
    /\ UNCHANGED <<durable, backup, ext, open, acked, told, calls, restores>>

-----------------------------------------------------------------------------
(* verifyUnlocked: what Open is, and what the other calls begin or end     *)
(* with.                                                                   *)

OpenJournal(p, d) == open[p] = "none" /\ Begin(p, d, "open", "local", "none")
Verify(p) == open[p] # "none" /\ Begin(p, open[p], "verify", "local", "none")

\* The local files are read, and then the external head.
VerifyLocal(p) ==
    /\ pc[p] = "local" /\ Local(MyDisk(p))
    /\ Goto(p, "external") /\ With(p, [loc[p] EXCEPT !.old = MyDisk(p).anchor])
    /\ UNCHANGED <<disk, durable, backup, ext, open, acked, told, calls, restores>>

VerifyExternal(p) ==
    LET a == loc[p].old
    IN  /\ pc[p] = "external" /\ ext[a.id].anchor = a
        /\ IF loc[p].call = "append" THEN Goto(p, "read") /\ UNCHANGED <<loc, open>>
           ELSE Ends(p) /\ open' = [open EXCEPT ![p] = loc[p].disk]
        /\ told' = [id |-> a.id, head |-> a.head, since |-> loc[p].since]
        /\ UNCHANGED <<disk, durable, backup, ext, acked, calls, restores>>

-----------------------------------------------------------------------------
(* Append.                                                                 *)

BeginAppend(p, e) == open[p] # "none" /\ Begin(p, open[p], "append", "local", e)

\* readAnchor, once more: its identity is not compared again.
ReadAnchor(p) ==
    LET a == MyDisk(p).anchor
    IN  /\ pc[p] = "read" /\ a # NoAnchor /\ Goto(p, "entry")
        /\ With(p, [loc[p] EXCEPT !.old = a, !.new = [id |-> a.id, head |-> Append(a.head, loc[p].event), key |-> KeyOf[p]]])
        /\ UNCHANGED <<disk, durable, backup, ext, open, acked, told, calls, restores>>

Entry(p) ==
    LET a == loc[p].old IN [id |-> a.id, seq |-> Len(a.head) + 1, prev |-> a.head, event |-> loc[p].event]

Line(p, entry) == disk' = [disk EXCEPT ![loc[p].disk].file = Append(@, entry)]

\* Mutant: the entry is left to the end.
WriteEntryNot(p) ==
    /\ pc[p] = "entry" /\ MyDisk(p).exists /\ Goto(p, "anchor")
    /\ UNCHANGED <<disk, durable, backup, ext, open, loc, acked, told, calls, restores>>

\* The entry, written and synced.
WriteEntry(p) ==
    /\ pc[p] = "entry" /\ MyDisk(p).exists /\ Line(p, Entry(p)) /\ Goto(p, "anchor")
    /\ UNCHANGED <<durable, backup, ext, open, loc, acked, told, calls, restores>>

WriteAnchor(p) ==
    /\ pc[p] = "anchor" /\ PutAnchor(loc[p].disk, loc[p].new) /\ Goto(p, "load")
    /\ UNCHANGED <<durable, backup, ext, open, loc, acked, told, calls, restores>>

-----------------------------------------------------------------------------
(* KubernetesHeadStore.CompareAndAdvance, under the identity of the new    *)
(* head: load, compare, write at the version that was loaded (0: created). *)
(* A journal gives no version.                                             *)

HeadOf(p) == ext[loc[p].new.id]

LoadHead(p) ==
    /\ pc[p] = "load" /\ (HeadOf(p).ver > 0 => HeadOf(p).anchor = loc[p].old)
    /\ Goto(p, "store") /\ With(p, [loc[p] EXCEPT !.ver = HeadOf(p).ver])
    /\ UNCHANGED <<disk, durable, backup, ext, open, acked, told, calls, restores>>

\* What a caller or a verification learns: whose history, and how far.
Told(a) == [id |-> a.id, head |-> a.head]

\* The write; its answer may be lost.  A creation then verifies, an append returns.
StoreHead(p) ==
    /\ pc[p] = "store" /\ HeadOf(p).ver = loc[p].ver
    /\ ext' = [ext EXCEPT ![loc[p].new.id] = [anchor |-> loc[p].new, ver |-> @.ver + 1]]
    /\ \/ loc[p].call = "create" /\ Goto(p, "local") /\ UNCHANGED <<loc, acked>>
       \/ loc[p].call = "append" /\ Ends(p) /\ acked' = acked \cup {Told(loc[p].new)}
       \/ Ends(p) /\ UNCHANGED acked
    /\ UNCHANGED <<disk, durable, backup, open, told, calls, restores>>

-----------------------------------------------------------------------------
(* Faults.                                                                 *)

\* The call fails where it is, or the whole process dies: in the middle of writing
\* an entry, a part of the line remains.
Fail(p) == pc[p] # "idle" /\ Failed(p)

Crash(p) ==
    /\ pc[p] # "idle" \/ open[p] # "none"
    /\ Ends(p) /\ open' = [open EXCEPT ![p] = "none"]
    /\ \/ UNCHANGED disk
       \/ pc[p] = "entry" /\ MyDisk(p).exists /\ Line(p, Torn)
    /\ UNCHANGED <<durable, backup, ext, acked, told, calls, restores>>

\* A directory entry, of the journal file or of the anchor, reaches the disk.
Flush(d) ==
    /\ PowerLoss
    /\ \/ durable[d].exists # disk[d].exists /\ durable' = [durable EXCEPT ![d].exists = disk[d].exists]
       \/ durable[d].anchor # disk[d].anchor /\ durable' = [durable EXCEPT ![d].anchor = disk[d].anchor]
    /\ UNCHANGED <<disk, backup, ext, open, pc, loc, acked, told, calls, restores>>

\* Power fails before it has: the anchor is the one before, or the journal file is
\* gone with everything that was synced into it.
PowerFails(d) ==
    /\ PowerLoss /\ durable[d] # Entries(disk[d])
    /\ disk' = [disk EXCEPT ![d] = [exists |-> durable[d].exists, anchor |-> durable[d].anchor,
                                    file |-> IF durable[d].exists THEN @.file ELSE <<>>]]
    /\ open' = [p \in Processes |-> IF d \in {open[p], loc[p].disk} THEN "none" ELSE open[p]]
    /\ pc' = [p \in Processes |-> IF d \in {open[p], loc[p].disk} THEN "idle" ELSE pc[p]]
    /\ loc' = [p \in Processes |-> IF d \in {open[p], loc[p].disk} THEN NoLocals ELSE loc[p]]
    /\ UNCHANGED <<durable, backup, ext, acked, told, calls, restores>>

\* A backup is taken, and a disk becomes that backup, another journal's, or empty.
Backup(d) ==
    /\ restores < MaxRestores /\ backup' = disk[d] /\ backup' # backup
    /\ UNCHANGED <<disk, durable, ext, open, pc, loc, acked, told, calls, restores>>

Restore(d) ==
    /\ restores < MaxRestores /\ restores' = restores + 1
    /\ \E files \in {backup, Foreign, NoFiles} :
           /\ files # disk[d] /\ disk' = [disk EXCEPT ![d] = files]
           /\ durable' = [durable EXCEPT ![d] = Entries(files)]
    /\ UNCHANGED <<backup, ext, open, pc, loc, acked, told, calls>>

-----------------------------------------------------------------------------
Step(p) ==
    \/ CheckWitness(p) \/ CreateFile(p) \/ VerifyLocal(p) \/ VerifyExternal(p) \/ ReadAnchor(p)
    \/ WriteEntry(p) \/ WriteAnchor(p) \/ LoadHead(p) \/ StoreHead(p)

Next ==
    \/ \E p \in Processes : \/ \E d \in Disks : Create(p, d) \/ OpenJournal(p, d)
                            \/ Verify(p) \/ \E e \in Events : BeginAppend(p, e)
                            \/ Step(p) \/ Fail(p) \/ Crash(p)
    \/ \E d \in Disks : Flush(d) \/ PowerFails(d) \/ Backup(d) \/ Restore(d)

Spec == Init /\ [][Next]_vars

-----------------------------------------------------------------------------
(* Properties.                                                             *)

\* Files, anchors and calls have their shape.
TypeOK ==
    /\ \A d \in Disks : disk[d].anchor.id \in IDs \cup {"none"} /\ (~disk[d].exists => disk[d].file = <<>>)
    /\ \A p \in Processes : /\ open[p] \in Disks \cup {"none"}
                            /\ Len(loc[p].new.head) <= Len(loc[p].old.head) + 1
                            /\ loc[p].call = "none" <=> pc[p] = "idle"

\* The appends callers were told succeeded are, for every journal identity, one
\* history, whatever processes, copies, backups and crashes there were
\* (journal.go:176-258).
OneHistory == \A g, h \in acked : g.id = h.id => IsPrefix(g.head, h.head) \/ IsPrefix(h.head, g.head)

\* A history found TRUSTED is the pinned journal's, and has every append to that
\* journal that had succeeded before the verification began (journal.go:347-477,
\* docs/journal-history-continuity.md:44).
TrustedIsCurrent ==
    told.id = Pinned /\ \A h \in told.since : h.id = Pinned => IsPrefix(h.head, told.head)

\* An external head only grows, and is created once: no creation starts the
\* lineage again (anchored_file.go:27-75).
LineageGrows ==
    [][\A id \in IDs : \/ ext'[id] = ext[id]
                      \/ /\ IsPrefix(ext[id].anchor.head, ext'[id].anchor.head)
                         /\ ext[id].ver > 0 => ext'[id].anchor.head # ext[id].anchor.head]_ext

\* Files that one process writes keep, through any crash and power loss, every event
\* the external head vouches for, as long as the journal file is there at all: an
\* entry is synced before the anchor and the external head move (journal.go:219-255).
WitnessedIsOnDisk ==
    \A d \in Disks : disk[d].exists => IsPrefix(ext[Pinned].anchor.head, Hash(disk[d].file, Len(disk[d].file)))

\* What the comment at journal.go:368 says: a foreign history does not select its own
\* witness namespace, so an append that succeeded is the pinned journal's.
AppendIsPinned == \A h \in acked : h.id = Pinned

\* What the journal's document says of an append: both of its writes are durable, so
\* the history a successful append is part of survives a power failure.
AppendIsDurable == acked # {} => \E d \in Disks : disk[d].exists
=============================================================================
