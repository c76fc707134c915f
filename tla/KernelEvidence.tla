--------------------------- MODULE KernelEvidence ---------------------------
(***************************************************************************)
(* The evidence stream of the connect program: emit_evidence on every CPU  *)
(* (kernel/bpf/aegis_connect.bpf.c), the ring buffer and the accounting    *)
(* map, and the reader with its continuity tracker                         *)
(* (internal/kernelfabric/evidence_reader_linux.go, continuity.go).        *)
(*                                                                         *)
(* A CPU allocates a sequence number, reserves a record, submits it and    *)
(* counts it, in separate atomic steps, so the order of the records is the *)
(* order of the reservations and not that of the numbers.  The reader      *)
(* copies the accounting record while the CPUs change it: the sequence     *)
(* first and the two counters after it.                                    *)
(***************************************************************************)
EXTENDS Naturals, Sequences, FiniteSets, SequencesExt

CONSTANTS
    CPUs,
    Capacity,      \* records the ring buffer holds
    MaxSequence,   \* bound: events
    MaxCalls,      \* bound: calls of the reader other than ReadContext
    None

VARIABLES
    acct,      \* the accounting map: sequence, emitted, lost
    ring,      \* the records reserved and not consumed
    cpu,       \* the emission under way on each CPU
    tracker,   \* the reader's tracker, None while no reader is open
    call,      \* the reader call under way
    answer,    \* its last answer
    calls,
    lost,      \* history: the sequence numbers that found no room
    got,       \* history: the numbers whose records a reader consumed
    absorbed,  \* history: numbers lost before the tracker's baseline
    told       \* history: numbers lost before the last DEGRADED answer

vars == <<acct, ring, cpu, tracker, call, answer, calls, lost, got, absorbed, told>>
kernel == <<acct, ring, cpu, lost>>
Idle == [pc |-> "idle"]

-----------------------------------------------------------------------------
(* emit_evidence.                                                          *)

AllocateSequence(c) ==
    /\ cpu[c].pc = "idle" /\ acct.sequence < MaxSequence
    /\ acct' = [acct EXCEPT !.sequence = @ + 1]
    /\ cpu' = [cpu EXCEPT ![c] = [pc |-> "reserve", sequence |-> acct.sequence + 1]]
    /\ UNCHANGED <<ring, lost, tracker, call, answer, calls, got, absorbed, told>>

\* bpf_ringbuf_reserve: room at the end of the buffer, or none.
Reserve(c) ==
    /\ cpu[c].pc = "reserve" /\ Len(ring) < Capacity
    /\ ring' = Append(ring, [sequence |-> cpu[c].sequence, ready |-> FALSE])
    /\ cpu' = [cpu EXCEPT ![c].pc = "submit"]
    /\ UNCHANGED <<acct, lost, tracker, call, answer, calls, got, absorbed, told>>

\* Mutant: a failed reservation is not counted.
DropUncounted(c) ==
    /\ cpu[c].pc = "reserve" /\ Len(ring) >= Capacity
    /\ lost' = lost \cup {cpu[c].sequence}
    /\ cpu' = [cpu EXCEPT ![c] = Idle]
    /\ UNCHANGED <<acct, ring, tracker, call, answer, calls, got, absorbed, told>>

\* No room: the loss is counted, in one more atomic step that nothing of this
\* CPU follows.
CountLost(c) ==
    /\ cpu[c].pc = "reserve" /\ Len(ring) >= Capacity
    /\ acct' = [acct EXCEPT !.lost = @ + 1] /\ lost' = lost \cup {cpu[c].sequence}
    /\ cpu' = [cpu EXCEPT ![c] = Idle]
    /\ UNCHANGED <<ring, tracker, call, answer, calls, got, absorbed, told>>

Submit(c) ==
    /\ cpu[c].pc = "submit"
    /\ ring' = [i \in DOMAIN ring |->
                   IF ring[i].sequence = cpu[c].sequence THEN [ring[i] EXCEPT !.ready = TRUE] ELSE ring[i]]
    /\ cpu' = [cpu EXCEPT ![c].pc = "count"]
    /\ UNCHANGED <<acct, lost, tracker, call, answer, calls, got, absorbed, told>>

CountEmitted(c) ==
    /\ cpu[c].pc = "count"
    /\ acct' = [acct EXCEPT !.emitted = @ + 1]
    /\ cpu' = [cpu EXCEPT ![c] = Idle]
    /\ UNCHANGED <<ring, lost, tracker, call, answer, calls, got, absorbed, told>>

-----------------------------------------------------------------------------
(* ContinuityTracker.                                                      *)

NewContinuityTracker(a) == [baseline |-> a.lost, last |-> 0, gaps |-> 0]

\* Observe refuses a number that is not above the last one; the first number
\* has no predecessor to compare with.
Monotonic(t, s) == t.last # 0 => s > t.last

Observe(t, s) ==
    [t EXCEPT !.last = s, !.gaps = IF t.last # 0 THEN @ + (s - t.last - 1) ELSE @]

\* Assess, and the checks of its counters.
Assess(t, a) ==
    IF a.emitted + a.lost > a.sequence \/ a.lost < t.baseline \/ t.last > a.sequence THEN "error"
    ELSE IF a.lost > t.baseline \/ t.gaps > 0 THEN "DEGRADED"
    ELSE "INTACT"

Checkpoint(t, a) == [t EXCEPT !.baseline = a.lost, !.gaps = 0]

-----------------------------------------------------------------------------
(* EvidenceReader.                                                         *)

\* OpenPinnedEvidenceReader, Assessment and Checkpoint begin by reading the
\* accounting map.  A consumer checkpoints when it was told of a loss.
Begin(what) ==
    /\ call = Idle /\ calls < MaxCalls /\ calls' = calls + 1
    /\ (what = "open") = (tracker = None) /\ (what = "checkpoint" => answer = "DEGRADED")
    /\ call' = [pc |-> what, sequence |-> acct.sequence, event |-> 0]
    /\ answer' = None
    /\ UNCHANGED <<kernel, tracker, got, absorbed, told>>

\* ReadContext: the record at the head, once it is submitted, is consumed and
\* observed before the accounting is read.
ReadContext ==
    /\ call = Idle /\ tracker # None /\ Len(ring) > 0 /\ Head(ring).ready
    /\ LET s == Head(ring).sequence IN
       /\ got' = got \cup {s}
       /\ IF Monotonic(tracker, s)
          THEN /\ tracker' = Observe(tracker, s)
               /\ call' = [pc |-> "read", sequence |-> acct.sequence, event |-> s] /\ answer' = None
          ELSE answer' = "error" /\ UNCHANGED <<tracker, call>>
    /\ ring' = Tail(ring)
    /\ UNCHANGED <<acct, cpu, lost, calls, absorbed, told>>

\* Accounting: the copy is refused when its counters exceed its sequence.
Accounting == [sequence |-> call.sequence, emitted |-> acct.emitted, lost |-> acct.lost]
Consistent(a) == a.emitted + a.lost <= a.sequence

\* The call ends.
EndOpen ==
    /\ call.pc = "open" /\ call' = Idle
    /\ IF Consistent(Accounting)
       THEN tracker' = NewContinuityTracker(Accounting) /\ absorbed' = absorbed \cup lost /\ UNCHANGED answer
       ELSE answer' = "error" /\ UNCHANGED <<tracker, absorbed>>
    /\ UNCHANGED <<kernel, calls, got, told>>

EndAssess ==
    /\ call.pc \in {"assess", "read"} /\ call' = Idle
    /\ answer' = Assess(tracker, Accounting)
    /\ told' = IF answer' = "DEGRADED" THEN lost ELSE told
    /\ UNCHANGED <<kernel, calls, tracker, got, absorbed>>

EndCheckpoint ==
    /\ call.pc = "checkpoint" /\ call' = Idle
    /\ IF Consistent(Accounting)
       THEN /\ tracker' = Checkpoint(tracker, Accounting) /\ absorbed' = absorbed \cup lost
            /\ UNCHANGED answer
       ELSE answer' = "error" /\ UNCHANGED <<tracker, absorbed>>
    /\ UNCHANGED <<kernel, calls, got, told>>

Close ==
    /\ call = Idle /\ tracker # None
    /\ tracker' = None /\ answer' = None
    /\ UNCHANGED <<kernel, call, calls, got, absorbed, told>>

-----------------------------------------------------------------------------
Init ==
    /\ acct = [sequence |-> 0, emitted |-> 0, lost |-> 0] /\ ring = <<>>
    /\ cpu = [c \in CPUs |-> Idle] /\ tracker = None /\ call = Idle /\ answer = None /\ calls = 0
    /\ lost = {} /\ got = {} /\ absorbed = {} /\ told = {}

Next ==
    \/ \E c \in CPUs : \/ AllocateSequence(c) \/ Reserve(c) \/ CountLost(c)
                       \/ Submit(c) \/ CountEmitted(c)
    \/ \E what \in {"open", "assess", "checkpoint"} : Begin(what)
    \/ ReadContext \/ EndOpen \/ EndAssess \/ EndCheckpoint \/ Close

Spec == Init /\ [][Next]_vars

-----------------------------------------------------------------------------
(* Properties.                                                             *)

\* The counters never overtake the sequence in the map itself, and every number
\* is accounted for in one place: lost, in the ring, with a CPU or consumed.
TypeOK ==
    /\ acct.sequence <= MaxSequence /\ Consistent(acct) /\ Len(ring) <= Capacity
    /\ 1..acct.sequence = lost \cup got \cup {ring[i].sequence : i \in DOMAIN ring}
                               \cup {cpu[c].sequence : c \in {d \in CPUs : cpu[d].pc = "reserve"}}
    /\ acct.lost = Cardinality(lost)

\* An INTACT answer with the ring drained covers the whole stream: every event
\* that is not still with a CPU was consumed by a reader or lost before the
\* baseline.  A trailing loss cannot hide behind the absence of a later event.
IntactIsComplete ==
    [][EndAssess /\ answer' = "INTACT" /\ ring = <<>> =>
          1..acct.sequence \ {cpu[c].sequence : c \in {d \in CPUs : cpu[d].pc = "reserve"}}
              \subseteq got \cup absorbed]_vars

\* A sequence gap is a signal of a loss: the tracker counts a gap only when some
\* number was lost.
GapMeansLoss == tracker # None /\ tracker.gaps > 0 => lost # {}

\* A checkpoint takes into its baseline only losses that an assessment has
\* reported: the loss window it closes is an investigated one.
CheckpointIsInvestigated ==
    [][EndCheckpoint => absorbed' \ absorbed \subseteq told]_vars
=============================================================================
