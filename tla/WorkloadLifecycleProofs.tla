----------------------- MODULE WorkloadLifecycleProofs -----------------------
(***************************************************************************)
(* Proofs about WorkloadLifecycle, for any number of supervisors, grants,  *)
(* processes, crashes and reboots and for any restart policy: there is one *)
(* governed process at a time and one for each grant, a restart rests on   *)
(* newer evidence and stays within its budget, and the ledger never goes   *)
(* back.                                                                   *)
(***************************************************************************)
EXTENDS WorkloadLifecycle, TLAPS

\* A process that kept its executable; what Gone promises is that it is none.
Governed == {"alive", "moved"}
Ended == {"EXITED", "EXITED_UNKNOWN"}

\* The processes and the supervisors, over the grants that were issued.
Act(G) == [grant : G, boot : Nat, startedAt : Nat, proc : Live \cup {"dead"}, class : ExitClass \cup {None},
           ran : BOOLEAN, after : Nat]
Supervisor(G) == [pc : {"idle", "claimed", "created", "started", "waiting", "exited"}, act : Nat,
                  grant : G \cup {None}, next : Ledger \cup {None}]

\* The types, one part for each group of variables.  How long a restart decision
\* holds does not matter here.
ClockType == now \in Nat \ {0} /\ boot \in Nat \ {0}
GrantType == remotes \subseteq Remote /\ \A g \in grants : g.remote \in remotes
LedgerType ==
    /\ ledger \in Ledger \cup {None}
    /\ ledger # None => ValidateWorkloadLifecycleState(ledger) /\ ledger.activation \in DOMAIN acts
ActType == acts \in Seq(Act(grants)) /\ \A a \in DOMAIN acts : acts[a].grant.id \in consumed
SupType == sup \in [Sups -> Supervisor(grants)]
LockType == lock \in Sups \cup {None} /\ \A s \in Sups : (lock = s) <=> sup[s].pc \in {"claimed", "created"}
FileType == /\ observation \in Observation \cup {None} /\ reconciliation \in Reconciliation \cup {None}
            /\ release \in Release \cup {None}
RestartType ==
    restart # None =>
        /\ restart.generation \in Nat /\ restart.count \in Nat /\ restart.windowStart \in Nat
        /\ restart.exit \in Exit \cup {None} /\ restart.recovery \in Recovery \cup {None}
        /\ restart.remote \in remotes

Types == /\ ClockType /\ GrantType /\ LedgerType /\ ActType /\ SupType /\ LockType /\ FileType /\ RestartType

\* A process belongs to the boot it was started on, and a reboot ends it.
ActsInv ==
    \A a \in DOMAIN acts :
        /\ acts[a].startedAt <= now
        /\ acts[a].boot # boot => acts[a].proc = "dead"
        /\ acts[a].proc = "dead" => acts[a].class \in ExitClass

\* Evidence that a process is gone is right about it, whenever it is used.
Vanished(x, a) == a \in DOMAIN x /\ x[a].proc \notin Governed

GoneInv ==
    /\ observation # None /\ observation.state \in Gone => Vanished(acts, observation.activation)
    /\ reconciliation # None /\ reconciliation.outcome = "MARK_EXITED_UNKNOWN" => Vanished(acts, reconciliation.activation)
    /\ release # None => Vanished(acts, release.activation)

\* A release rests on a clearance after the quarantine, and that on an attestation.
ReleaseInv ==
    /\ observation # None => observation.at <= now
    /\ release # None =>
          /\ release.clearedAt > release.quarantine.decidedAt /\ release.clearedAt <= release.decidedAt
          /\ release.remote \in remotes /\ release.remote.verdict = "ALLOW"
          /\ release.remote.at > release.clearedAt

\* The ledger n that a start will write: the next generation after the ledger l.
Follows(n, l) ==
    /\ n.state = "RUNNING" /\ n.exit = None /\ n.recovery = None /\ n.epoch > 0
    /\ l = None => n.generation = 1
    /\ l # None => n.generation = l.generation + 1 /\ n.epoch = l.epoch

\* A supervisor that holds the lock: nothing has moved the ledger since it was
\* read, and its process is the last one.
StartInv ==
    /\ lock # None => ledger = None \/ ledger.state \in Ended
    /\ \A s \in Sups :
         /\ sup[s].pc \in {"claimed", "created"} => sup[s].next # None /\ Follows(sup[s].next, ledger)
         /\ sup[s].pc = "claimed" => /\ sup[s].grant \in grants /\ sup[s].grant.id \in consumed /\ sup[s].act = 0
                                     /\ \A a \in DOMAIN acts : acts[a].grant # sup[s].grant
         /\ sup[s].pc = "created" => /\ sup[s].act = Len(acts) /\ sup[s].act > 0 /\ ~acts[sup[s].act].ran
                                     /\ ledger # None => ledger.activation # sup[s].act
         /\ sup[s].pc \in {"started", "waiting", "exited"} => sup[s].act \in DOMAIN acts /\ ledger # None
         /\ sup[s].pc = "idle" => sup[s].act = 0

\* A governed process is the one being started, or the one of the ledger.
OwnerInv ==
    \A a \in DOMAIN acts : acts[a].proc \in Governed =>
        \/ \E s \in Sups : sup[s].pc = "created" /\ sup[s].act = a
        \/ ledger # None /\ ledger.activation = a /\ ledger.state \in {"RUNNING", "QUARANTINED"}

\* The time after which a restart on this lineage must be attested.
Lineage(e, r) ==
    IF e # None THEN IF e.class \in Reattest THEN e.at ELSE 0
    ELSE IF "clearedAt" \in DOMAIN r THEN r.clearedAt ELSE r.decidedAt

AttestInv ==
    /\ restart # None /\ restart.outcome = "REQUIRE_FRESH_GRANT" /\ Lineage(restart.exit, restart.recovery) > 0
          => restart.remote.at > Lineage(restart.exit, restart.recovery)
    /\ \A s \in Sups : sup[s].pc = "claimed" /\ EvidenceTime > 0 => sup[s].grant.remote.at > EvidenceTime

\* The generations that ran since w; room for one more in a window with count n.
Ran(x, w) == {a \in DOMAIN x : x[a].ran /\ x[a].startedAt >= w}
Room(x, n, w) ==
    /\ n <= MaxRestarts /\ Cardinality(Ran(x, w)) <= n
    /\ \A a \in DOMAIN x : x[a].ran => x[a].startedAt < w + Window

\* The budget: of the ledger, of a restart decided for it, and of a start.
BudgetInv ==
    /\ ledger = None => (\A a \in DOMAIN acts : ~acts[a].ran) /\ restart = None
    /\ ledger # None =>
          /\ ledger.count <= MaxRestarts /\ Cardinality(Ran(acts, ledger.windowStart)) <= ledger.count + 1
          /\ \A a \in DOMAIN acts : acts[a].ran /\ a # ledger.activation
                                      => acts[a].startedAt < ledger.windowStart + Window
    /\ restart # None => restart.generation <= ledger.generation
    /\ restart # None /\ restart.outcome = "REQUIRE_FRESH_GRANT" /\ restart.generation = ledger.generation
          => Room(acts, restart.count + 1, restart.windowStart)
    /\ \A s \in Sups : sup[s].pc \in {"claimed", "created"} => Room(acts, sup[s].next.count, sup[s].next.windowStart)

\* The inductive invariant.
IndInv ==
    /\ Types /\ ActsInv /\ GoneInv /\ ReleaseInv /\ StartInv /\ OwnerInv /\ GrantStartsOnce
    /\ AttestInv /\ RestartIsReattested /\ BudgetInv

-----------------------------------------------------------------------------
(* Records and sequences.                                                  *)

\* What the assumptions on the constants give.
LEMMA Constants ==
  /\ None \notin Sups /\ None \notin Exit /\ None \notin Recovery /\ None \notin Ledger
  /\ Window \in Nat \ {0} /\ MaxRestarts \in Nat
  /\ Classes \subseteq ExitClass /\ Verdicts \subseteq {"ALLOW", "BLOCK", "CHANGED"}
BY LifecycleAssumption, Zenon DEF ExitClass

\* A lifecycle state as a record of its fields.
Book(st, g, e, a, x, r, c, w) ==
    [state |-> st, generation |-> g, epoch |-> e, activation |-> a, exit |-> x, recovery |-> r,
     count |-> c, windowStart |-> w]

\* Its fields and its type.
LEMMA BookFields ==
  ASSUME NEW st, NEW g, NEW e, NEW a, NEW x, NEW r, NEW c, NEW w, NEW l, l = Book(st, g, e, a, x, r, c, w)
  PROVE  /\ l.state = st /\ l.generation = g /\ l.epoch = e /\ l.activation = a /\ l.exit = x
         /\ l.recovery = r /\ l.count = c /\ l.windowStart = w
         /\ (/\ st \in {"RUNNING", "EXITED", "EXITED_UNKNOWN", "QUARANTINED"} /\ g \in Nat /\ e \in Nat
             /\ a \in Nat /\ x \in Exit \cup {None} /\ r \in Recovery \cup {None} /\ c \in Nat /\ w \in Nat)
            => l \in Ledger
BY Zenon DEF Book, Ledger

\* The fields of a ledger.
LEMMA LedgerFields ==
  ASSUME NEW l \in Ledger
  PROVE  /\ l.state \in {"RUNNING", "EXITED", "EXITED_UNKNOWN", "QUARANTINED"} /\ l.generation \in Nat
         /\ l.epoch \in Nat /\ l.activation \in Nat /\ l.exit \in Exit \cup {None}
         /\ l.recovery \in Recovery \cup {None} /\ l.count \in Nat /\ l.windowStart \in Nat /\ l # None
BY Constants, Zenon DEF Ledger

\* What the steps set of a ledger.
LEMMA LedgerShapes ==
  ASSUME NEW l \in Ledger
  PROVE  /\ \A a : [l EXCEPT !.activation = a]
                     = Book(l.state, l.generation, l.epoch, a, l.exit, l.recovery, l.count, l.windowStart)
         /\ \A st, x : [l EXCEPT !.state = st, !.exit = x]
                     = Book(st, l.generation, l.epoch, l.activation, x, l.recovery, l.count, l.windowStart)
         /\ \A st, r : [l EXCEPT !.state = st, !.recovery = r]
                     = Book(st, l.generation, l.epoch, l.activation, l.exit, r, l.count, l.windowStart)
         /\ \A st, r : [l EXCEPT !.state = st, !.epoch = @ + 1, !.recovery = r]
                     = Book(st, l.generation, l.epoch + 1, l.activation, l.exit, r, l.count, l.windowStart)
<1>x. ASSUME NEW st, NEW g, NEW e, NEW a, NEW x, NEW r, NEW c, NEW w, NEW y
      PROVE  [Book(st, g, e, a, x, r, c, w) EXCEPT !.exit = y] = Book(st, g, e, a, y, r, c, w)
  BY DEF Book
<1>r. ASSUME NEW st, NEW g, NEW e, NEW a, NEW x, NEW r, NEW c, NEW w, NEW y
      PROVE  [Book(st, g, e, a, x, r, c, w) EXCEPT !.recovery = y] = Book(st, g, e, a, x, y, c, w)
  BY DEF Book
<1>e. ASSUME NEW st, NEW g, NEW e, NEW a, NEW x, NEW r, NEW c, NEW w, NEW y
      PROVE  [Book(st, g, e, a, x, r, c, w) EXCEPT !.epoch = y] = Book(st, g, y, a, x, r, c, w)
  BY DEF Book
<1>3. ASSUME NEW y
      PROVE  /\ [l EXCEPT !.activation = y]
                  = Book(l.state, l.generation, l.epoch, y, l.exit, l.recovery, l.count, l.windowStart)
             /\ [l EXCEPT !.state = y]
                  = Book(y, l.generation, l.epoch, l.activation, l.exit, l.recovery, l.count, l.windowStart)
  BY DEF Ledger, Book
<1>4. ASSUME NEW y, NEW z
      PROVE  [l EXCEPT !.state = y, !.exit = z]
               = Book(y, l.generation, l.epoch, l.activation, z, l.recovery, l.count, l.windowStart)
  <2>1. [l EXCEPT !.state = y, !.exit = z] = [[l EXCEPT !.state = y] EXCEPT !.exit = z]
    BY Zenon
  <2>2. [[l EXCEPT !.state = y] EXCEPT !.exit = z]
          = [Book(y, l.generation, l.epoch, l.activation, l.exit, l.recovery, l.count, l.windowStart) EXCEPT !.exit = z]
    BY <1>3, Zenon
  <2> QED BY <1>x, <2>1, <2>2
<1>5. ASSUME NEW y, NEW z
      PROVE  [l EXCEPT !.state = y, !.recovery = z]
               = Book(y, l.generation, l.epoch, l.activation, l.exit, z, l.count, l.windowStart)
  <2>1. [l EXCEPT !.state = y, !.recovery = z] = [[l EXCEPT !.state = y] EXCEPT !.recovery = z]
    BY Zenon
  <2>2. [[l EXCEPT !.state = y] EXCEPT !.recovery = z]
          = [Book(y, l.generation, l.epoch, l.activation, l.exit, l.recovery, l.count, l.windowStart) EXCEPT !.recovery = z]
    BY <1>3, Zenon
  <2> QED BY <1>r, <2>1, <2>2
<1>6. ASSUME NEW y, NEW z
      PROVE  [l EXCEPT !.state = y, !.epoch = @ + 1, !.recovery = z]
               = Book(y, l.generation, l.epoch + 1, l.activation, l.exit, z, l.count, l.windowStart)
  <2>1. [l EXCEPT !.state = y, !.epoch = @ + 1, !.recovery = z]
          = [[[l EXCEPT !.state = y] EXCEPT !.epoch = l.epoch + 1] EXCEPT !.recovery = z]
    BY Zenon
  <2>2. [[l EXCEPT !.state = y] EXCEPT !.epoch = l.epoch + 1]
          = [Book(y, l.generation, l.epoch, l.activation, l.exit, l.recovery, l.count, l.windowStart) EXCEPT !.epoch = l.epoch + 1]
    BY <1>3, Zenon
  <2>3. [[l EXCEPT !.state = y] EXCEPT !.epoch = l.epoch + 1]
          = Book(y, l.generation, l.epoch + 1, l.activation, l.exit, l.recovery, l.count, l.windowStart)
    BY <1>e, <2>2
  <2>4. [[[l EXCEPT !.state = y] EXCEPT !.epoch = l.epoch + 1] EXCEPT !.recovery = z]
          = [Book(y, l.generation, l.epoch + 1, l.activation, l.exit, l.recovery, l.count, l.windowStart) EXCEPT !.recovery = z]
    BY <2>3, Zenon
  <2> QED BY <1>r, <2>1, <2>4
<1> QED BY <1>3, <1>4, <1>5, <1>6, Zenon

\* A supervisor as a record of its fields.
Super(p, a, g, n) == [pc |-> p, act |-> a, grant |-> g, next |-> n]

\* Its fields and its type.
LEMMA SuperFields ==
  ASSUME NEW p, NEW a, NEW g, NEW n, NEW r, r = Super(p, a, g, n)
  PROVE  /\ r.pc = p /\ r.act = a /\ r.grant = g /\ r.next = n
         /\ \A G : (/\ p \in {"idle", "claimed", "created", "started", "waiting", "exited"} /\ a \in Nat
                    /\ g \in G \cup {None} /\ n \in Ledger \cup {None}) => r \in Supervisor(G)
BY Zenon DEF Super, Supervisor

\* The fields of a supervisor.
LEMMA SupFields ==
  ASSUME NEW G, NEW f \in [Sups -> Supervisor(G)], NEW s \in Sups
  PROVE  /\ f[s].pc \in {"idle", "claimed", "created", "started", "waiting", "exited"} /\ f[s].act \in Nat
         /\ f[s].grant \in G \cup {None} /\ f[s].next \in Ledger \cup {None}
<1>1. f[s] \in Supervisor(G)
  BY Zenon
<1> QED BY <1>1, Zenon DEF Supervisor

\* What the steps set of a supervisor.
LEMMA SupPc ==
  ASSUME NEW G, NEW f \in [Sups -> Supervisor(G)], NEW s \in Sups, NEW p
  PROVE  [f EXCEPT ![s].pc = p] = [f EXCEPT ![s] = Super(p, f[s].act, f[s].grant, f[s].next)]
<1>1. f[s] \in Supervisor(G)
  BY Zenon
<1>2. [f[s] EXCEPT !.pc = p] = Super(p, f[s].act, f[s].grant, f[s].next)
  BY <1>1 DEF Supervisor, Super
<1>3. [f EXCEPT ![s] = [f[s] EXCEPT !.pc = p]] = [f EXCEPT ![s] = Super(p, f[s].act, f[s].grant, f[s].next)]
  BY <1>2, Zenon
<1>4. [f EXCEPT ![s].pc = p] = [f EXCEPT ![s] = [f[s] EXCEPT !.pc = p]]
  BY Zenon
<1> QED BY <1>3, <1>4, Zenon

SetPcAct(f, s, p, a) == [f EXCEPT ![s].pc = p, ![s].act = a]

LEMMA SupPcAct ==
  ASSUME NEW G, NEW f \in [Sups -> Supervisor(G)], NEW s \in Sups, NEW p, NEW a
  PROVE  SetPcAct(f, s, p, a) = [f EXCEPT ![s] = Super(p, a, f[s].grant, f[s].next)]
<1>1. f[s] \in Supervisor(G)
  BY Zenon
<1>2. [f[s] EXCEPT !.pc = p, !.act = a] = Super(p, a, f[s].grant, f[s].next)
  <2>1. [f[s] EXCEPT !.pc = p, !.act = a] = [[f[s] EXCEPT !.pc = p] EXCEPT !.act = a]
    BY Zenon
  <2>2. [f[s] EXCEPT !.pc = p] = Super(p, f[s].act, f[s].grant, f[s].next)
    BY <1>1 DEF Supervisor, Super
  <2>3. [[f[s] EXCEPT !.pc = p] EXCEPT !.act = a] = [Super(p, f[s].act, f[s].grant, f[s].next) EXCEPT !.act = a]
    BY <2>2, Zenon
  <2>4. [Super(p, f[s].act, f[s].grant, f[s].next) EXCEPT !.act = a] = Super(p, a, f[s].grant, f[s].next)
    BY DEF Super
  <2> QED BY <2>1, <2>3, <2>4, Zenon
<1>3. [f EXCEPT ![s] = [f[s] EXCEPT !.pc = p, !.act = a]] = [f EXCEPT ![s] = Super(p, a, f[s].grant, f[s].next)]
  BY <1>2, Zenon
<1>4. [f EXCEPT ![s].pc = p, ![s].act = a] = [f EXCEPT ![s] = [f[s] EXCEPT !.pc = p, !.act = a]]
  BY Zenon
<1> QED BY <1>3, <1>4, Zenon DEF SetPcAct

LEMMA IdlePcAct ==
  ASSUME NEW p, NEW a
  PROVE  [Idle EXCEPT !.pc = p, !.act = a] = Super(p, a, None, None)
<1>1. [Idle EXCEPT !.pc = p, !.act = a] = [[Idle EXCEPT !.pc = p] EXCEPT !.act = a]
  BY Zenon
<1>2. [Idle EXCEPT !.pc = p] = Super(p, 0, None, None)
  BY DEF Idle, Super
<1>3. [[Idle EXCEPT !.pc = p] EXCEPT !.act = a] = [Super(p, 0, None, None) EXCEPT !.act = a]
  BY <1>2, Zenon
<1>4. [Super(p, 0, None, None) EXCEPT !.act = a] = Super(p, a, None, None)
  BY DEF Super
<1> QED BY <1>1, <1>3, <1>4, Zenon

\* The supervisors when one of them moves.
LEMMA SupUpdate ==
  ASSUME NEW G, NEW f \in [Sups -> Supervisor(G)], NEW s \in Sups, NEW r \in Supervisor(G),
         NEW h, h = [f EXCEPT ![s] = r]
  PROVE  h \in [Sups -> Supervisor(G)] /\ h[s] = r /\ \A t \in Sups : t # s => h[t] = f[t]
BY Zenon

\* A sequence over a smaller set is one over a larger set.
LEMMA SeqGrows == ASSUME NEW S, NEW T, S \subseteq T PROVE Seq(S) \subseteq Seq(T)
OBVIOUS

\* The domain and the elements of an updated and of an extended sequence.
LEMMA SeqUpdate ==
  ASSUME NEW S, NEW x \in Seq(S), NEW a \in DOMAIN x, NEW r \in S, NEW y, y = [x EXCEPT ![a] = r]
  PROVE  /\ y \in Seq(S) /\ DOMAIN y = DOMAIN x /\ Len(y) = Len(x) /\ y[a] = r
         /\ \A b \in DOMAIN x : b # a => y[b] = x[b]
OBVIOUS

LEMMA SeqAppend ==
  ASSUME NEW S, NEW x \in Seq(S), NEW r \in S, NEW y, y = Append(x, r)
  PROVE  /\ y \in Seq(S) /\ Len(y) = Len(x) + 1 /\ DOMAIN y = DOMAIN x \cup {Len(x) + 1}
         /\ Len(x) \in Nat /\ Len(x) + 1 \notin DOMAIN x
         /\ y[Len(x) + 1] = r /\ \A b \in DOMAIN x : y[b] = x[b]
OBVIOUS

\* A process after a step that does not start one: nothing but its end, and
\* whether its start was recorded, changes.
KeptAct(r, q) ==
    /\ q.grant = r.grant /\ q.boot = r.boot /\ q.startedAt = r.startedAt /\ q.after = r.after
    /\ q.proc \in Governed => r.proc \in Governed
    /\ r.proc = "dead" => q.proc = "dead"
    /\ q.proc = "dead" => q.class \in ExitClass
SameRuns(x, y) == \A a \in DOMAIN x : y[a].ran = x[a].ran
Kept(x, y) == DOMAIN y = DOMAIN x /\ Len(y) = Len(x) /\ \A a \in DOMAIN x : KeptAct(x[a], y[a])

\* The fields of a process.
LEMMA ActFields ==
  ASSUME NEW G, NEW r \in Act(G), r.proc = "dead" => r.class \in ExitClass
  PROVE  /\ r.grant \in G /\ r.boot \in Nat /\ r.startedAt \in Nat /\ r.proc \in Live \cup {"dead"}
         /\ r.class \in ExitClass \cup {None} /\ r.ran \in BOOLEAN /\ r.after \in Nat
         /\ KeptAct(r, r)
BY Zenon DEF Act, KeptAct

\* A process that ends, that leaves its cgroup or replaces its executable, and
\* one whose start is recorded.
Ending(r, c) == [r EXCEPT !.proc = "dead", !.class = c]
Moving(r, p) == [r EXCEPT !.proc = p]
Recorded(r) == [r EXCEPT !.ran = TRUE]

LEMMA ActEnds ==
  ASSUME NEW G, NEW r \in Act(G), NEW c \in ExitClass
  PROVE  /\ Ending(r, c) \in Act(G) /\ KeptAct(r, Ending(r, c)) /\ Ending(r, c).ran = r.ran
         /\ Ending(r, c).proc = "dead"
<1> DEFINE q == Ending(r, c)
           u == [r EXCEPT !.proc = "dead"]
<1>1. q = [u EXCEPT !.class = c]
  BY Zenon DEF Ending
<1>2. /\ u \in Act(G) /\ u.proc = "dead"
      /\ u.grant = r.grant /\ u.boot = r.boot /\ u.startedAt = r.startedAt /\ u.after = r.after /\ u.ran = r.ran
  BY Zenon DEF Act
<1> HIDE DEF u, q
<1>3. /\ q \in Act(G) /\ q.proc = "dead" /\ q.class = c
      /\ q.grant = r.grant /\ q.boot = r.boot /\ q.startedAt = r.startedAt /\ q.after = r.after /\ q.ran = r.ran
  BY <1>1, <1>2, Zenon DEF Act
<1>4. q \in Act(G) /\ KeptAct(r, q) /\ q.ran = r.ran /\ q.proc = "dead"
  BY <1>3, Zenon DEF KeptAct, Governed
<1> QED BY <1>4, Zenon DEF q

LEMMA ActMoves ==
  ASSUME NEW G, NEW r \in Act(G), NEW p \in Live, r.proc \in Live, r.proc # "execed"
  PROVE  Moving(r, p) \in Act(G) /\ KeptAct(r, Moving(r, p)) /\ Moving(r, p).ran = r.ran
BY Zenon DEF Act, Moving, KeptAct, Governed, Live

LEMMA ActRuns ==
  ASSUME NEW G, NEW r \in Act(G), r.proc = "dead" => r.class \in ExitClass
  PROVE  Recorded(r) \in Act(G) /\ KeptAct(r, Recorded(r)) /\ Recorded(r).ran = TRUE
BY Zenon DEF Act, Recorded, KeptAct

\* One process changes.
Changed(x, y, a) == DOMAIN y = DOMAIN x /\ Len(y) = Len(x) /\ \A b \in DOMAIN x : b # a => y[b] = x[b]

LEMMA OneMoves ==
  ASSUME NEW G, NEW x \in Seq(Act(G)), \A b \in DOMAIN x : x[b].proc = "dead" => x[b].class \in ExitClass,
         NEW a \in DOMAIN x, NEW y, Changed(x, y, a), KeptAct(x[a], y[a])
  PROVE  /\ Kept(x, y)
         /\ \A b \in DOMAIN x : b # a => y[b].ran = x[b].ran
         /\ y[a].ran = x[a].ran => SameRuns(x, y)
<1>1. DOMAIN y = DOMAIN x /\ Len(y) = Len(x) /\ \A b \in DOMAIN x : b # a => y[b] = x[b]
  BY Zenon DEF Changed
<1>2. ASSUME NEW b \in DOMAIN x PROVE KeptAct(x[b], y[b])
  <2>1. CASE b = a
    BY <2>1, Zenon
  <2>2. CASE b # a
    <3>1. x[b] \in Act(G)
      OBVIOUS
    <3> QED BY <1>1, <2>2, <3>1, ActFields, Zenon
  <2> QED BY <2>1, <2>2, Zenon
<1> QED BY <1>1, <1>2, Zenon DEF Kept, SameRuns

\* The kill of a process, and of none.
LEMMA KillKeeps ==
  ASSUME NEW G, acts \in Seq(Act(G)), \A b \in DOMAIN acts : acts[b].proc = "dead" => acts[b].class \in ExitClass,
         NEW a, a = 0 \/ a \in DOMAIN acts
  PROVE  /\ Killed(a) \in Seq(Act(G)) /\ Kept(acts, Killed(a)) /\ SameRuns(acts, Killed(a))
         /\ a # 0 => Killed(a)[a].proc = "dead"
<1>1. ASSUME NEW b \in DOMAIN acts
      PROVE  acts[b] \in Act(G) /\ KeptAct(acts[b], acts[b]) /\ acts[b].proc \in Live \cup {"dead"}
  <2>1. acts[b] \in Act(G)
    OBVIOUS
  <2> QED BY <2>1, ActFields, Zenon
<1>2. CASE a > 0 /\ acts[a].proc \in Live
  <2>1. a \in DOMAIN acts /\ "SIGNAL" \in ExitClass
    BY <1>2 DEF ExitClass
  <2> DEFINE q == Ending(acts[a], "SIGNAL")
  <2>2. Killed(a) = [acts EXCEPT ![a] = q]
    BY <1>2, <2>1, Zenon DEF Killed, Ending
  <2>3. q \in Act(G) /\ KeptAct(acts[a], q) /\ q.ran = acts[a].ran /\ q.proc = "dead"
    BY <1>1, <2>1, ActEnds, Zenon
  <2> HIDE DEF q
  <2>4. Killed(a) \in Seq(Act(G)) /\ Changed(acts, Killed(a), a) /\ Killed(a)[a] = q
    BY <2>1, <2>2, <2>3 DEF Changed
  <2> QED BY <2>1, <2>3, <2>4, OneMoves, Zenon
<1>3. CASE ~(a > 0 /\ acts[a].proc \in Live)
  <2>1. Killed(a) = acts
    BY <1>3, Zenon DEF Killed
  <2>2. a # 0 => acts[a].proc = "dead"
    BY <1>1, <1>3
  <2> QED BY <1>1, <2>1, <2>2, Zenon DEF Kept, SameRuns
<1> QED BY <1>2, <1>3, Zenon

\* A process exits, leaves its cgroup or replaces its executable.
LEMMA StepKeeps ==
  ASSUME NEW G, acts \in Seq(Act(G)), \A b \in DOMAIN acts : acts[b].proc = "dead" => acts[b].class \in ExitClass,
         NEW a \in DOMAIN acts, ProcessStep(a)
  PROVE  acts' \in Seq(Act(G)) /\ Kept(acts, acts') /\ SameRuns(acts, acts')
<1>1. acts[a] \in Act(G) /\ acts[a].proc \in Live
  <2>1. acts[a] \in Act(G)
    OBVIOUS
  <2> QED BY <2>1, Zenon DEF ProcessStep
<1>2. PICK q \in Act(G) : KeptAct(acts[a], q) /\ q.ran = acts[a].ran /\ acts' = [acts EXCEPT ![a] = q]
  <2>1. CASE \E c \in Classes : acts' = [acts EXCEPT ![a].proc = "dead", ![a].class = c]
    <3>1. PICK c \in Classes : acts' = [acts EXCEPT ![a].proc = "dead", ![a].class = c]
      BY <2>1, Zenon
    <3>2. acts' = [acts EXCEPT ![a] = Ending(acts[a], c)] /\ c \in ExitClass
      BY <3>1, Constants, Zenon DEF Ending
    <3> QED BY <1>1, <3>2, ActEnds, Zenon
  <2>2. CASE \E p \in Live : acts[a].proc # "execed" /\ acts' = [acts EXCEPT ![a].proc = p]
    <3>1. PICK p \in Live : acts[a].proc # "execed" /\ acts' = [acts EXCEPT ![a].proc = p]
      BY <2>2, Zenon
    <3>2. acts' = [acts EXCEPT ![a] = Moving(acts[a], p)]
      BY <3>1, Zenon DEF Moving
    <3> QED BY <1>1, <3>1, <3>2, ActMoves, Zenon
  <2> QED BY <2>1, <2>2, Zenon DEF ProcessStep, Live
<1>3. acts' \in Seq(Act(G)) /\ Changed(acts, acts', a) /\ acts'[a] = q
  BY <1>2 DEF Changed
<1>4. KeptAct(acts[a], acts'[a]) /\ acts'[a].ran = acts[a].ran
  BY <1>2, <1>3, Zenon
<1> QED BY <1>3, <1>4, OneMoves, Zenon

\* A reboot ends every process.
LEMMA RebootKeeps ==
  ASSUME NEW G, acts \in Seq(Act(G)), \A b \in DOMAIN acts : acts[b].proc = "dead" => acts[b].class \in ExitClass,
         Reboot
  PROVE  /\ acts' \in Seq(Act(G)) /\ Kept(acts, acts') /\ SameRuns(acts, acts')
         /\ \A a \in DOMAIN acts : acts'[a].proc = "dead"
<1> DEFINE q(a) == IF acts[a].proc \in Live THEN Ending(acts[a], "SIGNAL") ELSE acts[a]
<1>1. acts' = [a \in DOMAIN acts |-> q(a)]
  BY Zenon DEF Reboot, Ending
<1>2. ASSUME NEW a \in DOMAIN acts
      PROVE  q(a) \in Act(G) /\ KeptAct(acts[a], q(a)) /\ q(a).ran = acts[a].ran /\ q(a).proc = "dead"
  <2>1. acts[a] \in Act(G) /\ "SIGNAL" \in ExitClass
    BY DEF ExitClass
  <2>2. acts[a].proc \in Live \cup {"dead"} /\ KeptAct(acts[a], acts[a])
    BY <2>1, ActFields, Zenon
  <2> QED BY <2>1, <2>2, ActEnds, Zenon
<1> HIDE DEF q
<1>3. /\ acts' \in Seq(Act(G)) /\ DOMAIN acts' = DOMAIN acts /\ Len(acts') = Len(acts)
      /\ \A a \in DOMAIN acts : acts'[a] = q(a)
  BY <1>1, <1>2
<1> QED BY <1>2, <1>3, Zenon DEF Kept, SameRuns

-----------------------------------------------------------------------------
(* Steps that leave most of the state alone.                               *)

\* The lock has one holder, the supervisor in the middle of a start.
LEMMA Holder ==
  ASSUME LockType
  PROVE  /\ lock = None => \A s \in Sups : sup[s].pc \notin {"claimed", "created"}
         /\ \A s \in Sups : sup[s].pc \in {"claimed", "created"} =>
                lock = s /\ lock # None /\ \A t \in Sups : t # s => sup[t].pc \notin {"claimed", "created"}
BY Constants, Zenon DEF LockType

\* The processes, one by one.
LEMMA EachAct ==
  ASSUME ActType, NEW a \in DOMAIN acts
  PROVE  /\ acts[a] \in Act(grants) /\ a \in Nat /\ a > 0 /\ a <= Len(acts)
         /\ acts[a].grant \in grants /\ acts[a].boot \in Nat /\ acts[a].startedAt \in Nat /\ acts[a].after \in Nat
         /\ acts[a].proc \in Live \cup {"dead"} /\ acts[a].class \in ExitClass \cup {None} /\ acts[a].ran \in BOOLEAN
<1>1. acts[a] \in Act(grants) /\ a \in Nat /\ a > 0 /\ a <= Len(acts)
  BY DEF ActType
<1> QED BY <1>1, Zenon DEF Act

\* The generations that ran, when no process starts or is recorded.
LEMMA SameRan ==
  ASSUME NEW x, NEW y, Kept(x, y), SameRuns(x, y)
  PROVE  \A w : Ran(y, w) = Ran(x, w) /\ \A n : Room(x, n, w) => Room(y, n, w)
<1>1. ASSUME NEW w PROVE Ran(y, w) = Ran(x, w)
  BY Zenon DEF Ran, Kept, KeptAct, SameRuns
<1>2. ASSUME NEW w, NEW n, Room(x, n, w) PROVE Room(y, n, w)
  BY <1>1, <1>2, Zenon DEF Room, Kept, KeptAct, SameRuns
<1> QED BY <1>1, <1>2, Zenon

\* A step of a supervisor that starts nothing.
Calm(s) ==
    \/ sup'[s] = sup[s]
    \/ sup'[s] = Idle
    \/ /\ sup[s].pc \in {"started", "waiting", "exited"} /\ sup'[s].pc \in {"started", "waiting", "exited"}
       /\ sup'[s].act = sup[s].act

\* Processes end and supervisors give up, wait or finish; the ledger stands.
LEMMA Quiet ==
  ASSUME IndInv, ClockType', acts' \in Seq(Act(grants)), Kept(acts, acts'), SameRuns(acts, acts'), SupType', LockType',
         \A s \in Sups : Calm(s),
         \A s \in Sups : sup[s].pc = "created" /\ sup'[s] # sup[s] => acts'[sup[s].act].proc = "dead",
         \A a \in DOMAIN acts : acts'[a].boot # boot' => acts'[a].proc = "dead",
         UNCHANGED <<now, remotes, grants, consumed, ledger, observation, reconciliation, release, restart>>
  PROVE  IndInv'
<1>t. /\ ClockType /\ GrantType /\ LedgerType /\ ActType /\ SupType /\ LockType /\ FileType /\ RestartType
      /\ ActsInv /\ GoneInv /\ ReleaseInv /\ StartInv /\ OwnerInv /\ GrantStartsOnce
      /\ AttestInv /\ RestartIsReattested /\ BudgetInv
  BY Zenon DEF IndInv, Types
<1>k. /\ DOMAIN acts' = DOMAIN acts /\ Len(acts') = Len(acts)
      /\ \A a \in DOMAIN acts : /\ KeptAct(acts[a], acts'[a]) /\ acts'[a].ran = acts[a].ran
  BY Zenon DEF Kept, SameRuns
<1>i. Idle.pc = "idle" /\ Idle.act = 0
  BY Zenon DEF Idle
<1>c. ASSUME NEW s \in Sups
      PROVE  /\ sup'[s].pc \in {"claimed", "created"} => sup'[s] = sup[s]
             /\ sup'[s].pc \in {"started", "waiting", "exited"}
                  => sup[s].pc \in {"started", "waiting", "exited"} /\ sup'[s].act = sup[s].act
             /\ sup'[s].pc = "idle" => sup'[s] = sup[s] \/ sup'[s].act = 0
  <2>1. Calm(s)
    BY Zenon
  <2> QED BY <2>1, <1>i, Zenon DEF Calm
<1>1. Types'
  <2>1. ActType'
    BY <1>t, <1>k, Zenon DEF ActType, KeptAct
  <2>2. GrantType' /\ FileType' /\ RestartType' /\ LedgerType'
    BY <1>t, <1>k, Zenon DEF GrantType, FileType, RestartType, LedgerType
  <2> QED BY <2>1, <2>2, Zenon DEF Types
<1>2. ActsInv'
  BY <1>t, <1>k, Zenon DEF ActsInv, KeptAct
<1>3. GoneInv'
  <2>1. \A a : Vanished(acts, a) => Vanished(acts', a)
    BY <1>k, Zenon DEF Vanished, KeptAct
  <2> QED BY <1>t, <2>1, Zenon DEF GoneInv
<1>4. ReleaseInv'
  BY <1>t, Zenon DEF ReleaseInv
<1>5. StartInv'
  <2>1. lock' # None => lock # None
    BY <1>c, Holder, <1>t, Zenon DEF LockType
  <2>2. ASSUME NEW s \in Sups, sup'[s].pc \in {"claimed", "created"}
        PROVE  /\ sup'[s].next # None /\ Follows(sup'[s].next, ledger)
               /\ sup'[s].pc = "claimed" => /\ sup'[s].grant \in grants /\ sup'[s].grant.id \in consumed /\ sup'[s].act = 0
                                            /\ \A a \in DOMAIN acts : acts[a].grant # sup'[s].grant
               /\ sup'[s].pc = "created" => /\ sup'[s].act = Len(acts) /\ sup'[s].act > 0 /\ ~acts[sup'[s].act].ran
                                            /\ ledger # None => ledger.activation # sup'[s].act
    <3>1. sup'[s] = sup[s]
      BY <1>c, <2>2, Zenon
    <3> QED BY <1>t, <2>2, <3>1, Zenon DEF StartInv
  <2>3. ASSUME NEW s \in Sups, sup'[s].pc = "claimed" PROVE \A a \in DOMAIN acts' : acts'[a].grant # sup'[s].grant
    BY <1>k, <2>2, <2>3 DEF KeptAct
  <2>4. ASSUME NEW s \in Sups, sup'[s].pc = "created" PROVE sup'[s].act = Len(acts') /\ ~acts'[sup'[s].act].ran
    <3>1. sup'[s].act = Len(acts) /\ sup'[s].act > 0 /\ ~acts[sup'[s].act].ran
      BY <2>2, <2>4, Zenon
    <3>2. sup'[s].act \in DOMAIN acts
      BY <1>t, <3>1 DEF ActType
    <3> QED BY <1>k, <3>1, <3>2, Zenon
  <2>5. ASSUME NEW s \in Sups, sup'[s].pc \in {"started", "waiting", "exited"}
        PROVE  sup'[s].act \in DOMAIN acts' /\ ledger # None
    BY <1>c, <1>k, <1>t, <2>5, Zenon DEF StartInv
  <2>6. ASSUME NEW s \in Sups, sup'[s].pc = "idle" PROVE sup'[s].act = 0
    BY <1>c, <1>t, <2>6, Zenon DEF StartInv
  <2>7. lock' # None => ledger' = None \/ ledger'.state \in Ended
    BY <1>t, <2>1, Zenon DEF StartInv
  <2> QED BY <2>2, <2>3, <2>4, <2>5, <2>6, <2>7, Zenon DEF StartInv
<1>6. OwnerInv'
  <2> SUFFICES ASSUME NEW a \in DOMAIN acts, acts'[a].proc \in Governed
               PROVE  \/ \E s \in Sups : sup'[s].pc = "created" /\ sup'[s].act = a
                      \/ ledger # None /\ ledger.activation = a /\ ledger.state \in {"RUNNING", "QUARANTINED"}
    BY <1>k, Zenon DEF OwnerInv
  <2>1. acts[a].proc \in Governed /\ acts'[a].proc # "dead"
    BY <1>k, Zenon DEF KeptAct, Governed
  <2> QED BY <1>t, <2>1 DEF OwnerInv
<1>7. GrantStartsOnce' /\ RestartIsReattested'
  <2>1. \A a \in DOMAIN acts : acts'[a].grant = acts[a].grant /\ acts'[a].after = acts[a].after
    BY <1>k, Zenon DEF KeptAct
  <2> QED BY <1>k, <1>t, <2>1, Zenon DEF GrantStartsOnce, RestartIsReattested
<1>8. AttestInv'
  <2>1. EvidenceTime' = EvidenceTime
    BY Zenon DEF EvidenceTime
  <2> QED BY <1>c, <1>t, <2>1, Zenon DEF AttestInv
<1>9. BudgetInv'
  <2>1. \A w : Ran(acts', w) = Ran(acts, w) /\ \A n : Room(acts, n, w) => Room(acts', n, w)
    BY SameRan, Zenon
  <2>2. \A s \in Sups : sup'[s].pc \in {"claimed", "created"} => Room(acts', sup'[s].next.count, sup'[s].next.windowStart)
    BY <1>c, <1>t, <2>1, Zenon DEF BudgetInv
  <2>3. \A a \in DOMAIN acts : acts'[a].ran = acts[a].ran /\ acts'[a].startedAt = acts[a].startedAt
    BY <1>k, Zenon DEF KeptAct
  <2> QED BY <1>k, <1>t, <2>1, <2>2, <2>3, Zenon DEF BudgetInv
<1> QED BY <1>1, <1>2, <1>3, <1>4, <1>5, <1>6, <1>7, <1>8, <1>9, Zenon DEF IndInv

\* Time passes, the device is attested, a grant is issued.
LEMMA Grow ==
  ASSUME IndInv, now' \in Nat, now <= now', remotes \subseteq remotes', grants \subseteq grants', GrantType',
         UNCHANGED <<boot, consumed, acts, ledger, lock, sup, observation, reconciliation, release, restart>>
  PROVE  IndInv'
<1>t. /\ ClockType /\ GrantType /\ LedgerType /\ ActType /\ SupType /\ LockType /\ FileType /\ RestartType
      /\ ActsInv /\ GoneInv /\ ReleaseInv /\ StartInv /\ OwnerInv /\ GrantStartsOnce
      /\ AttestInv /\ RestartIsReattested /\ BudgetInv
  BY Zenon DEF IndInv, Types
<1>1. ClockType' /\ LedgerType' /\ LockType' /\ FileType' /\ RestartType'
  BY <1>t DEF ClockType, LedgerType, LockType, FileType, RestartType
<1>2. ActType'
  <2>1. Act(grants) \subseteq Act(grants')
    BY Zenon DEF Act
  <2>2. acts \in Seq(Act(grants'))
    BY <1>t, <2>1, SeqGrows, Zenon DEF ActType
  <2> QED BY <1>t, <2>2, Zenon DEF ActType
<1>3. SupType'
  <2>1. Supervisor(grants) \subseteq Supervisor(grants')
    BY Zenon DEF Supervisor
  <2> QED BY <1>t, <2>1, Zenon DEF SupType
<1>4. ActsInv'
  <2>1. \A a \in DOMAIN acts : acts[a].startedAt \in Nat
    BY <1>t, EachAct, Zenon
  <2> QED BY <1>t, <2>1 DEF ActsInv, ClockType
<1>5. ReleaseInv'
  <2>1. observation # None => observation.at \in Nat
    BY <1>t, Zenon DEF FileType, Observation
  <2>2. observation # None => observation.at <= now'
    BY <1>t, <2>1 DEF ReleaseInv, ClockType
  <2> QED BY <1>t, <2>2, Zenon DEF ReleaseInv
<1>6. StartInv'
  BY <1>t, Zenon DEF StartInv
<1>7. GoneInv' /\ OwnerInv' /\ GrantStartsOnce' /\ RestartIsReattested' /\ BudgetInv'
  BY <1>t, Zenon DEF GoneInv, OwnerInv, GrantStartsOnce, RestartIsReattested, BudgetInv
<1>8. AttestInv'
  BY <1>t, Zenon DEF AttestInv, EvidenceTime
<1> QED BY <1>1, <1>2, <1>3, <1>4, <1>5, <1>6, <1>7, <1>8, Zenon DEF IndInv, Types

LEMMA TickInd == ASSUME IndInv, Tick PROVE IndInv'
<1>1. /\ now \in Nat /\ now' = now + 1
      /\ UNCHANGED <<boot, consumed, acts, ledger, lock, sup, observation, reconciliation, release, restart, remotes, grants>>
  BY Zenon DEF Tick, host, artifacts, IndInv, Types, ClockType
<1>2. GrantType'
  BY <1>1, Zenon DEF IndInv, Types, GrantType
<1>3. now' \in Nat /\ now <= now'
  BY <1>1
<1> QED BY <1>1, <1>2, <1>3, Grow, Zenon

LEMMA RemoteVerifyInd == ASSUME IndInv, RemoteVerify PROVE IndInv'
<1>1. PICK v \in Verdicts : remotes' = remotes \cup {[at |-> now, verdict |-> v]}
  BY Zenon DEF RemoteVerify
<1>2. UNCHANGED <<now, boot, consumed, acts, ledger, lock, sup, observation, reconciliation, release, restart, grants>>
  BY Zenon DEF RemoteVerify, host, artifacts
<1>3. now \in Nat /\ remotes \subseteq Remote /\ \A g \in grants : g.remote \in remotes
  BY Zenon DEF IndInv, Types, ClockType, GrantType
<1>4. [at |-> now, verdict |-> v] \in Remote
  BY <1>3, Constants, Zenon DEF Remote
<1>5. GrantType'
  BY <1>1, <1>2, <1>3, <1>4, Zenon DEF GrantType
<1> QED BY <1>1, <1>2, <1>3, <1>5, Grow

\* A grant rests on an attestation that was made.
LEMMA IssueInd ==
  ASSUME IndInv, NEW r \in remotes, IssueWorkloadAdmissionGrant(r),
         UNCHANGED <<now, remotes, consumed, ledger, host, artifacts>>
  PROVE  IndInv'
<1>1. grants' = grants \cup {NewGrant(r)} /\ NewGrant(r).remote = r
  BY Zenon DEF IssueWorkloadAdmissionGrant, NewGrant
<1>2. UNCHANGED <<now, remotes, boot, consumed, acts, ledger, lock, sup, observation, reconciliation, release, restart>>
  BY Zenon DEF host, artifacts
<1>3. now \in Nat /\ GrantType
  BY Zenon DEF IndInv, Types, ClockType
<1>4. GrantType'
  BY <1>1, <1>2, <1>3, Zenon DEF GrantType
<1> QED BY <1>1, <1>2, <1>3, <1>4, Grow

LEMMA RestartIssueInd == ASSUME IndInv, AdmissionRestartIssue PROVE IndInv'
<1>1. restart.remote \in remotes
  BY Zenon DEF IndInv, Types, RestartType, AdmissionRestartIssue, IssueRestartWorkloadAdmissionGrant
<1> QED BY <1>1, IssueInd, Zenon DEF AdmissionRestartIssue, IssueRestartWorkloadAdmissionGrant

\* An observation, a reconciliation or a release is written to its file.
LEMMA Files ==
  ASSUME IndInv, FileType', GoneInv', ReleaseInv',
         UNCHANGED <<now, boot, remotes, grants, consumed, acts, ledger, lock, sup, restart>>
  PROVE  IndInv'
<1>t. /\ ClockType /\ GrantType /\ LedgerType /\ ActType /\ SupType /\ LockType /\ RestartType
      /\ ActsInv /\ StartInv /\ OwnerInv /\ GrantStartsOnce
      /\ AttestInv /\ RestartIsReattested /\ BudgetInv
  BY Zenon DEF IndInv, Types
<1>1. Types'
  BY <1>t, Zenon DEF Types, ClockType, GrantType, LedgerType, ActType, SupType, LockType, RestartType
<1>2. ActsInv' /\ StartInv' /\ OwnerInv' /\ GrantStartsOnce' /\ RestartIsReattested' /\ BudgetInv'
  BY <1>t DEF ActsInv, StartInv, OwnerInv, GrantStartsOnce, RestartIsReattested, BudgetInv
<1>3. AttestInv'
  BY <1>t, Zenon DEF AttestInv, EvidenceTime
<1> QED BY <1>1, <1>2, <1>3, Zenon DEF IndInv

LEMMA ApproveInd == ASSUME IndInv, NEW r \in remotes, QuarantineApprove(r) PROVE IndInv'
<1>1. UNCHANGED <<now, boot, remotes, grants, consumed, acts, ledger, lock, sup, restart, observation, reconciliation, release>>
  BY Zenon DEF QuarantineApprove, host
<1>2. FileType' /\ GoneInv' /\ ReleaseInv'
  BY <1>1, Zenon DEF IndInv, Types, FileType, GoneInv, ReleaseInv
<1> QED BY <1>1, <1>2, Files, Zenon

\* What an observation reports as gone is gone.
LEMMA ObserveInd == ASSUME IndInv, ReconcileObserve PROVE IndInv'
<1>1. UNCHANGED <<now, boot, remotes, grants, consumed, acts, ledger, lock, sup, restart, reconciliation, release>>
  BY Zenon DEF ReconcileObserve
<1>t. ClockType /\ LedgerType /\ ActType /\ FileType /\ ActsInv /\ GoneInv /\ ReleaseInv
  BY Zenon DEF IndInv, Types
<1>2. PICK st \in ObservedStates(ledger.activation) \cup {"UNVERIFIABLE"} :
        observation' = [generation |-> ledger.generation, activation |-> ledger.activation,
                        prior |-> IF ledger.state = "QUARANTINED" THEN ledger.recovery ELSE None,
                        state |-> st, at |-> now]
  BY Zenon DEF ReconcileObserve, ObserveOrphanedWorkload
<1>3. ledger \in Ledger /\ ledger.activation \in DOMAIN acts
  BY <1>t, Zenon DEF ReconcileObserve, ObserveOrphanedWorkload, LedgerType
<1>4. acts[ledger.activation].proc \in Live \cup {"dead"}
  BY <1>t, <1>3, EachAct, Zenon
<1>5. /\ st \in {"MATCH_RUNNING", "CGROUP_MISMATCH", "PID_REUSED", "ABSENT", "BOOT_CHANGED", "UNVERIFIABLE"}
      /\ st \in Gone => acts[ledger.activation].proc \notin Governed
  BY <1>t, <1>3, <1>4, Zenon DEF ObservedStates, Gone, Governed, Live, ActsInv
<1>6. observation' \in Observation /\ observation'.activation = ledger.activation /\ observation'.state = st /\ observation'.at = now
  BY <1>2, <1>3, <1>5, <1>t, LedgerFields, Zenon DEF Observation, ClockType
<1>7. FileType'
  BY <1>1, <1>6, <1>t, Zenon DEF FileType
<1>8. GoneInv'
  BY <1>1, <1>3, <1>5, <1>6, <1>t, Zenon DEF GoneInv, Vanished
<1>9. ReleaseInv'
  BY <1>1, <1>6, <1>t DEF ReleaseInv, ClockType
<1> QED BY <1>1, <1>7, <1>8, <1>9, Files, Zenon

\* A decision to mark the workload exited rests on such an observation.
LEMMA DecideInd == ASSUME IndInv, ReconcileDecide PROVE IndInv'
<1>1. UNCHANGED <<now, boot, remotes, grants, consumed, acts, ledger, lock, sup, restart, observation, release>>
  BY Zenon DEF ReconcileDecide, host
<1>t. ClockType /\ LedgerType /\ FileType /\ GoneInv /\ ReleaseInv
  BY Zenon DEF IndInv, Types
<1>2. /\ ledger \in Ledger /\ observation # None /\ observation \in Observation
      /\ observation.activation = ledger.activation
      /\ reconciliation' = [generation |-> ledger.generation, activation |-> ledger.activation,
                            outcome |-> ReconciliationOutcome(observation.state),
                            observedAt |-> observation.at, decidedAt |-> now]
  BY <1>t, Zenon DEF ReconcileDecide, EvaluateWorkloadReconciliation, VerifySignedWorkloadRecoveryObservation, LedgerType, FileType
<1>3. /\ ReconciliationOutcome(observation.state) \in {"KEEP_RUNNING", "MARK_EXITED_UNKNOWN", "QUARANTINE"}
      /\ ReconciliationOutcome(observation.state) = "MARK_EXITED_UNKNOWN" => observation.state \in Gone
  BY Zenon DEF ReconciliationOutcome
<1>4. ledger.generation \in Nat /\ ledger.activation \in Nat /\ observation.at \in Nat /\ now \in Nat
  BY <1>2, <1>t, LedgerFields, Zenon DEF Observation, ClockType
<1>5. /\ reconciliation' \in Reconciliation /\ reconciliation'.activation = observation.activation
      /\ reconciliation'.outcome = ReconciliationOutcome(observation.state)
  BY <1>2, <1>3, <1>4, Zenon DEF Reconciliation
<1>6. FileType' /\ ReleaseInv'
  BY <1>1, <1>5, <1>t, Zenon DEF FileType, ReleaseInv
<1>7. GoneInv'
  BY <1>1, <1>2, <1>3, <1>5, <1>t, Zenon DEF GoneInv
<1> QED BY <1>1, <1>6, <1>7, Files, Zenon

\* A release rests on a clearance that saw the process gone.
LEMMA ReleaseDecideInd == ASSUME IndInv, NEW r \in remotes, QuarantineReleaseDecide(r) PROVE IndInv'
<1>1. UNCHANGED <<now, boot, remotes, grants, consumed, acts, ledger, lock, sup, restart, observation, reconciliation>>
  BY Zenon DEF QuarantineReleaseDecide, host
<1>t. ClockType /\ GrantType /\ LedgerType /\ FileType /\ GoneInv /\ ReleaseInv
  BY Zenon DEF IndInv, Types
<1>2. /\ ledger # None /\ reconciliation = ledger.recovery /\ reconciliation.outcome = "QUARANTINE"
      /\ ledger.state = "QUARANTINED"
      /\ observation # None /\ observation.activation = ledger.activation /\ observation.state \in Gone
      /\ observation.at > reconciliation.decidedAt /\ r.at > observation.at /\ r.verdict = "ALLOW"
      /\ release' = [generation |-> ledger.generation, epoch |-> ledger.epoch,
                     activation |-> ledger.activation, quarantine |-> ledger.recovery,
                     clearedAt |-> observation.at, remote |-> r,
                     decidedAt |-> now, expires |-> now + ReleaseTTL]
  BY Zenon DEF QuarantineReleaseDecide, EvaluateQuarantineRelease, ValidateQuarantineReleaseEvidence, FreshRemote,
         VerifySignedWorkloadRecoveryObservation
<1>3. /\ ledger \in Ledger /\ observation \in Observation /\ ledger.recovery # None
      /\ reconciliation \in Reconciliation /\ r \in Remote
  BY <1>2, <1>t, Zenon DEF LedgerType, FileType, GrantType, ValidateWorkloadLifecycleState
<1>4. /\ ledger.generation \in Nat /\ ledger.epoch \in Nat /\ ledger.activation \in Nat /\ observation.at \in Nat
      /\ now \in Nat /\ now + ReleaseTTL \in Nat
  <2>1. ReleaseTTL \in Nat
    BY LifecycleAssumption, Zenon
  <2>2. observation.at \in Nat
    BY <1>3, Zenon DEF Observation
  <2>3. now \in Nat
    BY <1>t, Zenon DEF ClockType
  <2> QED BY <1>3, <2>1, <2>2, <2>3, LedgerFields
<1>5. /\ release' \in Release /\ release'.activation = observation.activation /\ release'.clearedAt = observation.at
      /\ release'.quarantine = reconciliation /\ release'.remote = r /\ release'.decidedAt = now
  BY <1>2, <1>3, <1>4, Zenon DEF Release
<1>6. FileType'
  BY <1>1, <1>5, <1>t, Zenon DEF FileType
<1>7. GoneInv'
  BY <1>1, <1>2, <1>5, <1>t, Zenon DEF GoneInv
<1>8. ReleaseInv'
  BY <1>1, <1>2, <1>5, <1>t, Zenon DEF ReleaseInv
<1> QED BY <1>1, <1>6, <1>7, <1>8, Files, Zenon

-----------------------------------------------------------------------------
(* The steps in which processes end and supervisors finish.                *)

\* A supervisor's process, if it has one, exists.
LEMMA ItsAct ==
  ASSUME IndInv, NEW s \in Sups
  PROVE  /\ sup[s].act = 0 \/ sup[s].act \in DOMAIN acts
         /\ sup[s].pc = "created" => sup[s].act \in DOMAIN acts /\ sup[s].act # 0
         /\ acts \in Seq(Act(grants)) /\ \A b \in DOMAIN acts : acts[b].proc = "dead" => acts[b].class \in ExitClass
         /\ sup \in [Sups -> Supervisor(grants)]
<1>1. /\ acts \in Seq(Act(grants)) /\ \A b \in DOMAIN acts : acts[b].proc = "dead" => acts[b].class \in ExitClass
      /\ sup \in [Sups -> Supervisor(grants)] /\ StartInv
  BY Zenon DEF IndInv, Types, ActType, ActsInv, SupType
<1>2. sup[s].pc = "created" => sup[s].act \in DOMAIN acts /\ sup[s].act # 0
  BY <1>1 DEF StartInv
<1>3. sup[s].pc \in {"idle", "claimed", "created", "started", "waiting", "exited"}
  BY <1>1, SupFields, Zenon
<1>4. sup[s].act = 0 \/ sup[s].act \in DOMAIN acts
  BY <1>1, <1>2, <1>3, Zenon DEF StartInv
<1> QED BY <1>1, <1>2, <1>4, Zenon

\* The boots of processes that are kept.
LEMMA BootKept ==
  ASSUME IndInv, Kept(acts, acts'), UNCHANGED boot
  PROVE  \A a \in DOMAIN acts : acts'[a].boot # boot' => acts'[a].proc = "dead"
BY Zenon DEF IndInv, ActsInv, Kept, KeptAct

\* No process changes.
LEMMA NoneChanges ==
  ASSUME IndInv, UNCHANGED acts
  PROVE  acts' \in Seq(Act(grants)) /\ Kept(acts, acts') /\ SameRuns(acts, acts')
<1>1. acts \in Seq(Act(grants)) /\ ActType /\ ActsInv
  BY Zenon DEF IndInv, Types, ActType
<1>2. \A a \in DOMAIN acts : KeptAct(acts[a], acts[a])
  BY <1>1, EachAct, ActFields, Zenon DEF ActsInv
<1> QED BY <1>1, <1>2, Zenon DEF Kept, SameRuns

LEMMA ProcessInd == ASSUME IndInv, NEW a \in DOMAIN acts, ProcessStep(a) PROVE IndInv'
<1>1. UNCHANGED <<now, remotes, grants, consumed, ledger, boot, lock, sup, observation, reconciliation, release, restart>>
  BY Zenon DEF ProcessStep, artifacts
<1>2. acts \in Seq(Act(grants)) /\ \A b \in DOMAIN acts : acts[b].proc = "dead" => acts[b].class \in ExitClass
  BY Zenon DEF IndInv, Types, ActType, ActsInv
<1>3. acts' \in Seq(Act(grants)) /\ Kept(acts, acts') /\ SameRuns(acts, acts')
  BY <1>2, StepKeeps, Zenon
<1>4. ClockType' /\ SupType' /\ LockType'
  BY <1>1, Zenon DEF IndInv, Types, ClockType, SupType, LockType
<1>5. \A s \in Sups : Calm(s) /\ sup'[s] = sup[s]
  BY <1>1, Zenon DEF Calm
<1> QED BY <1>1, <1>3, <1>4, <1>5, BootKept, Quiet, Zenon

LEMMA RebootInd == ASSUME IndInv, Reboot PROVE IndInv'
<1>1. UNCHANGED <<now, remotes, grants, consumed, ledger, observation, reconciliation, release, restart>>
  BY Zenon DEF Reboot, artifacts
<1>2. acts \in Seq(Act(grants)) /\ \A b \in DOMAIN acts : acts[b].proc = "dead" => acts[b].class \in ExitClass
  BY Zenon DEF IndInv, Types, ActType, ActsInv
<1>3. /\ acts' \in Seq(Act(grants)) /\ Kept(acts, acts') /\ SameRuns(acts, acts')
      /\ \A a \in DOMAIN acts : acts'[a].proc = "dead"
  BY <1>2, RebootKeeps, Zenon
<1>4. boot' = boot + 1 /\ sup' = [s \in Sups |-> Idle] /\ lock' = None
  BY Zenon DEF Reboot
<1>5. ClockType'
  BY <1>1, <1>4 DEF IndInv, Types, ClockType
<1>6. Idle \in Supervisor(grants') /\ Idle.pc = "idle"
  BY Zenon DEF Idle, Supervisor
<1>7. SupType' /\ LockType'
  BY <1>4, <1>6, Constants, Zenon DEF SupType, LockType
<1>8. \A s \in Sups : Calm(s)
  BY <1>4, Zenon DEF Calm
<1>9. \A s \in Sups : sup[s].pc = "created" => acts'[sup[s].act].proc = "dead"
  BY <1>3, ItsAct, Zenon
<1> QED BY <1>1, <1>3, <1>5, <1>7, <1>8, <1>9, Quiet, Zenon

\* One supervisor moves on, or ends with its process.
LEMMA OneSup ==
  ASSUME IndInv, NEW s \in Sups, NEW r \in Supervisor(grants), sup' = [sup EXCEPT ![s] = r],
         acts' \in Seq(Act(grants)), Kept(acts, acts'), SameRuns(acts, acts'),
         UNCHANGED <<now, remotes, grants, consumed, ledger, boot, observation, reconciliation, release, restart>>,
         lock' = IF lock = s THEN None ELSE lock,
         \/ r = Idle
         \/ /\ sup[s].pc \in {"started", "waiting", "exited"} /\ r.pc \in {"started", "waiting", "exited"}
            /\ r.act = sup[s].act,
         sup[s].pc = "created" => acts'[sup[s].act].proc = "dead"
  PROVE  IndInv'
<1>1. sup' \in [Sups -> Supervisor(grants)] /\ sup'[s] = r /\ \A t \in Sups : t # s => sup'[t] = sup[t]
  <2>1. sup \in [Sups -> Supervisor(grants)]
    BY Zenon DEF IndInv, Types, SupType
  <2> QED BY <2>1, Zenon
<1>2. Idle.pc = "idle"
  BY Zenon DEF Idle
<1>3. ClockType' /\ SupType'
  BY <1>1, Zenon DEF IndInv, Types, ClockType, SupType
<1>4. LockType'
  <2>1. LockType
    BY Zenon DEF IndInv, Types
  <2>2. r.pc \notin {"claimed", "created"}
    BY <1>2, Zenon
  <2> QED BY <1>1, <2>1, <2>2, Constants, Zenon DEF LockType
<1>5. \A t \in Sups : Calm(t)
  BY <1>1, Zenon DEF Calm
<1>6. \A t \in Sups : sup[t].pc = "created" /\ sup'[t] # sup[t] => acts'[sup[t].act].proc = "dead"
  BY <1>1, Zenon
<1> QED BY <1>3, <1>4, <1>5, <1>6, BootKept, Quiet, Zenon

\* Idle is a supervisor.
LEMMA IdleSup == \A G : Idle \in Supervisor(G)
BY Zenon DEF Idle, Supervisor

LEMMA CrashInd == ASSUME IndInv, NEW s \in Sups, SupervisorCrash(s) PROVE IndInv'
<1>1. /\ UNCHANGED <<now, remotes, grants, consumed, ledger, boot, observation, reconciliation, release, restart>>
      /\ acts' = Killed(sup[s].act) /\ sup' = [sup EXCEPT ![s] = Idle] /\ lock' = IF lock = s THEN None ELSE lock
  BY Zenon DEF SupervisorCrash, artifacts
<1>2. /\ Killed(sup[s].act) \in Seq(Act(grants)) /\ Kept(acts, Killed(sup[s].act)) /\ SameRuns(acts, Killed(sup[s].act))
      /\ sup[s].act # 0 => Killed(sup[s].act)[sup[s].act].proc = "dead"
  BY ItsAct, KillKeeps, Zenon
<1>3. acts' \in Seq(Act(grants)) /\ Kept(acts, acts') /\ SameRuns(acts, acts')
  BY <1>1, <1>2, Zenon
<1>4. sup[s].pc = "created" => acts'[sup[s].act].proc = "dead"
  BY <1>1, <1>2, ItsAct, Zenon
<1> QED BY <1>1, <1>3, <1>4, IdleSup, OneSup, Zenon

LEMMA ReceiptInd == ASSUME IndInv, NEW s \in Sups, WriteActivationReceipt(s) PROVE IndInv'
<1> DEFINE r == Super("waiting", sup[s].act, sup[s].grant, sup[s].next)
<1>1. /\ UNCHANGED <<now, remotes, grants, consumed, ledger, boot, lock, observation, reconciliation, release, restart>>
      /\ sup[s].pc = "started" /\ sup' = [sup EXCEPT ![s].pc = "waiting"]
  BY Zenon DEF WriteActivationReceipt, artifacts
<1>2. sup \in [Sups -> Supervisor(grants)] /\ LockType
  BY Zenon DEF IndInv, Types, SupType
<1>3. /\ sup[s].act \in Nat /\ sup[s].grant \in grants \cup {None} /\ sup[s].next \in Ledger \cup {None}
  BY <1>2, SupFields, Zenon
<1>8. [sup EXCEPT ![s].pc = "waiting"] = [sup EXCEPT ![s] = r]
  BY <1>2, SupPc, ZenonT(40)
<1>4. r \in Supervisor(grants) /\ r.pc = "waiting" /\ r.act = sup[s].act
  BY <1>3, SuperFields
<1>5. sup' = [sup EXCEPT ![s] = r]
  BY <1>1, <1>8, Zenon
<1>6. lock' = IF lock = s THEN None ELSE lock
  BY <1>1, <1>2, Zenon DEF LockType
<1>7. acts' \in Seq(Act(grants)) /\ Kept(acts, acts') /\ SameRuns(acts, acts')
  <2>1. CASE UNCHANGED acts
    BY <2>1, NoneChanges, Zenon
  <2>2. CASE acts' = Killed(sup[s].act)
    <3>1. /\ Killed(sup[s].act) \in Seq(Act(grants)) /\ Kept(acts, Killed(sup[s].act))
          /\ SameRuns(acts, Killed(sup[s].act))
      BY ItsAct, KillKeeps, Zenon
    <3> QED BY <2>2, <3>1, Zenon
  <2> QED BY <2>1, <2>2, Zenon DEF WriteActivationReceipt
<1> HIDE DEF r
<1> QED BY <1>1, <1>4, <1>5, <1>6, <1>7, OneSup, Zenon

LEMMA ExitReceiptInd == ASSUME IndInv, NEW s \in Sups, WriteExitReceipt(s) PROVE IndInv'
<1>1. /\ UNCHANGED <<now, remotes, grants, consumed, ledger, boot, acts, lock, observation, reconciliation, release, restart>>
      /\ sup[s].pc = "exited" /\ sup' = [sup EXCEPT ![s] = Idle]
  BY Zenon DEF WriteExitReceipt, artifacts
<1>2. lock' = IF lock = s THEN None ELSE lock
  BY <1>1, Zenon DEF IndInv, Types, LockType
<1> QED BY <1>1, <1>2, IdleSup, NoneChanges, OneSup, Zenon

-----------------------------------------------------------------------------
(* The steps that mark the ledger.                                         *)

\* With the lock free, the ledger is marked for the process it names.
LEMMA Marked ==
  ASSUME IndInv, lock = None, ledger # None, ledger' \in Ledger, ValidateWorkloadLifecycleState(ledger'),
         ledger'.generation = ledger.generation, ledger'.activation = ledger.activation,
         ledger'.count = ledger.count, ledger'.windowStart = ledger.windowStart,
         ledger'.state \in Ended => acts[ledger.activation].proc \notin Governed,
         SupType', \A s \in Sups : Calm(s),
         UNCHANGED <<now, boot, remotes, grants, consumed, acts, lock, observation, reconciliation, release, restart>>
  PROVE  IndInv'
<1>t. /\ ClockType /\ GrantType /\ LedgerType /\ ActType /\ SupType /\ LockType /\ FileType /\ RestartType
      /\ ActsInv /\ GoneInv /\ ReleaseInv /\ StartInv /\ OwnerInv /\ GrantStartsOnce
      /\ AttestInv /\ RestartIsReattested /\ BudgetInv
  BY Zenon DEF IndInv, Types
<1>n. ledger' # None /\ ledger'.state \in {"RUNNING", "EXITED", "EXITED_UNKNOWN", "QUARANTINED"}
  BY LedgerFields, Zenon
<1>c. ASSUME NEW s \in Sups
      PROVE  /\ sup[s].pc \notin {"claimed", "created"} /\ sup'[s].pc \notin {"claimed", "created"}
             /\ sup'[s].pc \in {"started", "waiting", "exited"}
                  => sup[s].pc \in {"started", "waiting", "exited"} /\ sup'[s].act = sup[s].act
             /\ sup'[s].pc = "idle" => sup'[s] = sup[s] \/ sup'[s].act = 0
  <2>1. Calm(s) /\ sup[s].pc \notin {"claimed", "created"}
    BY <1>t, Holder, Zenon
  <2>2. Idle.pc = "idle" /\ Idle.act = 0
    BY Zenon DEF Idle
  <2> QED BY <2>1, <2>2, Zenon DEF Calm
<1>1. Types'
  <2>1. LedgerType'
    BY <1>t, Zenon DEF LedgerType
  <2>2. LockType'
    BY <1>c, <1>t, Constants, Zenon DEF LockType
  <2>3. ClockType' /\ GrantType' /\ ActType' /\ FileType' /\ RestartType'
    BY <1>t, Zenon DEF ClockType, GrantType, ActType, FileType, RestartType
  <2> QED BY <2>1, <2>2, <2>3, Zenon DEF Types
<1>2. ActsInv' /\ GoneInv' /\ ReleaseInv' /\ GrantStartsOnce' /\ RestartIsReattested'
  BY <1>t, Zenon DEF ActsInv, GoneInv, ReleaseInv, GrantStartsOnce, RestartIsReattested
<1>3. StartInv'
  BY <1>c, <1>n, <1>t, Zenon DEF StartInv
<1>4. OwnerInv'
  <2> SUFFICES ASSUME NEW a \in DOMAIN acts, acts[a].proc \in Governed
               PROVE  ledger'.activation = a /\ ledger'.state \in {"RUNNING", "QUARANTINED"}
    BY <1>n, Zenon DEF OwnerInv
  <2>1. ledger.activation = a
    BY <1>c, <1>t, Zenon DEF OwnerInv
  <2> QED BY <1>n, <2>1, Zenon DEF Ended
<1>5. AttestInv'
  BY <1>c, <1>t, Zenon DEF AttestInv
<1>6. BudgetInv'
  BY <1>c, <1>n, <1>t, Zenon DEF BudgetInv
<1> QED BY <1>1, <1>2, <1>3, <1>4, <1>5, <1>6, Zenon DEF IndInv

\* Nothing else holds a supervisor.
LEMMA SupsKept == ASSUME IndInv, UNCHANGED <<sup, grants>> PROVE SupType' /\ \A s \in Sups : Calm(s)
BY Zenon DEF IndInv, Types, SupType, Calm

\* A reconciliation marks the workload exited only when its process is gone.
LEMMA ApplyInd == ASSUME IndInv, ReconcileApply PROVE IndInv'
<1>1. UNCHANGED <<now, remotes, grants, consumed, boot, acts, lock, sup, observation, reconciliation, release, restart>>
  BY Zenon DEF ReconcileApply, host, artifacts
<1>t. LedgerType /\ FileType /\ GoneInv
  BY Zenon DEF IndInv, Types
<1>2. /\ lock = None /\ ledger # None /\ reconciliation # None /\ ledger.state = "RUNNING"
      /\ reconciliation.activation = ledger.activation
      /\ ledger' = CASE reconciliation.outcome = "KEEP_RUNNING" -> ledger
                     [] reconciliation.outcome = "MARK_EXITED_UNKNOWN" ->
                          [ledger EXCEPT !.state = "EXITED_UNKNOWN", !.recovery = reconciliation]
                     [] reconciliation.outcome = "QUARANTINE" ->
                          [ledger EXCEPT !.state = "QUARANTINED", !.recovery = reconciliation]
  BY Zenon DEF ReconcileApply, ApplyWorkloadReconciliation, VerifySignedWorkloadReconciliationDecision
<1>3. /\ ledger \in Ledger /\ reconciliation \in Reconciliation /\ reconciliation \in Recovery
      /\ ValidateWorkloadLifecycleState(ledger)
  BY <1>2, <1>t, Zenon DEF LedgerType, FileType, Recovery
<1>4. reconciliation.outcome \in {"KEEP_RUNNING", "MARK_EXITED_UNKNOWN", "QUARANTINE"} /\ reconciliation # None
  BY <1>2, <1>3, Zenon DEF Reconciliation
<1>5. CASE reconciliation.outcome = "KEEP_RUNNING"
  <2>1. ledger' = ledger
    BY <1>2, <1>5, Zenon
  <2> QED BY <1>1, <1>2, <1>3, <2>1, Marked, SupsKept, Zenon DEF Ended
<1>6. ASSUME NEW st \in {"EXITED_UNKNOWN", "QUARANTINED"},
             ledger' = [ledger EXCEPT !.state = st, !.recovery = reconciliation],
             st = "EXITED_UNKNOWN" => acts[ledger.activation].proc \notin Governed
      PROVE  IndInv'
  <2>1. [ledger EXCEPT !.state = st, !.recovery = reconciliation]
          = Book(st, ledger.generation, ledger.epoch, ledger.activation, ledger.exit, reconciliation, ledger.count, ledger.windowStart)
    BY <1>3, LedgerShapes, Zenon
  <2>2. ledger' = Book(st, ledger.generation, ledger.epoch, ledger.activation, ledger.exit, reconciliation, ledger.count, ledger.windowStart)
    BY <1>6, <2>1, Zenon
  <2>3. /\ ledger' \in Ledger /\ ledger'.state = st /\ ledger'.generation = ledger.generation
        /\ ledger'.epoch = ledger.epoch /\ ledger'.activation = ledger.activation /\ ledger'.exit = ledger.exit
        /\ ledger'.recovery = reconciliation /\ ledger'.count = ledger.count /\ ledger'.windowStart = ledger.windowStart
    BY <1>3, <2>2, BookFields, LedgerFields
  <2>4. ValidateWorkloadLifecycleState(ledger')
    BY <1>2, <1>3, <1>4, <2>3, Zenon DEF ValidateWorkloadLifecycleState
  <2>5. ledger'.state \in Ended => acts[ledger.activation].proc \notin Governed
    BY <1>6, <2>3, Zenon DEF Ended
  <2> QED BY <1>1, <1>2, <2>3, <2>4, <2>5, Marked, SupsKept, Zenon
<1>7. CASE reconciliation.outcome = "MARK_EXITED_UNKNOWN"
  <2>1. ledger' = [ledger EXCEPT !.state = "EXITED_UNKNOWN", !.recovery = reconciliation]
    BY <1>2, <1>7, Zenon
  <2>2. acts[ledger.activation].proc \notin Governed
    BY <1>2, <1>7, <1>t, Zenon DEF GoneInv, Vanished
  <2> QED BY <1>6, <2>1, <2>2, Zenon
<1>8. CASE reconciliation.outcome = "QUARANTINE"
  <2>1. ledger' = [ledger EXCEPT !.state = "QUARANTINED", !.recovery = reconciliation]
    BY <1>2, <1>8, Zenon
  <2> QED BY <1>6, <2>1, Zenon
<1> QED BY <1>4, <1>5, <1>7, <1>8, Zenon

\* A release ends the quarantine of a process that is gone.
LEMMA ReleaseApplyInd == ASSUME IndInv, QuarantineReleaseApply PROVE IndInv'
<1>1. UNCHANGED <<now, remotes, grants, consumed, boot, acts, lock, sup, observation, reconciliation, release, restart>>
  BY Zenon DEF QuarantineReleaseApply, host, artifacts
<1>t. LedgerType /\ FileType /\ GoneInv
  BY Zenon DEF IndInv, Types
<1>2. /\ lock = None /\ ledger # None /\ release # None /\ ledger.state = "QUARANTINED"
      /\ release.activation = ledger.activation
      /\ ledger' = [ledger EXCEPT !.state = "EXITED_UNKNOWN", !.epoch = @ + 1, !.recovery = release]
  BY Zenon DEF QuarantineReleaseApply, ApplyQuarantineRelease
<1>3. ledger \in Ledger /\ release \in Recovery /\ ValidateWorkloadLifecycleState(ledger)
  BY <1>2, <1>t, Zenon DEF LedgerType, FileType, Recovery
<1>4. [ledger EXCEPT !.state = "EXITED_UNKNOWN", !.epoch = @ + 1, !.recovery = release]
        = Book("EXITED_UNKNOWN", ledger.generation, ledger.epoch + 1, ledger.activation, ledger.exit, release, ledger.count, ledger.windowStart)
  BY <1>3, LedgerShapes, Zenon
<1>5. ledger' = Book("EXITED_UNKNOWN", ledger.generation, ledger.epoch + 1, ledger.activation, ledger.exit, release, ledger.count, ledger.windowStart)
  BY <1>2, <1>4, Zenon
<1>6. ledger.epoch \in Nat /\ ledger.epoch + 1 \in Nat
  BY <1>3, LedgerFields
<1>7. /\ ledger' \in Ledger /\ ledger'.state = "EXITED_UNKNOWN" /\ ledger'.generation = ledger.generation
      /\ ledger'.epoch = ledger.epoch + 1 /\ ledger'.activation = ledger.activation /\ ledger'.exit = ledger.exit
      /\ ledger'.recovery = release /\ ledger'.count = ledger.count /\ ledger'.windowStart = ledger.windowStart
  BY <1>3, <1>5, <1>6, BookFields, LedgerFields
<1>8. ValidateWorkloadLifecycleState(ledger')
  BY <1>2, <1>3, <1>6, <1>7 DEF ValidateWorkloadLifecycleState
<1>9. acts[ledger.activation].proc \notin Governed
  BY <1>2, <1>t, Zenon DEF GoneInv, Vanished
<1> QED BY <1>1, <1>2, <1>7, <1>8, <1>9, Marked, SupsKept, Zenon

\* A supervisor marks the ledger EXITED after its process has ended.
LEMMA WaitInd == ASSUME IndInv, NEW s \in Sups, WaitGovernedWorkload(s) PROVE IndInv'
<1> DEFINE a == sup[s].act
           x == [activation |-> a, class |-> acts[a].class, at |-> now]
<1>1. /\ UNCHANGED <<now, remotes, grants, consumed, boot, acts, lock, observation, reconciliation, release, restart>>
      /\ sup[s].pc = "waiting" /\ acts[a].proc = "dead" /\ lock = None
  BY Zenon DEF WaitGovernedWorkload, artifacts
<1>t. LedgerType /\ ActType /\ ActsInv /\ ClockType /\ StartInv /\ sup \in [Sups -> Supervisor(grants)]
  BY Zenon DEF IndInv, Types, SupType
<1>2. a \in DOMAIN acts /\ ledger # None
  BY <1>1, <1>t, Zenon DEF StartInv
<1>3. CASE ledger.state = "RUNNING" /\ ledger.activation = a
  <2>1. ledger' = [ledger EXCEPT !.state = "EXITED", !.exit = x] /\ sup' = [sup EXCEPT ![s].pc = "exited"]
    BY <1>3, Zenon DEF WaitGovernedWorkload
  <2>2. acts[a].class \in ExitClass /\ a \in Nat /\ now \in Nat
    BY <1>1, <1>2, <1>t, EachAct, Zenon DEF ActsInv, ClockType
  <2>3. x \in Exit /\ x # None
    BY <2>2, Constants DEF Exit
  <2> HIDE DEF x
  <2>4. ledger \in Ledger /\ ValidateWorkloadLifecycleState(ledger)
    BY <1>2, <1>t, Zenon DEF LedgerType
  <2>5. [ledger EXCEPT !.state = "EXITED", !.exit = x]
          = Book("EXITED", ledger.generation, ledger.epoch, ledger.activation, x, ledger.recovery, ledger.count, ledger.windowStart)
    BY <2>4, LedgerShapes, Zenon
  <2>6. ledger' = Book("EXITED", ledger.generation, ledger.epoch, ledger.activation, x, ledger.recovery, ledger.count, ledger.windowStart)
    BY <2>1, <2>5, Zenon
  <2>7. /\ ledger' \in Ledger /\ ledger'.state = "EXITED" /\ ledger'.generation = ledger.generation
        /\ ledger'.epoch = ledger.epoch /\ ledger'.activation = ledger.activation /\ ledger'.exit = x
        /\ ledger'.recovery = ledger.recovery /\ ledger'.count = ledger.count /\ ledger'.windowStart = ledger.windowStart
    BY <2>3, <2>4, <2>6, BookFields, LedgerFields
  <2>8. ValidateWorkloadLifecycleState(ledger')
    BY <1>3, <2>3, <2>4, <2>7, Zenon DEF ValidateWorkloadLifecycleState
  <2>9. acts[ledger.activation].proc \notin Governed
    BY <1>1, <1>3, Zenon DEF Governed
  <2> DEFINE r == Super("exited", sup[s].act, sup[s].grant, sup[s].next)
  <2>10. sup' = [sup EXCEPT ![s] = r]
    <3>1. [sup EXCEPT ![s].pc = "exited"] = [sup EXCEPT ![s] = r]
      BY <1>t, SupPc, ZenonT(40)
    <3> QED BY <2>1, <3>1, Zenon
  <2>11. r \in Supervisor(grants) /\ r.pc = "exited" /\ r.act = sup[s].act
    <3>1. sup[s].act \in Nat /\ sup[s].grant \in grants \cup {None} /\ sup[s].next \in Ledger \cup {None}
      BY <1>t, SupFields, Zenon
    <3> QED BY <3>1, SuperFields
  <2> HIDE DEF r
  <2>12. sup' \in [Sups -> Supervisor(grants)] /\ sup'[s] = r /\ \A t \in Sups : t # s => sup'[t] = sup[t]
    BY <1>t, <2>10, <2>11, Zenon
  <2>13. SupType' /\ \A t \in Sups : Calm(t)
    BY <1>1, <2>11, <2>12, Zenon DEF SupType, Calm
  <2> QED BY <1>1, <1>2, <2>7, <2>8, <2>9, <2>13, Marked, Zenon
<1>4. CASE ~(ledger.state = "RUNNING" /\ ledger.activation = a)
  <2>1. ledger' = ledger /\ sup' = [sup EXCEPT ![s] = Idle]
    BY <1>4, Zenon DEF WaitGovernedWorkload
  <2>2. lock' = IF lock = s THEN None ELSE lock
    BY <1>1, Zenon
  <2> QED BY <1>1, <2>1, <2>2, IdleSup, NoneChanges, OneSup, Zenon
<1> QED BY <1>3, <1>4, Zenon

-----------------------------------------------------------------------------
(* The restart budget.                                                     *)

\* What the proofs use of finite sets: one more element, and sequences.
Counting ==
    /\ \A S, T, a : IsFiniteSet(S) /\ T \subseteq S \cup {a}
                      => /\ Cardinality(S) \in Nat /\ Cardinality(T) \in Nat
                         /\ Cardinality(T) <= Cardinality(S) + 1
    /\ Cardinality({}) = 0 /\ IsFiniteSet({})
    /\ \A n \in Nat : \A S \in SUBSET (1..n) : IsFiniteSet(S) /\ Cardinality(S) \in Nat

\* The generations that ran are finitely many.
LEMMA RanFinite ==
  ASSUME Counting, NEW S, NEW x \in Seq(S), NEW w
  PROVE  IsFiniteSet(Ran(x, w)) /\ Cardinality(Ran(x, w)) \in Nat
<1>1. Len(x) \in Nat /\ DOMAIN x = 1..Len(x)
  OBVIOUS
<1>2. Ran(x, w) \in SUBSET (1..Len(x))
  BY <1>1, Zenon DEF Ran
<1> QED BY <1>1, <1>2, Zenon DEF Counting

\* Room that is there.
LEMMA HasRoom ==
  ASSUME NEW x, NEW n, NEW w, n <= MaxRestarts, Cardinality(Ran(x, w)) <= n,
         \A b \in DOMAIN x : x[b].ran => x[b].startedAt < w + Window
  PROVE  Room(x, n, w)
BY Zenon DEF Room

-----------------------------------------------------------------------------
(* The start of a process.                                                 *)

\* The evidence of a ledger that ended is the lineage of a restart from it.
LEMMA Evidence ==
  ASSUME LedgerType, ledger = None \/ ledger.state \in Ended
  PROVE  /\ EvidenceTime \in Nat
         /\ ledger # None => EvidenceTime = Lineage(ledger.exit, ledger.recovery)
<1>1. CASE ledger = None
  BY <1>1, Zenon DEF EvidenceTime
<1>2. CASE ledger # None
  <2>1. /\ ledger \in Ledger /\ ledger.exit \in Exit \cup {None} /\ ledger.recovery \in Recovery \cup {None}
        /\ ValidateWorkloadLifecycleState(ledger)
    BY <1>2, LedgerFields, Zenon DEF LedgerType
  <2>2. CASE ledger.state = "EXITED"
    <3>1. ledger.exit # None /\ ledger.exit \in Exit
      BY <2>1, <2>2, Zenon DEF ValidateWorkloadLifecycleState
    <3>2. ledger.exit.at \in Nat
      BY <3>1, Zenon DEF Exit
    <3> QED BY <1>2, <2>2, <3>1, <3>2, Zenon DEF EvidenceTime, Lineage
  <2>3. CASE ledger.state = "EXITED_UNKNOWN"
    <3>1. ledger.exit = None /\ ledger.recovery \in Recovery
      BY <2>1, <2>3, Zenon DEF ValidateWorkloadLifecycleState
    <3>2. ASSUME NEW r \in Recovery PROVE r.decidedAt \in Nat /\ ("clearedAt" \in DOMAIN r => r.clearedAt \in Nat)
      <4>1. CASE r \in Reconciliation
        BY <4>1, Zenon DEF Reconciliation
      <4>2. CASE r \in Release
        BY <4>2, Zenon DEF Release
      <4> QED BY <4>1, <4>2, Zenon DEF Recovery
    <3> DEFINE t == IF "clearedAt" \in DOMAIN ledger.recovery THEN ledger.recovery.clearedAt ELSE ledger.recovery.decidedAt
    <3>3. EvidenceTime = t
      BY <1>2, <2>3, Zenon DEF EvidenceTime
    <3>4. Lineage(ledger.exit, ledger.recovery) = t
      BY <3>1, Zenon DEF Lineage
    <3>5. t \in Nat
      BY <3>1, <3>2, Zenon
    <3> HIDE DEF t
    <3> QED BY <3>3, <3>4, <3>5, Zenon
  <2> QED BY <1>2, <2>2, <2>3, Zenon DEF Ended
<1> QED BY <1>1, <1>2, Zenon

\* The ledger that a start will write.
LEMMA NextFollows ==
  ASSUME Types, NEW d, ledger = None \/ (ledger # None /\ d.count \in Nat /\ d.windowStart \in Nat)
  PROVE  /\ NextLedger(d) \in Ledger /\ Follows(NextLedger(d), ledger)
         /\ ledger = None => NextLedger(d).count = 0 /\ NextLedger(d).windowStart = now
         /\ ledger # None => NextLedger(d).count = d.count + 1 /\ NextLedger(d).windowStart = d.windowStart
<1>t. now \in Nat /\ LedgerType
  BY Zenon DEF Types, ClockType
<1>1. CASE ledger = None
  <2>1. NextLedger(d) = Book("RUNNING", 1, 1, 0, None, None, 0, now)
    BY <1>1, Zenon DEF NextLedger, Book
  <2> QED BY <1>1, <1>t, <2>1, BookFields DEF Follows
<1>2. CASE ledger # None
  <2>1. NextLedger(d) = Book("RUNNING", ledger.generation + 1, ledger.epoch, 0, None, None, d.count + 1, d.windowStart)
    BY <1>2, Zenon DEF NextLedger, Book
  <2>2. ledger \in Ledger /\ ledger.generation \in Nat /\ ledger.epoch \in Nat /\ ledger.epoch > 0
    BY <1>2, <1>t, LedgerFields, Zenon DEF LedgerType, ValidateWorkloadLifecycleState
  <2> QED BY <1>2, <2>1, <2>2, BookFields DEF Follows
<1> QED BY <1>1, <1>2, Zenon

\* The claim of a grant: nobody else is starting, no process has the grant, and a
\* restart has the attestation and the room its decision was made on.
LEMMA ClaimInd == ASSUME Counting, IndInv, NEW s \in Sups, NEW g \in grants, StartGovernedWorkload(s, g) PROVE IndInv'
<1> DEFINE n == NextLedger(restart)
           r == Super("claimed", 0, g, n)
<1>t. /\ ClockType /\ GrantType /\ LedgerType /\ ActType /\ SupType /\ LockType /\ FileType /\ RestartType
      /\ ActsInv /\ GoneInv /\ ReleaseInv /\ StartInv /\ OwnerInv /\ GrantStartsOnce
      /\ AttestInv /\ RestartIsReattested /\ BudgetInv /\ Types
  BY Zenon DEF IndInv, Types
<1>1. /\ UNCHANGED <<now, remotes, grants, ledger, boot, acts, observation, reconciliation, release, restart>>
      /\ lock = None /\ lock' = s /\ g.id \notin consumed /\ consumed' = consumed \cup {g.id}
      /\ sup' = [sup EXCEPT ![s] = [pc |-> "claimed", act |-> 0, grant |-> g, next |-> n]]
      /\ \/ ledger = None
         \/ /\ ledger # None /\ ledger.state \in Ended /\ restart # None
            /\ ValidateRestartForLifecycleState(ledger, g, restart)
  BY Zenon DEF StartGovernedWorkload, ConsumeWorkloadAdmissionGrant, artifacts, Ended
<1>2. sup' = [sup EXCEPT ![s] = r]
  BY <1>1, Zenon DEF Super
<1>3. ledger = None \/ (ledger # None /\ restart.count \in Nat /\ restart.windowStart \in Nat)
  BY <1>1, <1>t, Zenon DEF RestartType
<1>4. /\ n \in Ledger /\ Follows(n, ledger)
      /\ ledger = None => n.count = 0 /\ n.windowStart = now
      /\ ledger # None => n.count = restart.count + 1 /\ n.windowStart = restart.windowStart
  BY <1>3, <1>t, NextFollows, Zenon
<1> HIDE DEF n
<1>5. r \in Supervisor(grants) /\ r.pc = "claimed" /\ r.act = 0 /\ r.grant = g /\ r.next = n
  BY <1>4, SuperFields
<1> HIDE DEF r
<1>6. sup' \in [Sups -> Supervisor(grants)] /\ sup'[s] = r /\ \A t \in Sups : t # s => sup'[t] = sup[t]
  BY <1>2, <1>5, <1>t, Zenon DEF SupType
<1>7. \A t \in Sups : sup[t].pc \notin {"claimed", "created"}
  BY <1>1, <1>t, Holder, Zenon
<1>8. Types'
  <2>1. ClockType' /\ GrantType' /\ LedgerType' /\ FileType' /\ RestartType'
    BY <1>1, <1>t, Zenon DEF ClockType, GrantType, LedgerType, FileType, RestartType
  <2>2. ActType'
    BY <1>1, <1>t, Zenon DEF ActType
  <2>3. SupType'
    BY <1>1, <1>6, Zenon DEF SupType
  <2>4. LockType'
    BY <1>1, <1>5, <1>6, <1>7, Zenon DEF LockType
  <2> QED BY <2>1, <2>2, <2>3, <2>4, Zenon DEF Types
<1>9. ActsInv' /\ GoneInv' /\ ReleaseInv' /\ GrantStartsOnce' /\ RestartIsReattested'
  BY <1>1, <1>t, Zenon DEF ActsInv, GoneInv, ReleaseInv, GrantStartsOnce, RestartIsReattested
<1>10. StartInv'
  <2>1. lock' # None => ledger' = None \/ ledger'.state \in Ended
    BY <1>1, Zenon
  <2>2. n # None
    BY <1>4, Constants, Zenon
  <2>3. \A a \in DOMAIN acts : acts[a].grant # g
    BY <1>1, <1>t, Zenon DEF ActType
  <2>4. /\ sup'[s].next # None /\ Follows(sup'[s].next, ledger)
        /\ sup'[s].grant \in grants /\ sup'[s].grant.id \in consumed' /\ sup'[s].act = 0 /\ sup'[s].pc = "claimed"
    BY <1>1, <1>4, <1>5, <1>6, <2>2, Zenon
  <2>5. \A a \in DOMAIN acts : acts[a].grant # sup'[s].grant
    BY <1>5, <1>6, <2>3, Zenon
  <2>6. ASSUME NEW t \in Sups, t # s
        PROVE  /\ sup'[t].pc \notin {"claimed", "created"}
               /\ sup'[t].pc \in {"started", "waiting", "exited"} => sup'[t].act \in DOMAIN acts /\ ledger # None
               /\ sup'[t].pc = "idle" => sup'[t].act = 0
    BY <1>6, <1>7, <1>t, <2>6, Zenon DEF StartInv
  <2> QED BY <1>1, <2>1, <2>4, <2>5, <2>6 DEF StartInv
<1>11. OwnerInv'
  BY <1>1, <1>7, <1>t, Zenon DEF OwnerInv
<1>12. AttestInv'
  <2>1. EvidenceTime' = EvidenceTime
    BY <1>1, Zenon DEF EvidenceTime
  <2>2. EvidenceTime > 0 => g.remote.at > EvidenceTime
    <3>1. CASE ledger = None
      BY <3>1 DEF EvidenceTime
    <3>2. CASE ledger # None
      <4>1. /\ restart.outcome = "REQUIRE_FRESH_GRANT" /\ restart # None /\ restart.remote = g.remote
            /\ restart.exit = ledger.exit /\ restart.recovery = ledger.recovery
        BY <1>1, <3>2, Zenon DEF ValidateRestartForLifecycleState
      <4>2. EvidenceTime = Lineage(restart.exit, restart.recovery)
        BY <1>1, <1>t, <3>2, <4>1, Evidence, Zenon
      <4> QED BY <1>t, <4>1, <4>2, Zenon DEF AttestInv
    <3> QED BY <3>1, <3>2, Zenon
  <2>3. \A t \in Sups : sup'[t].pc = "claimed" => t = s
    BY <1>6, <1>7, Zenon
  <2>4. restart' = restart
    BY <1>1, Zenon
  <2> QED BY <1>5, <1>6, <1>t, <2>1, <2>2, <2>3, <2>4, Zenon DEF AttestInv
<1>13. BudgetInv'
  <2>1. Room(acts, n.count, n.windowStart)
    <3>1. CASE ledger = None
      <4>1. \A a \in DOMAIN acts : ~acts[a].ran
        BY <1>t, <3>1, Zenon DEF BudgetInv
      <4>2. Ran(acts, now) = {}
        BY <4>1, Zenon DEF Ran
      <4>3. Cardinality(Ran(acts, now)) = 0
        BY <4>2, Zenon DEF Counting
      <4>4. Room(acts, 0, now)
        <5>1. 0 <= MaxRestarts /\ Cardinality(Ran(acts, now)) <= 0
          BY <4>3, Constants
        <5>2. \A a \in DOMAIN acts : acts[a].ran => acts[a].startedAt < now + Window
          BY <4>1, Zenon
        <5> QED BY <5>1, <5>2, HasRoom, Zenon
      <4> QED BY <1>4, <3>1, <4>4, Zenon
    <3>2. CASE ledger # None
      <4>1. restart.outcome = "REQUIRE_FRESH_GRANT" /\ restart # None /\ restart.generation = ledger.generation
        BY <1>1, <3>2, Zenon DEF ValidateRestartForLifecycleState
      <4> QED BY <1>4, <1>t, <3>2, <4>1, Zenon DEF BudgetInv
    <3> QED BY <3>1, <3>2, Zenon
  <2>2. \A t \in Sups : sup'[t].pc \in {"claimed", "created"} => Room(acts, sup'[t].next.count, sup'[t].next.windowStart)
    BY <1>5, <1>6, <1>7, <2>1, Zenon
  <2>3. UNCHANGED <<acts, ledger, restart>>
    BY <1>1, Zenon
  <2> QED BY <1>t, <2>2, <2>3, Zenon DEF BudgetInv
<1> QED BY <1>8, <1>9, <1>10, <1>11, <1>12, <1>13, Zenon DEF IndInv

\* The process is created: no other is governed, and it is the last one.
LEMMA CreateInd ==
  ASSUME IndInv, NEW s \in Sups, sup[s].pc = "claimed",
         acts' = Append(acts, [grant |-> sup[s].grant, boot |-> boot, startedAt |-> now, proc |-> "alive",
                               class |-> None, ran |-> FALSE, after |-> EvidenceTime]),
         sup' = [sup EXCEPT ![s].pc = "created", ![s].act = Len(acts) + 1],
         UNCHANGED <<now, boot, remotes, grants, consumed, ledger, lock, observation, reconciliation, release, restart>>
  PROVE  IndInv'
<1> DEFINE q == [grant |-> sup[s].grant, boot |-> boot, startedAt |-> now, proc |-> "alive",
                 class |-> None, ran |-> FALSE, after |-> EvidenceTime]
           m == Len(acts) + 1
           r == Super("created", m, sup[s].grant, sup[s].next)
<1>t. /\ ClockType /\ GrantType /\ LedgerType /\ ActType /\ SupType /\ LockType /\ FileType /\ RestartType
      /\ ActsInv /\ GoneInv /\ ReleaseInv /\ StartInv /\ OwnerInv /\ GrantStartsOnce
      /\ AttestInv /\ RestartIsReattested /\ BudgetInv /\ Types
  BY Zenon DEF IndInv, Types
<1>1. lock = s /\ lock # None /\ \A t \in Sups : t # s => sup[t].pc \notin {"claimed", "created"}
  BY <1>t, Holder, Zenon
<1>2. ledger = None \/ ledger.state \in Ended
  BY <1>1, <1>t, Zenon DEF StartInv
<1>3. /\ sup[s].grant \in grants /\ sup[s].grant.id \in consumed /\ \A a \in DOMAIN acts : acts[a].grant # sup[s].grant
      /\ sup[s].next # None /\ Follows(sup[s].next, ledger)
  BY <1>t, Zenon DEF StartInv
<1>4. EvidenceTime \in Nat /\ now \in Nat /\ boot \in Nat
  BY <1>2, <1>t, Evidence, Zenon DEF ClockType
<1>5. /\ q \in Act(grants) /\ q.grant = sup[s].grant /\ q.boot = boot /\ q.startedAt = now /\ q.proc = "alive"
      /\ q.ran = FALSE /\ q.after = EvidenceTime
  BY <1>3, <1>4, Zenon DEF Act, Live
<1>a. acts' = Append(acts, q) /\ acts \in Seq(Act(grants))
  BY <1>t, Zenon DEF ActType
<1>b. sup \in [Sups -> Supervisor(grants)]
  BY <1>t, Zenon DEF SupType
<1>6. sup' = [sup EXCEPT ![s] = r]
  <2>1. sup' = SetPcAct(sup, s, "created", m)
    BY Zenon DEF SetPcAct
  <2> HIDE DEF m
  <2>2. SetPcAct(sup, s, "created", m) = [sup EXCEPT ![s] = r]
    BY <1>b, SupPcAct, Zenon
  <2> QED BY <2>1, <2>2, Zenon
<1> HIDE DEF q
<1>7. /\ acts' \in Seq(Act(grants)) /\ Len(acts') = m /\ DOMAIN acts' = DOMAIN acts \cup {m}
      /\ m \in Nat /\ m > 0 /\ m \notin DOMAIN acts /\ acts'[m] = q /\ \A b \in DOMAIN acts : acts'[b] = acts[b]
  BY <1>5, <1>a
<1>8. r \in Supervisor(grants) /\ r.pc = "created" /\ r.act = m /\ r.grant = sup[s].grant /\ r.next = sup[s].next
  <2>1. sup[s].grant \in grants \cup {None} /\ sup[s].next \in Ledger \cup {None}
    BY <1>b, SupFields, Zenon
  <2> HIDE DEF m
  <2> QED BY <1>7, <2>1, SuperFields
<1> HIDE DEF r, m
<1>9. sup' \in [Sups -> Supervisor(grants)] /\ sup'[s] = r /\ \A t \in Sups : t # s => sup'[t] = sup[t]
  BY <1>6, <1>8, <1>b, Zenon
<1>10. Types'
  <2>1. ClockType' /\ GrantType' /\ FileType' /\ RestartType'
    BY <1>t, Zenon DEF ClockType, GrantType, FileType, RestartType
  <2>2. LedgerType'
    BY <1>7, <1>t, Zenon DEF LedgerType
  <2>3. ActType'
    BY <1>3, <1>5, <1>7, <1>t DEF ActType
  <2>4. SupType'
    BY <1>9, Zenon DEF SupType
  <2>5. LockType'
    BY <1>1, <1>8, <1>9, <1>t, Zenon DEF LockType
  <2> QED BY <2>1, <2>2, <2>3, <2>4, <2>5, Zenon DEF Types
<1>11. ActsInv'
  BY <1>4, <1>5, <1>7, <1>t DEF ActsInv
<1>12. GoneInv' /\ ReleaseInv'
  <2>1. \A a : Vanished(acts, a) => Vanished(acts', a)
    BY <1>7, Zenon DEF Vanished
  <2> QED BY <1>t, <2>1, Zenon DEF GoneInv, ReleaseInv
<1>13. StartInv'
  <2>1. lock' # None => ledger' = None \/ ledger'.state \in Ended
    BY <1>2, Zenon
  <2>2. /\ sup'[s].pc = "created" /\ sup'[s].next # None /\ Follows(sup'[s].next, ledger')
        /\ sup'[s].act = Len(acts') /\ sup'[s].act > 0 /\ ~acts'[sup'[s].act].ran
    BY <1>3, <1>5, <1>7, <1>8, <1>9
  <2>3. ledger' # None => ledger'.activation # sup'[s].act
    BY <1>7, <1>8, <1>9, <1>t, Zenon DEF LedgerType
  <2>4. ASSUME NEW t \in Sups, t # s
        PROVE  /\ sup'[t].pc \notin {"claimed", "created"}
               /\ sup'[t].pc \in {"started", "waiting", "exited"} => sup'[t].act \in DOMAIN acts' /\ ledger' # None
               /\ sup'[t].pc = "idle" => sup'[t].act = 0
    BY <1>1, <1>7, <1>9, <1>t, <2>4, Zenon DEF StartInv
  <2> QED BY <2>1, <2>2, <2>3, <2>4, Zenon DEF StartInv
<1>14. OwnerInv'
  <2>1. \A a \in DOMAIN acts : acts[a].proc \notin Governed
    BY <1>1, <1>2, <1>t, Zenon DEF OwnerInv, Ended
  <2>2. \A a \in DOMAIN acts' : acts'[a].proc \in Governed => a = m
    BY <1>7, <2>1, Zenon
  <2> QED BY <1>8, <1>9, <2>2, Zenon DEF OwnerInv
<1>15. GrantStartsOnce'
  BY <1>3, <1>5, <1>7, <1>t DEF GrantStartsOnce
<1>16. RestartIsReattested'
  <2>1. EvidenceTime > 0 => sup[s].grant.remote.at > EvidenceTime
    BY <1>t, Zenon DEF AttestInv
  <2> QED BY <1>5, <1>7, <1>t, <2>1 DEF RestartIsReattested
<1>17. AttestInv'
  <2>1. \A t \in Sups : sup'[t].pc # "claimed"
    BY <1>1, <1>8, <1>9, Zenon
  <2> QED BY <1>t, <2>1, Zenon DEF AttestInv
<1>18. BudgetInv'
  <2>1. ASSUME NEW w PROVE Ran(acts', w) = Ran(acts, w)
    BY <1>5, <1>7 DEF Ran
  <2>2. ASSUME NEW w, NEW n, Room(acts, n, w) PROVE Room(acts', n, w)
    BY <1>5, <1>7, <2>1, <2>2, ZenonT(40) DEF Room
  <2>3. \A t \in Sups : sup'[t].pc \in {"claimed", "created"} => Room(acts', sup'[t].next.count, sup'[t].next.windowStart)
    BY <1>1, <1>8, <1>9, <1>t, <2>2, Zenon DEF BudgetInv
  <2>4. \A a \in DOMAIN acts' : acts'[a].ran => a \in DOMAIN acts /\ acts[a].ran /\ acts'[a].startedAt = acts[a].startedAt
    BY <1>5, <1>7
  <2> QED BY <1>t, <2>1, <2>2, <2>3, <2>4, Zenon DEF BudgetInv
<1> QED BY <1>10, <1>11, <1>12, <1>13, <1>14, <1>15, <1>16, <1>17, <1>18, Zenon DEF IndInv

\* The creation fails: the supervisor gives up, the claim stays.
LEMMA AttestedInd == ASSUME IndInv, NEW s \in Sups, StartAttestedWorkload(s) PROVE IndInv'
<1>1. /\ UNCHANGED <<now, boot, remotes, grants, consumed, ledger, observation, reconciliation, release, restart>>
      /\ sup[s].pc = "claimed"
  BY Zenon DEF StartAttestedWorkload, artifacts
<1>2. CASE /\ acts' = Append(acts, [grant |-> sup[s].grant, boot |-> boot, startedAt |-> now, proc |-> "alive",
                                   class |-> None, ran |-> FALSE, after |-> EvidenceTime])
           /\ sup' = [sup EXCEPT ![s].pc = "created", ![s].act = Len(acts) + 1]
           /\ UNCHANGED lock
  BY <1>1, <1>2, CreateInd, Zenon
<1>3. CASE sup' = [sup EXCEPT ![s] = Idle] /\ lock' = None /\ UNCHANGED acts
  <2>1. lock = s
    BY <1>1, Zenon DEF IndInv, Types, LockType
  <2> QED BY <1>1, <1>3, <2>1, IdleSup, NoneChanges, OneSup, Zenon
<1> QED BY <1>2, <1>3, Zenon DEF StartAttestedWorkload

\* The RUNNING ledger is written, for the process that was created.
LEMMA WrittenInd ==
  ASSUME Counting, IndInv, NEW s \in Sups, sup[s].pc = "created", NEW r \in Supervisor(grants),
         ledger' = [sup[s].next EXCEPT !.activation = sup[s].act], ValidateWorkloadLifecycleState(ledger'),
         lock' = None, sup' = [sup EXCEPT ![s] = r],
         (r.pc = "started" /\ r.act = sup[s].act) \/ (r.pc = "idle" /\ r.act = 0),
         acts' \in Seq(Act(grants)), Kept(acts, acts'),
         \A b \in DOMAIN acts : b # sup[s].act => acts'[b].ran = acts[b].ran,
         UNCHANGED <<now, boot, remotes, grants, consumed, observation, reconciliation, release, restart>>
  PROVE  IndInv'
<1> DEFINE a == sup[s].act
           n == sup[s].next
<1>t. /\ ClockType /\ GrantType /\ LedgerType /\ ActType /\ SupType /\ LockType /\ FileType /\ RestartType
      /\ ActsInv /\ GoneInv /\ ReleaseInv /\ StartInv /\ OwnerInv /\ GrantStartsOnce
      /\ AttestInv /\ RestartIsReattested /\ BudgetInv /\ Types
  BY Zenon DEF IndInv, Types
<1>1. lock = s /\ lock # None /\ \A t \in Sups : t # s => sup[t].pc \notin {"claimed", "created"}
  BY <1>t, Holder, Zenon
<1>2. ledger = None \/ ledger.state \in Ended
  BY <1>1, <1>t, Zenon DEF StartInv
<1>3. /\ n # None /\ Follows(n, ledger) /\ a = Len(acts) /\ a > 0 /\ ~acts[a].ran /\ a \in DOMAIN acts
      /\ Room(acts, n.count, n.windowStart)
  <2>1. n # None /\ Follows(n, ledger) /\ a = Len(acts) /\ a > 0 /\ ~acts[a].ran
    BY <1>t, Zenon DEF StartInv
  <2>2. a \in DOMAIN acts
    BY <2>1, <1>t DEF ActType
  <2>3. Room(acts, n.count, n.windowStart)
    BY <1>t, Zenon DEF BudgetInv
  <2> QED BY <2>1, <2>2, <2>3, Zenon
<1>4. n \in Ledger /\ sup \in [Sups -> Supervisor(grants)]
  <2>1. n \in Ledger \cup {None}
    BY <1>t, SupFields, Zenon DEF SupType
  <2> QED BY <1>3, <1>t, <2>1, Zenon DEF SupType
<1>5. /\ n.state \in {"RUNNING", "EXITED", "EXITED_UNKNOWN", "QUARANTINED"} /\ n.generation \in Nat /\ n.epoch \in Nat
      /\ n.exit \in Exit \cup {None} /\ n.recovery \in Recovery \cup {None} /\ n.count \in Nat /\ n.windowStart \in Nat
  BY <1>4, LedgerFields, Zenon
<1>6. ledger' = Book(n.state, n.generation, n.epoch, a, n.exit, n.recovery, n.count, n.windowStart)
  <2> HIDE DEF a, n
  <2>1. ledger' = [n EXCEPT !.activation = a]
    BY Zenon DEF a, n
  <2>2. [n EXCEPT !.activation = a] = Book(n.state, n.generation, n.epoch, a, n.exit, n.recovery, n.count, n.windowStart)
    BY <1>4, LedgerShapes, Zenon
  <2> QED BY <2>1, <2>2, Zenon
<1>7. a \in Nat
  BY <1>3, <1>t, EachAct, Zenon
<1> HIDE DEF a, n
<1>8. /\ ledger' \in Ledger /\ ledger' # None /\ ledger'.state = "RUNNING" /\ ledger'.generation = n.generation
      /\ ledger'.activation = a /\ ledger'.count = n.count /\ ledger'.windowStart = n.windowStart
  <2>1. /\ ledger' \in Ledger /\ ledger'.state = n.state /\ ledger'.generation = n.generation
        /\ ledger'.activation = a /\ ledger'.count = n.count /\ ledger'.windowStart = n.windowStart
    <3>1. /\ ledger'.state = n.state /\ ledger'.generation = n.generation
          /\ ledger'.activation = a /\ ledger'.count = n.count /\ ledger'.windowStart = n.windowStart
      BY <1>6 DEF Book
    <3>2. ledger' \in Ledger
      BY <1>5, <1>6, <1>7, SMTT(30) DEF Book, Ledger
    <3> QED BY <3>1, <3>2, Zenon
  <2> QED BY <1>3, <2>1, Constants, Zenon DEF Follows
<1>9. sup' \in [Sups -> Supervisor(grants)] /\ sup'[s] = r /\ \A t \in Sups : t # s => sup'[t] = sup[t]
  BY <1>4, Zenon
<1>10. /\ \A t \in Sups : sup'[t].pc \notin {"claimed", "created"}
       /\ \A t \in Sups : t # s => sup[t].pc \notin {"claimed", "created"}
  BY <1>1, <1>9, Zenon
<1>k. /\ DOMAIN acts' = DOMAIN acts /\ Len(acts') = Len(acts)
      /\ \A b \in DOMAIN acts : KeptAct(acts[b], acts'[b])
      /\ \A b \in DOMAIN acts : b # a => acts'[b].ran = acts[b].ran
  BY Zenon DEF Kept, a
<1>11. Types'
  <2>1. ClockType' /\ GrantType' /\ FileType' /\ RestartType'
    BY <1>t, Zenon DEF ClockType, GrantType, FileType, RestartType
  <2>2. LedgerType'
    BY <1>3, <1>8, <1>k, Zenon DEF LedgerType
  <2>3. ActType'
    BY <1>k, <1>t, Zenon DEF ActType, KeptAct
  <2>4. SupType' /\ LockType'
    BY <1>9, <1>10, Constants, Zenon DEF SupType, LockType
  <2> QED BY <2>1, <2>2, <2>3, <2>4, Zenon DEF Types
<1>12. ActsInv'
  BY <1>k, <1>t, Zenon DEF ActsInv, KeptAct
<1>13. GoneInv' /\ ReleaseInv'
  <2>1. \A b : Vanished(acts, b) => Vanished(acts', b)
    BY <1>k, Zenon DEF Vanished, KeptAct
  <2> QED BY <1>t, <2>1, Zenon DEF GoneInv, ReleaseInv
<1>14. StartInv'
  <2>1. ASSUME NEW t \in Sups
        PROVE  /\ sup'[t].pc \in {"started", "waiting", "exited"} => sup'[t].act \in DOMAIN acts'
               /\ sup'[t].pc = "idle" => sup'[t].act = 0
    <3>1. CASE t = s
      <4>1. r.act = a \/ (r.pc = "idle" /\ r.act = 0)
        BY Zenon DEF a
      <4>2. r.pc \in {"started", "waiting", "exited"} => r.act = a
        BY <4>1, Zenon
      <4>3. r.pc = "idle" => r.act = 0
        BY Zenon
      <4> QED BY <1>3, <1>9, <1>k, <3>1, <4>2, <4>3, Zenon
    <3>2. CASE t # s
      BY <1>9, <1>k, <1>t, <3>2, Zenon DEF StartInv
    <3> QED BY <3>1, <3>2, Zenon
  <2> QED BY <1>8, <1>10, <2>1, Zenon DEF StartInv
<1>15. OwnerInv'
  <2> SUFFICES ASSUME NEW b \in DOMAIN acts, acts'[b].proc \in Governed PROVE b = a
    BY <1>8, <1>k, Zenon DEF OwnerInv
  <2>1. acts[b].proc \in Governed
    BY <1>k, Zenon DEF KeptAct
  <2>2. PICK t \in Sups : sup[t].pc = "created" /\ sup[t].act = b
    BY <1>2, <1>t, <2>1, Zenon DEF OwnerInv, Ended
  <2>3. t = s
    BY <1>10, <2>2, Zenon
  <2> QED BY <2>2, <2>3, Zenon DEF a
<1>16. GrantStartsOnce' /\ RestartIsReattested'
  <2>1. \A b \in DOMAIN acts : acts'[b].grant = acts[b].grant /\ acts'[b].after = acts[b].after
    BY <1>k, Zenon DEF KeptAct
  <2> QED BY <1>k, <1>t, <2>1, Zenon DEF GrantStartsOnce, RestartIsReattested
<1>17. AttestInv'
  BY <1>10, <1>t, Zenon DEF AttestInv
<1>18. BudgetInv'
  <2>1. \A b \in DOMAIN acts : acts'[b].startedAt = acts[b].startedAt
    BY <1>k, Zenon DEF KeptAct
  <2>2. Ran(acts', n.windowStart) \subseteq Ran(acts, n.windowStart) \cup {a}
    BY <1>k, <2>1, Zenon DEF Ran
  <2>3. n.count <= MaxRestarts /\ Cardinality(Ran(acts, n.windowStart)) <= n.count
    BY <1>3, Zenon DEF Room
  <2>4. Cardinality(Ran(acts', n.windowStart)) <= n.count + 1
    <3>1. IsFiniteSet(Ran(acts, n.windowStart))
      BY <1>t, RanFinite, Zenon DEF ActType
    <3>2. /\ Cardinality(Ran(acts, n.windowStart)) \in Nat /\ Cardinality(Ran(acts', n.windowStart)) \in Nat
          /\ Cardinality(Ran(acts', n.windowStart)) <= Cardinality(Ran(acts, n.windowStart)) + 1
      BY <2>2, <3>1, Zenon DEF Counting
    <3> QED BY <1>5, <2>3, <3>2
  <2>5. \A b \in DOMAIN acts : acts[b].ran => acts[b].startedAt < n.windowStart + Window
    BY <1>3, Zenon DEF Room
  <2>6. \A b \in DOMAIN acts' : acts'[b].ran /\ b # a => acts'[b].startedAt < n.windowStart + Window
    BY <1>k, <2>1, <2>5, Zenon
  <2>7. restart # None => restart.generation < n.generation /\ restart.generation \in Nat
    <3>1. CASE ledger = None
      BY <1>t, <3>1, Zenon DEF BudgetInv
    <3>2. CASE ledger # None
      <4>1. n.generation = ledger.generation + 1 /\ ledger.generation \in Nat
        BY <1>3, <1>t, <3>2, LedgerFields, Zenon DEF Follows, LedgerType
      <4> QED BY <1>t, <3>2, <4>1 DEF BudgetInv, RestartType
    <3> QED BY <3>1, <3>2, Zenon
  <2>8. restart' = restart
    BY Zenon
  <2>9. /\ ledger' # None => /\ ledger'.count <= MaxRestarts /\ Cardinality(Ran(acts', ledger'.windowStart)) <= ledger'.count + 1
                            /\ \A b \in DOMAIN acts' : acts'[b].ran /\ b # ledger'.activation
                                                         => acts'[b].startedAt < ledger'.windowStart + Window
        /\ restart' # None => restart'.generation <= ledger'.generation /\ restart'.generation # ledger'.generation
    BY <1>5, <1>8, <2>3, <2>4, <2>6, <2>7, <2>8
  <2> QED BY <1>8, <1>10, <2>9, Zenon DEF BudgetInv
<1> QED BY <1>11, <1>12, <1>13, <1>14, <1>15, <1>16, <1>17, <1>18, Zenon DEF IndInv

\* The end of a start: recorded; or failed, with or without the ledger written.
LEMMA PersistInd == ASSUME Counting, IndInv, NEW s \in Sups, PersistRunning(s) PROVE IndInv'
<1> DEFINE a == sup[s].act
           n == [sup[s].next EXCEPT !.activation = a]
<1>1. /\ UNCHANGED <<now, boot, remotes, grants, consumed, observation, reconciliation, release, restart>>
      /\ sup[s].pc = "created" /\ lock' = None
      /\ ValidateWorkloadLifecycleState(n)
      /\ \/ /\ ledger' = n /\ acts' = [acts EXCEPT ![a].ran = TRUE]
            /\ sup' = [sup EXCEPT ![s] = [Idle EXCEPT !.pc = "started", !.act = a]]
         \/ ledger' \in {ledger, n} /\ acts' = Killed(a) /\ sup' = [sup EXCEPT ![s] = Idle]
  BY Zenon DEF PersistRunning, artifacts
<1>2. /\ a \in DOMAIN acts /\ a # 0 /\ acts \in Seq(Act(grants))
      /\ \A b \in DOMAIN acts : acts[b].proc = "dead" => acts[b].class \in ExitClass
  BY <1>1, ItsAct, Zenon
<1>3. CASE /\ ledger' = n /\ acts' = [acts EXCEPT ![a].ran = TRUE]
           /\ sup' = [sup EXCEPT ![s] = [Idle EXCEPT !.pc = "started", !.act = a]]
  <2> DEFINE r == Super("started", a, None, None)
             q == Recorded(acts[a])
  <2>1. sup' = [sup EXCEPT ![s] = r]
    <3>1. [Idle EXCEPT !.pc = "started", !.act = a] = r
      BY IdlePcAct, Zenon
    <3> QED BY <1>3, <3>1, Zenon
  <2>2. r \in Supervisor(grants) /\ r.pc = "started" /\ r.act = a
    <3>1. a \in Nat
      BY <1>2
    <3> QED BY <3>1, SuperFields
  <2>3. acts' = [acts EXCEPT ![a] = q]
    BY <1>2, <1>3, Zenon DEF Recorded
  <2>4. q \in Act(grants) /\ KeptAct(acts[a], q)
    <3>1. acts[a] \in Act(grants)
      BY <1>2
    <3> QED BY <1>2, <3>1, ActRuns, Zenon
  <2> HIDE DEF q, r
  <2>5. acts' \in Seq(Act(grants)) /\ Changed(acts, acts', a) /\ acts'[a] = q
    BY <1>2, <2>3, <2>4 DEF Changed
  <2>6. Kept(acts, acts') /\ \A b \in DOMAIN acts : b # a => acts'[b].ran = acts[b].ran
    BY <1>2, <2>4, <2>5, OneMoves
  <2>7. ValidateWorkloadLifecycleState(ledger') /\ ledger' = [sup[s].next EXCEPT !.activation = sup[s].act]
    BY <1>1, <1>3, Zenon
  <2> QED BY <1>1, <2>1, <2>2, <2>5, <2>6, <2>7, WrittenInd, Zenon
<1>4. CASE ledger' \in {ledger, n} /\ acts' = Killed(a) /\ sup' = [sup EXCEPT ![s] = Idle]
  <2>1. /\ Killed(a) \in Seq(Act(grants)) /\ Kept(acts, Killed(a)) /\ SameRuns(acts, Killed(a))
        /\ Killed(a)[a].proc = "dead"
    BY <1>2, KillKeeps, Zenon
  <2>2. /\ acts' \in Seq(Act(grants)) /\ Kept(acts, acts') /\ SameRuns(acts, acts') /\ acts'[a].proc = "dead"
    BY <1>4, <2>1, Zenon
  <2>3. Idle \in Supervisor(grants) /\ Idle.pc = "idle" /\ Idle.act = 0
    BY IdleSup, Zenon DEF Idle
  <2>4. CASE ledger' = ledger
    <3>1. lock = s
      BY <1>1, Zenon DEF IndInv, Types, LockType
    <3> QED BY <1>1, <1>4, <2>2, <2>3, <2>4, <3>1, OneSup, Zenon
  <2>5. CASE ledger' = n
    <3>1. ValidateWorkloadLifecycleState(ledger') /\ ledger' = [sup[s].next EXCEPT !.activation = sup[s].act]
      BY <1>1, <2>5, Zenon
    <3>2. \A b \in DOMAIN acts : b # sup[s].act => acts'[b].ran = acts[b].ran
      BY <2>2, Zenon DEF SameRuns
    <3> QED BY <1>1, <1>4, <2>2, <2>3, <3>1, <3>2, WrittenInd, Zenon
  <2> QED BY <1>4, <2>4, <2>5, Zenon
<1> QED BY <1>1, <1>3, <1>4, Zenon

-----------------------------------------------------------------------------
(* Restart decisions.                                                      *)

\* The time a reconciliation or a release gives its lineage.
LEMMA Lineages ==
  /\ \A r \in Reconciliation : Lineage(None, r) = r.decidedAt
  /\ \A r \in Release : Lineage(None, r) = r.clearedAt
BY Zenon DEF Lineage, Reconciliation, Release

\* A window that is open, or starts again, has room for one more.
LEMMA WindowRoom ==
  ASSUME Counting, IndInv, ledger # None, RestartWindow(ledger, now).count < MaxRestarts
  PROVE  /\ RestartWindow(ledger, now).count \in Nat /\ RestartWindow(ledger, now).start \in Nat
         /\ Room(acts, RestartWindow(ledger, now).count + 1, RestartWindow(ledger, now).start)
<1>1. /\ ledger.windowStart \in Nat /\ ledger.count \in Nat /\ now \in Nat /\ Window \in Nat /\ Window > 0 /\ MaxRestarts \in Nat
      /\ acts \in Seq(Act(grants)) /\ ActType /\ ledger.activation \in DOMAIN acts
  BY LedgerFields, Constants DEF IndInv, Types, LedgerType, ClockType, ActType
<1>2. /\ Cardinality(Ran(acts, ledger.windowStart)) <= ledger.count + 1
      /\ \A a \in DOMAIN acts : acts[a].ran /\ a # ledger.activation => acts[a].startedAt < ledger.windowStart + Window
  BY Zenon DEF IndInv, BudgetInv
<1>3. \A a \in DOMAIN acts : acts[a].startedAt <= now /\ acts[a].startedAt \in Nat
  BY <1>1, EachAct, Zenon DEF IndInv, ActsInv
<1>4. CASE now < ledger.windowStart + Window
  <2>1. RestartWindow(ledger, now).count = ledger.count /\ RestartWindow(ledger, now).start = ledger.windowStart
    BY <1>4, Zenon DEF RestartWindow
  <2>2. \A a \in DOMAIN acts : acts[a].ran => acts[a].startedAt < ledger.windowStart + Window
    BY <1>1, <1>3, <1>4
  <2>3. ledger.count + 1 <= MaxRestarts
    BY <1>1, <2>1
  <2>4. Room(acts, ledger.count + 1, ledger.windowStart)
    BY <1>2, <2>2, <2>3, HasRoom, Zenon
  <2> QED BY <1>1, <2>1, <2>4, Zenon
<1>5. CASE ~(now < ledger.windowStart + Window)
  <2>1. RestartWindow(ledger, now).count = 0 /\ RestartWindow(ledger, now).start = now
    BY <1>5, Zenon DEF RestartWindow
  <2>2. Ran(acts, now) \subseteq {} \cup {ledger.activation}
    <3> SUFFICES ASSUME NEW a \in DOMAIN acts, acts[a].ran, acts[a].startedAt >= now, a # ledger.activation PROVE FALSE
      BY Zenon DEF Ran
    <3>1. acts[a].startedAt < ledger.windowStart + Window /\ acts[a].startedAt \in Nat
      BY <1>2, <1>3, Zenon
    <3> QED BY <1>1, <1>5, <3>1
  <2>3. Cardinality(Ran(acts, now)) <= 0 + 1
    <3>1. Cardinality({}) = 0 /\ IsFiniteSet({})
      BY Zenon DEF Counting
    <3>2. Cardinality(Ran(acts, now)) <= Cardinality({}) + 1
      BY <2>2, <3>1, Zenon DEF Counting
    <3> QED BY <3>1, <3>2, Zenon
  <2>4. \A a \in DOMAIN acts : acts[a].ran => acts[a].startedAt < now + Window
    BY <1>1, <1>3
  <2>5. 0 + 1 <= MaxRestarts
    BY <1>1, <2>1
  <2>6. Room(acts, 0 + 1, now)
    BY <2>3, <2>4, <2>5, HasRoom, Zenon
  <2> QED BY <1>1, <2>1, <2>6
<1> QED BY <1>4, <1>5, Zenon

\* The decision of an evaluator: its fields, and the room it found.
LEMMA Decided ==
  ASSUME Counting, IndInv, ledger # None, NEW r \in remotes, NEW o, NEW t, Decide(r, o, t)
  PROVE  /\ restart'.generation = ledger.generation /\ restart'.exit = ledger.exit /\ restart'.recovery = ledger.recovery
         /\ restart'.remote = r /\ restart'.outcome = o
         /\ restart'.generation \in Nat /\ restart'.count \in Nat /\ restart'.windowStart \in Nat
         /\ restart'.exit \in Exit \cup {None} /\ restart'.recovery \in Recovery \cup {None}
         /\ ~Blocked(r) => Room(acts, restart'.count + 1, restart'.windowStart)
<1> DEFINE w == RestartWindow(ledger, now)
<1>1. /\ restart'.generation = ledger.generation /\ restart'.exit = ledger.exit /\ restart'.recovery = ledger.recovery
      /\ restart'.remote = r /\ restart'.outcome = o /\ restart'.count = w.count /\ restart'.windowStart = w.start
  BY Zenon DEF Decide, RestartDecision
<1>2. /\ ledger.generation \in Nat /\ ledger.exit \in Exit \cup {None} /\ ledger.recovery \in Recovery \cup {None}
      /\ ledger.count \in Nat /\ ledger.windowStart \in Nat /\ now \in Nat
  BY LedgerFields, Zenon DEF IndInv, Types, LedgerType, ClockType
<1>3. w.count \in Nat /\ w.start \in Nat
  BY <1>2, Zenon DEF RestartWindow
<1>4. ~Blocked(r) => w.count < MaxRestarts
  BY <1>3, Constants DEF Blocked
<1>5. ~Blocked(r) => Room(acts, w.count + 1, w.start)
  BY <1>4, WindowRoom, Zenon
<1> HIDE DEF w
<1> QED BY <1>1, <1>2, <1>3, <1>5, Zenon

\* A decision for a fresh grant rests on newer evidence than the end of the
\* previous generation and leaves room in the window.
LEMMA RestartInd == ASSUME Counting, IndInv, NEW r \in remotes, RestartEvaluate(r) PROVE IndInv'
<1>t. /\ ClockType /\ GrantType /\ LedgerType /\ ActType /\ SupType /\ LockType /\ FileType /\ RestartType
      /\ ActsInv /\ GoneInv /\ ReleaseInv /\ StartInv /\ OwnerInv /\ GrantStartsOnce
      /\ AttestInv /\ RestartIsReattested /\ BudgetInv
  BY Zenon DEF IndInv, Types
<1>1. UNCHANGED <<now, boot, remotes, grants, consumed, acts, ledger, lock, sup, observation, reconciliation, release>>
  BY Zenon DEF RestartEvaluate, host
<1>2. r \in Remote /\ r.at \in Nat
  BY <1>t, Zenon DEF GrantType, Remote
<1>3. /\ ledger # None
      /\ \E o, t : /\ Decide(r, o, t)
                   /\ o = "REQUIRE_FRESH_GRANT" => ~Blocked(r)
                   /\ o = "REQUIRE_FRESH_GRANT" /\ Lineage(ledger.exit, ledger.recovery) > 0
                         => r.at > Lineage(ledger.exit, ledger.recovery)
  <2>1. CASE EvaluateWorkloadRestart(r)
    <3> DEFINE o == IF Blocked(r) \/ (ledger.exit.class = "CLEAN" /\ ~AllowClean) THEN "BLOCK"
                    ELSE IF \/ ~FreshRemote(r, now)
                            \/ ledger.exit.class \in Reattest /\ r.at <= ledger.exit.at
                         THEN "REQUIRE_REATTESTATION" ELSE "REQUIRE_FRESH_GRANT"
    <3>1. ledger # None /\ ledger.state = "EXITED" /\ Decide(r, o, ledger.exit.at)
      BY <2>1, Zenon DEF EvaluateWorkloadRestart, ValidateLifecycleRestartLineage
    <3>2. ledger.exit # None /\ ledger.exit \in Exit
      BY <1>t, <3>1, LedgerFields, Zenon DEF LedgerType, ValidateWorkloadLifecycleState
    <3>3. ledger.exit.at \in Nat
      BY <3>2, Zenon DEF Exit
    <3>4. o = "REQUIRE_FRESH_GRANT" => ~Blocked(r) /\ ~(ledger.exit.class \in Reattest /\ r.at <= ledger.exit.at)
      BY Zenon
    <3>5. Lineage(ledger.exit, ledger.recovery) = IF ledger.exit.class \in Reattest THEN ledger.exit.at ELSE 0
      BY <3>2, Zenon DEF Lineage
    <3> HIDE DEF o
    <3>6. o = "REQUIRE_FRESH_GRANT" /\ Lineage(ledger.exit, ledger.recovery) > 0 => r.at > Lineage(ledger.exit, ledger.recovery)
      BY <1>2, <3>3, <3>4, <3>5
    <3> QED BY <3>1, <3>4, <3>6, Zenon
  <2>2. CASE EvaluateRecoveredWorkloadRestart(r)
    <3> DEFINE o == IF Blocked(r) THEN "BLOCK"
                    ELSE IF ~FreshRemote(r, now) \/ r.at <= reconciliation.decidedAt
                         THEN "REQUIRE_REATTESTATION" ELSE "REQUIRE_FRESH_GRANT"
    <3>1. /\ ledger # None /\ ledger.state = "EXITED_UNKNOWN" /\ reconciliation = ledger.recovery
          /\ Decide(r, o, reconciliation.decidedAt)
      BY <2>2, Zenon DEF EvaluateRecoveredWorkloadRestart
    <3>2. ledger.exit = None /\ ledger.recovery # None
      BY <1>t, <3>1, Zenon DEF LedgerType, ValidateWorkloadLifecycleState
    <3>3. reconciliation \in Reconciliation
      BY <1>t, <3>1, <3>2, Zenon DEF FileType
    <3>4. Lineage(ledger.exit, ledger.recovery) = reconciliation.decidedAt /\ reconciliation.decidedAt \in Nat
      BY <3>1, <3>2, <3>3, Lineages, Zenon DEF Reconciliation
    <3>5. o = "REQUIRE_FRESH_GRANT" => ~Blocked(r) /\ ~(r.at <= reconciliation.decidedAt)
      BY Zenon
    <3> HIDE DEF o
    <3> QED BY <1>2, <3>1, <3>4, <3>5
  <2>3. CASE EvaluateQuarantineReleasedRestart(r)
    <3> DEFINE o == IF Blocked(r) THEN "BLOCK"
                    ELSE IF ~FreshRemote(r, now) \/ (r # release.remote /\ r.at <= release.decidedAt)
                         THEN "REQUIRE_REATTESTATION" ELSE "REQUIRE_FRESH_GRANT"
    <3>1. /\ ledger # None /\ ledger.state = "EXITED_UNKNOWN" /\ release # None /\ release = ledger.recovery
          /\ Decide(r, o, release.decidedAt)
      BY <2>3, Zenon DEF EvaluateQuarantineReleasedRestart
    <3>2. ledger.exit = None
      BY <1>t, <3>1, Zenon DEF LedgerType, ValidateWorkloadLifecycleState
    <3>3. release \in Release
      BY <1>t, <3>1, Zenon DEF FileType
    <3>4. Lineage(ledger.exit, ledger.recovery) = release.clearedAt /\ release.clearedAt \in Nat /\ release.decidedAt \in Nat
      BY <3>1, <3>2, <3>3, Lineages, Zenon DEF Release
    <3>5. release.clearedAt <= release.decidedAt /\ release.remote.at > release.clearedAt
      BY <1>t, <3>1, Zenon DEF ReleaseInv
    <3>6. o = "REQUIRE_FRESH_GRANT" => ~Blocked(r) /\ ~(r # release.remote /\ r.at <= release.decidedAt)
      BY Zenon
    <3> HIDE DEF o
    <3>7. o = "REQUIRE_FRESH_GRANT" => r.at > release.clearedAt
      BY <1>2, <3>4, <3>5, <3>6
    <3> QED BY <3>1, <3>4, <3>6, <3>7, Zenon
  <2> QED BY <2>1, <2>2, <2>3, Zenon DEF RestartEvaluate
<1>4. PICK o, t : /\ Decide(r, o, t)
                  /\ o = "REQUIRE_FRESH_GRANT" => ~Blocked(r)
                  /\ o = "REQUIRE_FRESH_GRANT" /\ Lineage(ledger.exit, ledger.recovery) > 0
                        => r.at > Lineage(ledger.exit, ledger.recovery)
  BY <1>3, Zenon
<1>5. /\ restart'.generation = ledger.generation /\ restart'.exit = ledger.exit /\ restart'.recovery = ledger.recovery
      /\ restart'.remote = r /\ restart'.outcome = o
      /\ restart'.generation \in Nat /\ restart'.count \in Nat /\ restart'.windowStart \in Nat
      /\ restart'.exit \in Exit \cup {None} /\ restart'.recovery \in Recovery \cup {None}
      /\ ~Blocked(r) => Room(acts, restart'.count + 1, restart'.windowStart)
  BY <1>3, <1>4, Decided, Zenon
<1>6. Types'
  BY <1>1, <1>5, <1>t, ZenonT(40) DEF Types, ClockType, GrantType, LedgerType, ActType, SupType, LockType, FileType, RestartType
<1>7. ActsInv' /\ GoneInv' /\ ReleaseInv' /\ StartInv' /\ OwnerInv' /\ GrantStartsOnce' /\ RestartIsReattested'
  BY <1>1, <1>t DEF ActsInv, GoneInv, ReleaseInv, StartInv, OwnerInv, GrantStartsOnce, RestartIsReattested
<1>8. AttestInv'
  <2>1. EvidenceTime' = EvidenceTime
    BY <1>1, Zenon DEF EvidenceTime
  <2>2. restart'.outcome = "REQUIRE_FRESH_GRANT" /\ Lineage(restart'.exit, restart'.recovery) > 0
          => restart'.remote.at > Lineage(restart'.exit, restart'.recovery)
    BY <1>4, <1>5, Zenon
  <2>3. sup' = sup
    BY <1>1, Zenon
  <2> QED BY <1>t, <2>1, <2>2, <2>3, Zenon DEF AttestInv
<1>9. BudgetInv'
  <2>1. ledger.generation \in Nat
    BY <1>3, <1>t, LedgerFields, Zenon DEF LedgerType
  <2>2. restart'.outcome = "REQUIRE_FRESH_GRANT" => Room(acts, restart'.count + 1, restart'.windowStart)
    BY <1>4, <1>5, Zenon
  <2>3. restart'.generation <= ledger.generation
    BY <1>5, <2>1
  <2>4. UNCHANGED <<ledger, acts, sup>>
    BY <1>1, Zenon
  <2> QED BY <1>3, <1>t, <2>2, <2>3, <2>4, Zenon DEF BudgetInv
<1> QED BY <1>6, <1>7, <1>8, <1>9, Zenon DEF IndInv

-----------------------------------------------------------------------------
(* The invariant, and what follows from it.                                *)

LEMMA IndInvInit == Init => IndInv
<1> SUFFICES ASSUME Init PROVE IndInv
  BY Zenon
<1>1. /\ now = 1 /\ boot = 1 /\ remotes = {} /\ grants = {} /\ consumed = {} /\ acts = <<>> /\ ledger = None /\ lock = None
      /\ sup = [s \in Sups |-> Idle] /\ observation = None /\ reconciliation = None /\ release = None /\ restart = None
  BY Zenon DEF Init
<1>2. \A s \in Sups : sup[s].pc = "idle" /\ sup[s].act = 0
  BY <1>1, Zenon DEF Idle
<1>3. DOMAIN acts = {} /\ acts \in Seq(Act(grants))
  BY <1>1
<1>4. ClockType /\ GrantType /\ LedgerType /\ FileType /\ RestartType
  BY <1>1 DEF ClockType, GrantType, LedgerType, FileType, RestartType
<1>5. ActType /\ SupType /\ LockType
  BY <1>1, <1>2, <1>3, IdleSup, Constants, Zenon DEF ActType, SupType, LockType
<1>6. ActsInv /\ GoneInv /\ ReleaseInv /\ OwnerInv /\ GrantStartsOnce /\ RestartIsReattested
  BY <1>1, <1>3, Zenon DEF ActsInv, GoneInv, ReleaseInv, OwnerInv, GrantStartsOnce, RestartIsReattested
<1>7. StartInv /\ AttestInv
  BY <1>1, <1>2, Zenon DEF StartInv, AttestInv
<1>8. BudgetInv
  BY <1>1, <1>2, <1>3, Zenon DEF BudgetInv
<1> QED BY <1>4, <1>5, <1>6, <1>7, <1>8, Zenon DEF IndInv, Types

LEMMA IndInvNext == ASSUME Counting PROVE IndInv /\ [Next]_vars => IndInv'
<1> SUFFICES ASSUME IndInv, [Next]_vars PROVE IndInv'
  BY Zenon
<1>1. CASE Tick
  BY <1>1, TickInd, Zenon
<1>2. CASE RemoteVerify
  BY <1>2, RemoteVerifyInd, Zenon
<1>3. CASE Reboot
  BY <1>3, RebootInd, Zenon
<1>4. ASSUME NEW r \in remotes, AdmissionIssue(r) PROVE IndInv'
  BY <1>4, IssueInd, Zenon DEF AdmissionIssue
<1>5. ASSUME NEW r \in remotes, RestartEvaluate(r) PROVE IndInv'
  BY <1>5, RestartInd, Zenon
<1>6. ASSUME NEW r \in remotes, QuarantineApprove(r) PROVE IndInv'
  BY <1>6, ApproveInd, Zenon
<1>7. ASSUME NEW r \in remotes, QuarantineReleaseDecide(r) PROVE IndInv'
  BY <1>7, ReleaseDecideInd, Zenon
<1>8. ASSUME NEW s \in Sups, AttestedRun(s) PROVE IndInv'
  <2>1. ASSUME NEW g \in grants, StartGovernedWorkload(s, g) PROVE IndInv'
    BY <2>1, ClaimInd, Zenon
  <2>2. CASE StartAttestedWorkload(s)
    BY <2>2, AttestedInd, Zenon
  <2>3. CASE PersistRunning(s)
    BY <2>3, PersistInd, Zenon
  <2>4. CASE WriteActivationReceipt(s)
    BY <2>4, ReceiptInd, Zenon
  <2>5. CASE WaitGovernedWorkload(s)
    BY <2>5, WaitInd, Zenon
  <2>6. CASE WriteExitReceipt(s)
    BY <2>6, ExitReceiptInd, Zenon
  <2> QED BY <1>8, <2>1, <2>2, <2>3, <2>4, <2>5, <2>6, Zenon DEF AttestedRun
<1>9. ASSUME NEW s \in Sups, SupervisorCrash(s) PROVE IndInv'
  BY <1>9, CrashInd, Zenon
<1>10. ASSUME NEW a \in DOMAIN acts, ProcessStep(a) PROVE IndInv'
  BY <1>10, ProcessInd, Zenon
<1>11. CASE AdmissionRestartIssue
  BY <1>11, RestartIssueInd, Zenon
<1>12. CASE QuarantineReleaseApply
  BY <1>12, ReleaseApplyInd, Zenon
<1>13. CASE ReconcileObserve
  BY <1>13, ObserveInd, Zenon
<1>14. CASE ReconcileDecide
  BY <1>14, DecideInd, Zenon
<1>15. CASE ReconcileApply
  BY <1>15, ApplyInd, Zenon
<1>16. CASE UNCHANGED vars
  <2>1. UNCHANGED <<now, boot, remotes, grants, consumed, acts, ledger, lock, sup, restart, observation, reconciliation, release>>
    BY <1>16, Zenon DEF vars, host, artifacts
  <2>2. FileType' /\ GoneInv' /\ ReleaseInv'
    BY <2>1, Zenon DEF IndInv, Types, FileType, GoneInv, ReleaseInv
  <2> QED BY <2>1, <2>2, Files, Zenon
<1> QED BY <1>1, <1>2, <1>3, <1>4, <1>5, <1>6, <1>7, <1>8, <1>9, <1>10, <1>11, <1>12, <1>13, <1>14, <1>15, <1>16, Zenon DEF Next

\* The inductive invariant gives the one governed process.
LEMMA OneFollows == IndInv => OneGovernedProcess
<1> SUFFICES ASSUME IndInv PROVE OneGovernedProcess
  BY Zenon
<1>t. /\ ClockType /\ GrantType /\ LedgerType /\ ActType /\ SupType /\ LockType /\ FileType /\ StartInv /\ OwnerInv
      /\ GrantStartsOnce
  BY Zenon DEF IndInv, Types
<1>1. \A a \in DOMAIN acts : acts[a].grant \in grants /\ acts[a].grant.id \in consumed /\ acts[a].proc \in Live \cup {"dead"}
  BY <1>t, EachAct, Zenon DEF ActType
<1>2. TypeOK
  BY <1>1, <1>t, Zenon DEF TypeOK, ClockType, GrantType, LedgerType, LockType, FileType
<1>3. SoleProcess
  <2> SUFFICES ASSUME NEW a \in DOMAIN acts, NEW b \in DOMAIN acts, acts[a].proc \in Governed, acts[b].proc \in Governed
               PROVE  a = b
    BY Zenon DEF SoleProcess, Governed
  <2>1. CASE \E s \in Sups : sup[s].pc = "created"
    <3>1. PICK s \in Sups : sup[s].pc = "created"
      BY <2>1, Zenon
    <3>2. lock # None /\ \A t \in Sups : t # s => sup[t].pc \notin {"claimed", "created"}
      BY <1>t, <3>1, Holder, Zenon
    <3>3. ledger = None \/ ledger.state \in Ended
      BY <1>t, <3>2, Zenon DEF StartInv
    <3> QED BY <1>t, <3>2, <3>3 DEF OwnerInv, Ended
  <2>2. CASE ~\E s \in Sups : sup[s].pc = "created"
    BY <1>t, <2>2, Zenon DEF OwnerInv
  <2> QED BY <2>1, <2>2, Zenon
<1>4. ExitedIsGone
  <2> SUFFICES ASSUME ledger # None, ledger.state \in Ended PROVE acts[ledger.activation].proc \notin Governed
    BY Zenon DEF ExitedIsGone, Ended, Governed
  <2>1. ledger.activation \in DOMAIN acts
    BY <1>t, Zenon DEF LedgerType
  <2>2. ledger.state \notin {"RUNNING", "QUARANTINED"}
    BY Zenon DEF Ended
  <2>3. ASSUME NEW s \in Sups, sup[s].pc = "created" PROVE sup[s].act # ledger.activation
    BY <1>t, <2>3, Zenon DEF StartInv
  <2> QED BY <1>t, <2>1, <2>2, <2>3, Zenon DEF OwnerInv
<1> QED BY <1>2, <1>3, <1>4, <1>t, Zenon DEF OneGovernedProcess

\* The inductive invariant gives the restart budget.
LEMMA EarnedFollows == ASSUME Counting PROVE IndInv => RestartIsEarned
<1> SUFFICES ASSUME IndInv PROVE RestartIsEarned
  BY Zenon
<1>1. BudgetHolds
  <2> SUFFICES ASSUME ledger # None PROVE Cardinality(Ran(acts, ledger.windowStart)) <= MaxRestarts + 1
    BY Zenon DEF BudgetHolds, Ran
  <2>1. ledger.count <= MaxRestarts /\ Cardinality(Ran(acts, ledger.windowStart)) <= ledger.count + 1
    BY Zenon DEF IndInv, BudgetInv
  <2>2. ledger.count \in Nat /\ MaxRestarts \in Nat
    BY LedgerFields, Constants, Zenon DEF IndInv, Types, LedgerType
  <2>3. Cardinality(Ran(acts, ledger.windowStart)) \in Nat
    BY RanFinite, Zenon DEF IndInv, Types, ActType
  <2> QED BY <2>1, <2>2, <2>3
<1> QED BY <1>1, Zenon DEF RestartIsEarned, IndInv

\* The steps that move the ledger, and what they make of it.
LEMMA LedgerSteps ==
  ASSUME IndInv, [Next]_vars, ledger # None, ledger' # ledger
  PROVE  \/ /\ ledger.state \in Ended /\ ledger'.state = "RUNNING"
            /\ ledger'.generation = ledger.generation + 1 /\ ledger'.epoch = ledger.epoch
         \/ /\ ledger.state = "RUNNING" /\ ledger'.state # "RUNNING"
            /\ ledger'.generation = ledger.generation /\ ledger'.epoch = ledger.epoch
         \/ /\ ledger.state = "QUARANTINED" /\ ledger'.state = "EXITED_UNKNOWN"
            /\ ledger'.generation = ledger.generation /\ ledger'.epoch = ledger.epoch + 1
            /\ ledger'.recovery = release /\ release # None
            /\ release.activation = ledger.activation /\ release.quarantine = ledger.recovery
<1>t. /\ LedgerType /\ SupType /\ LockType /\ StartInv /\ ledger \in Ledger
  BY Zenon DEF IndInv, Types, LedgerType
<1>1. CASE ReconcileApply
  <2>1. /\ ledger.state = "RUNNING"
        /\ \E st \in {"EXITED_UNKNOWN", "QUARANTINED"} : ledger' = [ledger EXCEPT !.state = st, !.recovery = reconciliation]
    <3>1. reconciliation.outcome \in {"KEEP_RUNNING", "MARK_EXITED_UNKNOWN", "QUARANTINE"}
      <4>1. reconciliation \in Reconciliation
        BY <1>1, Zenon DEF IndInv, Types, FileType, ReconcileApply, ApplyWorkloadReconciliation, VerifySignedWorkloadReconciliationDecision
      <4> QED BY <4>1, Zenon DEF Reconciliation
    <3> QED BY <1>1, <3>1, Zenon DEF ReconcileApply, ApplyWorkloadReconciliation
  <2>2. PICK st \in {"EXITED_UNKNOWN", "QUARANTINED"} : ledger' = [ledger EXCEPT !.state = st, !.recovery = reconciliation]
    BY <2>1, Zenon
  <2>3. [ledger EXCEPT !.state = st, !.recovery = reconciliation]
          = Book(st, ledger.generation, ledger.epoch, ledger.activation, ledger.exit, reconciliation, ledger.count, ledger.windowStart)
    BY <1>t, LedgerShapes, Zenon
  <2>4. ledger' = Book(st, ledger.generation, ledger.epoch, ledger.activation, ledger.exit, reconciliation, ledger.count, ledger.windowStart)
    BY <2>2, <2>3, Zenon
  <2>5. ledger'.state = st /\ ledger'.generation = ledger.generation /\ ledger'.epoch = ledger.epoch
    BY <2>4, Zenon DEF Book
  <2> QED BY <2>1, <2>5, Zenon
<1>2. CASE QuarantineReleaseApply
  <2>1. /\ ledger.state = "QUARANTINED" /\ release # None
        /\ release.activation = ledger.activation /\ release.quarantine = ledger.recovery
        /\ ledger' = [ledger EXCEPT !.state = "EXITED_UNKNOWN", !.epoch = @ + 1, !.recovery = release]
    BY <1>2, Zenon DEF QuarantineReleaseApply, ApplyQuarantineRelease
  <2>2. [ledger EXCEPT !.state = "EXITED_UNKNOWN", !.epoch = @ + 1, !.recovery = release]
          = Book("EXITED_UNKNOWN", ledger.generation, ledger.epoch + 1, ledger.activation, ledger.exit, release, ledger.count, ledger.windowStart)
    BY <1>t, LedgerShapes, Zenon
  <2>3. ledger' = Book("EXITED_UNKNOWN", ledger.generation, ledger.epoch + 1, ledger.activation, ledger.exit, release, ledger.count, ledger.windowStart)
    BY <2>1, <2>2, Zenon
  <2>4. /\ ledger'.state = "EXITED_UNKNOWN" /\ ledger'.generation = ledger.generation /\ ledger'.epoch = ledger.epoch + 1
        /\ ledger'.recovery = release
    BY <2>3, Zenon DEF Book
  <2> QED BY <2>1, <2>4, Zenon
<1>3. ASSUME NEW s \in Sups, WaitGovernedWorkload(s)
      PROVE  ledger.state = "RUNNING" /\ ledger'.state = "EXITED" /\ ledger'.generation = ledger.generation /\ ledger'.epoch = ledger.epoch
  <2> DEFINE x == [activation |-> sup[s].act, class |-> acts[sup[s].act].class, at |-> now]
  <2>1. ledger.state = "RUNNING" /\ ledger' = [ledger EXCEPT !.state = "EXITED", !.exit = x]
    BY <1>3, Zenon DEF WaitGovernedWorkload
  <2> HIDE DEF x
  <2>2. [ledger EXCEPT !.state = "EXITED", !.exit = x]
          = Book("EXITED", ledger.generation, ledger.epoch, ledger.activation, x, ledger.recovery, ledger.count, ledger.windowStart)
    BY <1>t, LedgerShapes, Zenon
  <2>3. ledger' = Book("EXITED", ledger.generation, ledger.epoch, ledger.activation, x, ledger.recovery, ledger.count, ledger.windowStart)
    BY <2>1, <2>2, Zenon
  <2>4. ledger'.state = "EXITED" /\ ledger'.generation = ledger.generation /\ ledger'.epoch = ledger.epoch
    BY <2>3, Zenon DEF Book
  <2> QED BY <2>1, <2>4, Zenon
<1>4. ASSUME NEW s \in Sups, PersistRunning(s)
      PROVE  /\ ledger.state \in Ended /\ ledger'.state = "RUNNING"
             /\ ledger'.generation = ledger.generation + 1 /\ ledger'.epoch = ledger.epoch
  <2> DEFINE n == sup[s].next
             a == sup[s].act
  <2>1. sup[s].pc = "created" /\ ledger' = [n EXCEPT !.activation = a]
    BY <1>4, Zenon DEF PersistRunning
  <2>2. lock # None
    BY <1>t, <2>1, Holder, Zenon
  <2>3. ledger.state \in Ended /\ n # None /\ Follows(n, ledger)
    BY <1>t, <2>1, <2>2, Zenon DEF StartInv
  <2>4. n \in Ledger
    BY <1>t, <2>3, SupFields, Zenon DEF SupType
  <2> HIDE DEF n, a
  <2>5. [n EXCEPT !.activation = a] = Book(n.state, n.generation, n.epoch, a, n.exit, n.recovery, n.count, n.windowStart)
    BY <2>4, LedgerShapes, Zenon
  <2>6. ledger' = Book(n.state, n.generation, n.epoch, a, n.exit, n.recovery, n.count, n.windowStart)
    BY <2>1, <2>5, Zenon
  <2>7. ledger'.state = n.state /\ ledger'.generation = n.generation /\ ledger'.epoch = n.epoch
    BY <2>6, Zenon DEF Book
  <2> QED BY <2>3, <2>7, Zenon DEF Follows
<1>5. \/ ReconcileApply \/ QuarantineReleaseApply
      \/ \E s \in Sups : WaitGovernedWorkload(s) \/ PersistRunning(s)
  BY Zenon DEF Next, vars, AttestedRun, Tick, RemoteVerify, Reboot, AdmissionIssue, RestartEvaluate, QuarantineApprove,
         QuarantineReleaseDecide, StartGovernedWorkload, StartAttestedWorkload, WriteActivationReceipt, WriteExitReceipt,
         SupervisorCrash, ProcessStep, AdmissionRestartIssue, ReconcileObserve, ReconcileDecide
<1> QED BY <1>1, <1>2, <1>3, <1>4, <1>5, Zenon

\* A step leaves the quarantine only by a release, and starts only a new generation.
LEMMA ForwardStep ==
  ASSUME IndInv, [Next]_vars, ledger # None, ledger' # ledger
  PROVE  /\ ledger.state = "QUARANTINED" =>
              /\ ledger'.state = "EXITED_UNKNOWN"
              /\ ledger'.epoch = ledger.epoch + 1 /\ ledger'.generation = ledger.generation
              /\ acts[ledger.activation].proc \notin {"alive", "moved"}
              /\ ledger'.recovery.clearedAt > ledger.recovery.decidedAt
              /\ \E r \in remotes : r.verdict = "ALLOW" /\ r.at > ledger'.recovery.clearedAt
         /\ ledger'.generation >= ledger.generation /\ ledger'.epoch >= ledger.epoch
         /\ ledger'.state = "RUNNING" => ledger'.generation = ledger.generation + 1
<1>1. ledger.generation \in Nat /\ ledger.epoch \in Nat
  BY LedgerFields, Zenon DEF IndInv, Types, LedgerType
<1>2. /\ release # None => /\ release.clearedAt > release.quarantine.decidedAt
                           /\ release.remote \in remotes /\ release.remote.verdict = "ALLOW"
                           /\ release.remote.at > release.clearedAt
                           /\ acts[release.activation].proc \notin {"alive", "moved"}
  BY Zenon DEF IndInv, ReleaseInv, GoneInv, Vanished, Governed
<1>3. CASE /\ ledger.state \in Ended /\ ledger'.state = "RUNNING"
           /\ ledger'.generation = ledger.generation + 1 /\ ledger'.epoch = ledger.epoch
  BY <1>1, <1>3 DEF Ended
<1>4. CASE /\ ledger.state = "RUNNING" /\ ledger'.state # "RUNNING"
           /\ ledger'.generation = ledger.generation /\ ledger'.epoch = ledger.epoch
  BY <1>1, <1>4
<1>5. CASE /\ ledger.state = "QUARANTINED" /\ ledger'.state = "EXITED_UNKNOWN"
           /\ ledger'.generation = ledger.generation /\ ledger'.epoch = ledger.epoch + 1
           /\ ledger'.recovery = release /\ release # None
           /\ release.activation = ledger.activation /\ release.quarantine = ledger.recovery
  BY <1>1, <1>2, <1>5
<1> QED BY <1>3, <1>4, <1>5, LedgerSteps, Zenon

-----------------------------------------------------------------------------
(* The theorems.  The library's facts about finite sets are about its own  *)
(* copy of FiniteSets, which has the same definitions.                     *)

Sets == INSTANCE FiniteSetTheorems

LEMMA CountingHolds == Counting
<1>c. ASSUME NEW S PROVE Cardinality(S) = Sets!Cardinality(S)
  BY Zenon DEF Cardinality, Sets!Cardinality
<1>f. ASSUME NEW S PROVE IsFiniteSet(S) <=> Sets!IsFiniteSet(S)
  BY Zenon DEF IsFiniteSet, Sets!IsFiniteSet
<1>1. ASSUME NEW S, NEW T, NEW a, IsFiniteSet(S), T \subseteq S \cup {a}
      PROVE  Cardinality(S) \in Nat /\ Cardinality(T) \in Nat /\ Cardinality(T) <= Cardinality(S) + 1
  <2>1. Sets!IsFiniteSet(S)
    BY <1>1, <1>f, Zenon
  <2>2. /\ Sets!IsFiniteSet(S \cup {a})
        /\ Sets!Cardinality(S \cup {a}) = IF a \in S THEN Sets!Cardinality(S) ELSE Sets!Cardinality(S) + 1
    BY <2>1, Sets!FS_AddElement, Zenon
  <2>3. Sets!IsFiniteSet(T) /\ Sets!Cardinality(T) <= Sets!Cardinality(S \cup {a})
    BY <1>1, <2>2, Sets!FS_Subset, Zenon
  <2>4. Sets!Cardinality(S) \in Nat /\ Sets!Cardinality(T) \in Nat
    BY <2>1, <2>3, Sets!FS_CardinalityType, Zenon
  <2>5. Sets!Cardinality(T) <= Sets!Cardinality(S) + 1
    BY <2>2, <2>3, <2>4
  <2> QED BY <1>c, <2>4, <2>5, Zenon
<1>2. Cardinality({}) = 0 /\ IsFiniteSet({})
  BY <1>c, <1>f, Sets!FS_EmptySet, Zenon
<1>3. ASSUME NEW n \in Nat, NEW S \in SUBSET (1..n) PROVE IsFiniteSet(S) /\ Cardinality(S) \in Nat
  <2>1. Sets!IsFiniteSet(1..n)
    BY Sets!FS_Interval
  <2>2. Sets!IsFiniteSet(S)
    BY <2>1, Sets!FS_Subset, Zenon
  <2>3. Sets!Cardinality(S) \in Nat
    BY <2>2, Sets!FS_CardinalityType, Zenon
  <2> QED BY <1>c, <1>f, <2>2, <2>3, Zenon
<1> QED BY <1>1, <1>2, <1>3, Zenon DEF Counting

\* There is one governed process, a grant starts at most one, and a ledger that
\* says the workload exited is right about it: however starts race, whatever
\* fails, crashes or reboots between two steps of one, and however old the
\* evidence a reconciliation or a release is applied with.
THEOREM OneProcess == Spec => []OneGovernedProcess
<1>1. Init => IndInv
  BY IndInvInit, Zenon
<1>2. IndInv /\ [Next]_vars => IndInv'
  BY IndInvNext, CountingHolds, Zenon
<1>3. IndInv => OneGovernedProcess
  BY OneFollows, Zenon
<1> QED BY <1>1, <1>2, <1>3, PTL DEF Spec

\* A restart rests on an attestation newer than the evidence that ended the
\* previous generation, and stays within the budget of its window, for every
\* policy.
THEOREM RestartsEarned == Spec => []RestartIsEarned
<1>1. Init => IndInv
  BY IndInvInit, Zenon
<1>2. IndInv /\ [Next]_vars => IndInv'
  BY IndInvNext, CountingHolds, Zenon
<1>3. IndInv => RestartIsEarned
  BY EarnedFollows, CountingHolds, Zenon
<1> QED BY <1>1, <1>2, <1>3, PTL DEF Spec

\* A quarantined ledger is left only by a release that advances its epoch, made
\* after the process was seen gone and the device attested again; and a
\* generation that has ended never runs again.
THEOREM LedgerForward == Spec => LedgerMovesOn
<1>1. Init => IndInv
  BY IndInvInit, Zenon
<1>2. IndInv /\ [Next]_vars => IndInv'
  BY IndInvNext, CountingHolds, Zenon
<1>3. IndInv /\ [Next]_vars =>
        [ledger # None /\ ledger.state = "QUARANTINED" /\ ledger' # ledger =>
          /\ ledger'.state = "EXITED_UNKNOWN"
          /\ ledger'.epoch = ledger.epoch + 1 /\ ledger'.generation = ledger.generation
          /\ acts[ledger.activation].proc \notin {"alive", "moved"}
          /\ ledger'.recovery.clearedAt > ledger.recovery.decidedAt
          /\ \E r \in remotes : r.verdict = "ALLOW" /\ r.at > ledger'.recovery.clearedAt]_vars
  BY ForwardStep, Zenon
<1>4. IndInv /\ [Next]_vars =>
        [ledger # None /\ ledger' # ledger =>
          /\ ledger'.generation >= ledger.generation /\ ledger'.epoch >= ledger.epoch
          /\ ledger'.state = "RUNNING" => ledger'.generation = ledger.generation + 1]_vars
  BY ForwardStep, Zenon
<1> QED BY <1>1, <1>2, <1>3, <1>4, PTL DEF Spec, LedgerMovesOn, QuarantineHolds, GenerationRunsOnce
=============================================================================
