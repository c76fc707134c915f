-------------------------- MODULE CRMExecutorProofs --------------------------
(***************************************************************************)
(* Proofs about CRMExecutor, for any calls, attempts, fields, versions and *)
(* crashes: at most one PATCH is sent for an attempt, and an attempt is    *)
(* closed for what really happened and stays so.                           *)
(***************************************************************************)
EXTENDS CRMExecutor, TLAPS

\* A call's locals as a record of its fields.
Local(k, a, s, h, f, n, o) ==
    [kind |-> k, att |-> a, state |-> s, http |-> h, last |-> f, count |-> n, out |-> o]

\* The fields of a call's locals.
LEMMA LocalFields ==
  ASSUME NEW l \in Locals
  PROVE  /\ l = Local(l.kind, l.att, l.state, l.http, l.last, l.count, l.out)
         /\ l.kind \in {"execute", "reconcile", "retire", None} /\ l.att \in Attempts \cup {None}
         /\ l.state \in States \cup {None} /\ l.http \in {0, 200} /\ l.last \in SUBSET Fields
         /\ l.count \in 0 .. 2 /\ l.out \in Outcomes \cup {None}
BY Zenon DEF Locals, Local

\* The locals of call p become r, those of the others stay.
Becomes(p, r) == loc' \in [Procs -> Locals] /\ loc'[p] = r /\ \A q \in Procs \ {p} : loc'[q] = loc[q]

\* What a step does to the locals of the calls, for every field or pair of fields
\* that a step sets.
LEMMA SetLocals ==
  ASSUME TypeOK, NEW p \in Procs
  PROVE  /\ \A s \in States : loc' = [loc EXCEPT ![p].state = s]
              => Becomes(p, Local(loc[p].kind, loc[p].att, s, loc[p].http, loc[p].last, loc[p].count, loc[p].out))
         /\ \A h \in {0, 200} : loc' = [loc EXCEPT ![p].http = h]
              => Becomes(p, Local(loc[p].kind, loc[p].att, loc[p].state, h, loc[p].last, loc[p].count, loc[p].out))
         /\ \A o \in Outcomes : loc' = [loc EXCEPT ![p].out = o]
              => Becomes(p, Local(loc[p].kind, loc[p].att, loc[p].state, loc[p].http, loc[p].last, loc[p].count, o))
         /\ \A s \in States, o \in Outcomes : loc' = [loc EXCEPT ![p].state = s, ![p].out = o]
              => Becomes(p, Local(loc[p].kind, loc[p].att, s, loc[p].http, loc[p].last, loc[p].count, o))
         /\ \A n \in 0 .. 2, f \in SUBSET Fields : loc' = [loc EXCEPT ![p].count = n, ![p].last = f]
              => Becomes(p, Local(loc[p].kind, loc[p].att, loc[p].state, loc[p].http, f, n, loc[p].out))
<1>0. /\ loc \in [Procs -> Locals] /\ loc[p] \in Locals
      /\ loc[p] = Local(loc[p].kind, loc[p].att, loc[p].state, loc[p].http, loc[p].last, loc[p].count, loc[p].out)
  BY LocalFields, Zenon DEF TypeOK
<1>a. ASSUME NEW r \in Locals, loc' = [loc EXCEPT ![p] = r] PROVE Becomes(p, r)
  BY <1>0, <1>a, Zenon DEF Becomes
<1>b. ASSUME NEW r \in Locals, NEW x PROVE [[loc EXCEPT ![p] = r] EXCEPT ![p] = x] = [loc EXCEPT ![p] = x]
  BY <1>0, Zenon
<1>1. ASSUME NEW s \in States,
             loc' = [loc EXCEPT ![p].state = s]
      PROVE  Becomes(p, Local(loc[p].kind, loc[p].att, s, loc[p].http, loc[p].last, loc[p].count, loc[p].out))
  <2>1. [loc[p] EXCEPT !.state = s] = Local(loc[p].kind, loc[p].att, s, loc[p].http, loc[p].last, loc[p].count, loc[p].out)
    BY <1>0 DEF Local
  <2>2. Local(loc[p].kind, loc[p].att, s, loc[p].http, loc[p].last, loc[p].count, loc[p].out) \in Locals
    BY <1>0, LocalFields, Zenon DEF Locals, Local
  <2>3. loc' = [loc EXCEPT ![p] = [loc[p] EXCEPT !.state = s]]
    BY <1>0, <1>1, Zenon
  <2> QED BY <1>a, <2>1, <2>2, <2>3, Zenon
<1>2. ASSUME NEW h \in {0, 200},
             loc' = [loc EXCEPT ![p].http = h]
      PROVE  Becomes(p, Local(loc[p].kind, loc[p].att, loc[p].state, h, loc[p].last, loc[p].count, loc[p].out))
  <2>1. [loc[p] EXCEPT !.http = h] = Local(loc[p].kind, loc[p].att, loc[p].state, h, loc[p].last, loc[p].count, loc[p].out)
    BY <1>0 DEF Local
  <2>2. Local(loc[p].kind, loc[p].att, loc[p].state, h, loc[p].last, loc[p].count, loc[p].out) \in Locals
    BY <1>0, LocalFields DEF Locals, Local
  <2>3. loc' = [loc EXCEPT ![p] = [loc[p] EXCEPT !.http = h]]
    BY <1>0, <1>2, Zenon
  <2> QED BY <1>a, <2>1, <2>2, <2>3, Zenon
<1>3. ASSUME NEW o \in Outcomes,
             loc' = [loc EXCEPT ![p].out = o]
      PROVE  Becomes(p, Local(loc[p].kind, loc[p].att, loc[p].state, loc[p].http, loc[p].last, loc[p].count, o))
  <2>1. [loc[p] EXCEPT !.out = o] = Local(loc[p].kind, loc[p].att, loc[p].state, loc[p].http, loc[p].last, loc[p].count, o)
    BY <1>0 DEF Local
  <2>2. Local(loc[p].kind, loc[p].att, loc[p].state, loc[p].http, loc[p].last, loc[p].count, o) \in Locals
    BY <1>0, LocalFields DEF Locals, Local
  <2>3. loc' = [loc EXCEPT ![p] = [loc[p] EXCEPT !.out = o]]
    BY <1>0, <1>3, Zenon
  <2> QED BY <1>a, <2>1, <2>2, <2>3, Zenon
<1>4. ASSUME NEW s \in States, NEW o \in Outcomes,
             loc' = [loc EXCEPT ![p].state = s, ![p].out = o]
      PROVE  Becomes(p, Local(loc[p].kind, loc[p].att, s, loc[p].http, loc[p].last, loc[p].count, o))
  <2> DEFINE r == Local(loc[p].kind, loc[p].att, s, loc[p].http, loc[p].last, loc[p].count, loc[p].out)
             g == [loc EXCEPT ![p] = r]
  <2>1. r \in Locals /\ Local(loc[p].kind, loc[p].att, s, loc[p].http, loc[p].last, loc[p].count, o) \in Locals
    BY <1>0, LocalFields DEF Locals, Local
  <2>2. [loc[p] EXCEPT !.state = s] = r
    BY <1>0 DEF Local
  <2>3. [r EXCEPT !.out = o] = Local(loc[p].kind, loc[p].att, s, loc[p].http, loc[p].last, loc[p].count, o)
    BY DEF Local
  <2>4. g \in [Procs -> Locals] /\ g[p] = r
    BY <1>0, <2>1, Zenon
  <2>5. loc' = [[loc EXCEPT ![p] = [loc[p] EXCEPT !.state = s]] EXCEPT ![p].out = o]
    BY <1>0, <1>4, Zenon
  <2>6. loc' = [g EXCEPT ![p].out = o]
    BY <2>2, <2>5, Zenon
  <2>7. ASSUME NEW x PROVE [g EXCEPT ![p] = x] = [loc EXCEPT ![p] = x]
    BY <1>b, <2>1, Zenon
  <2> HIDE DEF r, g
  <2>8. loc' = [g EXCEPT ![p] = [g[p] EXCEPT !.out = o]]
    BY <2>4, <2>6, Zenon
  <2>9. loc' = [loc EXCEPT ![p] = Local(loc[p].kind, loc[p].att, s, loc[p].http, loc[p].last, loc[p].count, o)]
    BY <2>3, <2>4, <2>7, <2>8, Zenon
  <2> QED BY <1>a, <2>1, <2>9, Zenon
<1>5. ASSUME NEW n \in 0 .. 2, NEW f \in SUBSET Fields,
             loc' = [loc EXCEPT ![p].count = n, ![p].last = f]
      PROVE  Becomes(p, Local(loc[p].kind, loc[p].att, loc[p].state, loc[p].http, f, n, loc[p].out))
  <2> DEFINE r == Local(loc[p].kind, loc[p].att, loc[p].state, loc[p].http, loc[p].last, n, loc[p].out)
             g == [loc EXCEPT ![p] = r]
  <2>1. r \in Locals /\ Local(loc[p].kind, loc[p].att, loc[p].state, loc[p].http, f, n, loc[p].out) \in Locals
    BY <1>0, LocalFields DEF Locals, Local
  <2>2. [loc[p] EXCEPT !.count = n] = r
    BY <1>0 DEF Local
  <2>3. [r EXCEPT !.last = f] = Local(loc[p].kind, loc[p].att, loc[p].state, loc[p].http, f, n, loc[p].out)
    BY DEF Local
  <2>4. g \in [Procs -> Locals] /\ g[p] = r
    BY <1>0, <2>1, Zenon
  <2>5. loc' = [[loc EXCEPT ![p] = [loc[p] EXCEPT !.count = n]] EXCEPT ![p].last = f]
    BY <1>0, <1>5, Zenon
  <2>6. loc' = [g EXCEPT ![p].last = f]
    BY <2>2, <2>5, Zenon
  <2>7. ASSUME NEW x PROVE [g EXCEPT ![p] = x] = [loc EXCEPT ![p] = x]
    BY <1>b, <2>1, Zenon
  <2> HIDE DEF r, g
  <2>8. loc' = [g EXCEPT ![p] = [g[p] EXCEPT !.last = f]]
    BY <2>4, <2>6, Zenon
  <2>9. loc' = [loc EXCEPT ![p] = Local(loc[p].kind, loc[p].att, loc[p].state, loc[p].http, f, n, loc[p].out)]
    BY <2>3, <2>4, <2>7, <2>8, Zenon
  <2> QED BY <1>a, <2>1, <2>9, Zenon
<1> QED BY <1>1, <1>2, <1>3, <1>4, <1>5, Zenon

\* Load sets the state and the status of call p.
SetsLoaded(p, s, h) == loc' = [loc EXCEPT ![p].state = s, ![p].http = h]

\* What that does to the locals.
LEMMA LoadedLocals ==
  ASSUME TypeOK, NEW p \in Procs, NEW s \in States, NEW h \in {0, 200}, SetsLoaded(p, s, h)
  PROVE  Becomes(p, Local(loc[p].kind, loc[p].att, s, h, loc[p].last, loc[p].count, loc[p].out))
<1>base. /\ loc \in [Procs -> Locals] /\ loc[p] \in Locals
         /\ loc[p] = Local(loc[p].kind, loc[p].att, loc[p].state, loc[p].http, loc[p].last, loc[p].count, loc[p].out)
  BY LocalFields, Zenon DEF TypeOK
<1>one. ASSUME NEW r \in Locals, loc' = [loc EXCEPT ![p] = r] PROVE Becomes(p, r)
  BY <1>base, <1>one DEF Becomes
<1>over. ASSUME NEW r \in Locals, NEW x PROVE [[loc EXCEPT ![p] = r] EXCEPT ![p] = x] = [loc EXCEPT ![p] = x]
  BY <1>base, Zenon
<1> DEFINE r == Local(loc[p].kind, loc[p].att, s, loc[p].http, loc[p].last, loc[p].count, loc[p].out)
           g == [loc EXCEPT ![p] = r]
<1>1. r \in Locals /\ Local(loc[p].kind, loc[p].att, s, h, loc[p].last, loc[p].count, loc[p].out) \in Locals
  BY <1>base, LocalFields DEF Locals, Local
<1>2. [loc[p] EXCEPT !.state = s] = r
  BY <1>base DEF Local
<1>3. [r EXCEPT !.http = h] = Local(loc[p].kind, loc[p].att, s, h, loc[p].last, loc[p].count, loc[p].out)
  BY DEF Local
<1>4. g \in [Procs -> Locals] /\ g[p] = r
  BY <1>base, <1>1
<1>5. loc' = [[loc EXCEPT ![p] = [loc[p] EXCEPT !.state = s]] EXCEPT ![p].http = h]
  BY <1>base, Zenon DEF SetsLoaded
<1>6. loc' = [g EXCEPT ![p].http = h]
  BY <1>2, <1>5, Zenon
<1>7. ASSUME NEW x PROVE [g EXCEPT ![p] = x] = [loc EXCEPT ![p] = x]
  BY <1>over, <1>1, Zenon
<1> HIDE DEF r, g
<1>8. loc' = [g EXCEPT ![p] = [g[p] EXCEPT !.http = h]]
  BY <1>4, <1>6, Zenon
<1>9. loc' = [loc EXCEPT ![p] = Local(loc[p].kind, loc[p].att, s, h, loc[p].last, loc[p].count, loc[p].out)]
  BY <1>3, <1>4, <1>7, <1>8, Zenon
<1> QED BY <1>one, <1>1, <1>9, Zenon

-----------------------------------------------------------------------------
\* What no step takes back: journal entries, versions, an effect that is over.
Kept(a) ==
    /\ journal[a] \subseteq journal'[a] /\ (Moved => Moved') /\ (Unmet => Unmet')
    /\ Settled(a) => Settled(a)'

\* A call that does not move keeps its invariant, if the attempt it owns is not
\* touched by another one.
LEMMA ProcFrame ==
  ASSUME NEW q \in Procs, ProcInv(q), pc'[q] = pc[q], loc'[q] = loc[q],
         NEW a, a = loc[q].att, a \in Attempts => Kept(a),
         Owner(q, a) => /\ sent'[a] = sent[a] /\ store'[a] # None /\ (Untouched(a) => Untouched(a)'),
         pc[q] \in {"recheck", "patch"} => store'[a] \in {"POSSIBLE_EFFECT", "COMPLETED", "RETIRED_UNKNOWN"},
         pc[q] = "wait" => (answer'[q] = 200 => Settled(a)') /\ (answer'[q] = 412 => Untouched(a)')
  PROVE  ProcInv(q)'
<1> DEFINE l == loc[q]
           o == loc[q].out
<1>1. Owner(q, a)' <=> Owner(q, a)
  BY Zenon DEF Owner
<1>2. loc'[q].att = a
  BY Zenon
<1>3. CASE pc[q] = "idle"
  BY <1>3, Zenon DEF ProcInv, Owner
<1>4. CASE pc[q] # "idle"
  <2>1. a \in Attempts /\ Kept(a)
    BY <1>4, Zenon DEF ProcInv
  <2>2. Intent(a) => Intent(a)'
    BY <2>1, Zenon DEF Intent, Kept, Event
  <2>3. pc[q] = "complete" => Event("OUTCOME", o.state, o.result) \in journal'[a]
    BY <2>1, Zenon DEF Kept, ProcInv
  <2>4. pc[q] \in {"append", "complete"} /\ o.state = "COMPLETED" => Earned(a, o.result)'
    <3> SUFFICES ASSUME pc[q] \in {"append", "complete"}, o.state = "COMPLETED" PROVE Earned(a, o.result)'
      BY Zenon
    <3>1. Earned(a, o.result) /\ (o.result = "ALREADY_SATISFIED" => l.kind = "execute")
      BY Zenon DEF ProcInv
    <3>2. o.result = "ALREADY_SATISFIED" => Owner(q, a)
      BY <3>1, Zenon DEF Owner
    <3> QED BY <2>1, <3>1, <3>2, Zenon DEF Earned, Kept
  <2>5. pc[q] \notin {"idle", "load", "claim", "observe", "append", "complete"} => Owner(q, a)
    BY Zenon DEF ProcInv, Owner
  <2>6. /\ pc[q] \in {"authorize", "before", "check", "intent", "possible", "recheck", "patch"} => sent'[a] = 0
        /\ pc[q] = "block" => Untouched(a)'
    BY <2>5, Zenon DEF ProcInv
  <2>7. /\ pc[q] \in {"check", "intent", "possible", "recheck", "patch", "wait", "accept", "observe"} => Unmet'
        /\ pc[q] \in {"possible", "recheck", "patch"} => Intent(a)'
        /\ pc[q] = "accept" => Settled(a)'
        /\ pc[q] = "observe" /\ l.state = "ACCEPTED" => Settled(a)'
    BY <2>1, <2>2, Zenon DEF ProcInv, Kept
  <2> QED BY <1>1, <1>2, <2>3, <2>4, <2>6, <2>7 DEF ProcInv
<1> QED BY <1>3, <1>4, Zenon

\* An attempt whose record, events and request are left alone keeps its invariant.
LEMMA AttFrame ==
  ASSUME NEW b \in Attempts, AttInv(b), sent'[b] = sent[b], store'[b] = store[b], journal'[b] = journal[b],
         Moved => Moved', Unmet => Unmet', b \in applied' <=> b \in applied, Clear(b) => Clear(b)',
         \A w \in wire' : w[2] = b => w \in wire,
         \A q \in Procs : Owner(q, b)' => Owner(q, b) /\ (pc[q] = "complete" => pc'[q] = "complete")
  PROVE  AttInv(b)'
<1>1. (Untouched(b) => Untouched(b)') /\ (Settled(b) => Settled(b)')
  BY Zenon DEF Untouched, Settled
<1>2. \A r : Earned(b, r) => Earned(b, r)'
  BY <1>1, Zenon DEF Earned
<1>3. Intent(b) => Intent(b)'
  BY Zenon DEF Intent
<1>4. \A v, w \in wire' : v[2] = b /\ w[2] = b => v = w
  BY Zenon DEF AttInv
<1>5. \A p, q \in Procs : Owner(p, b)' /\ Owner(q, b)' => p = q
  BY Zenon DEF AttInv
<1>6. \A e \in journal'[b] : e.type = "OUTCOME" /\ e.state = "COMPLETED" =>
           /\ Earned(b, e.result)'
           /\ e.result = "ALREADY_SATISFIED" => \A p \in Procs : Owner(p, b)' => pc'[p] = "complete"
  BY <1>2, Zenon DEF AttInv
<1> QED BY <1>1, <1>3, <1>4, <1>5, <1>6, Zenon DEF AttInv

-----------------------------------------------------------------------------
Dispatched == {"POSSIBLE_EFFECT", "ACCEPTED", "BLOCKED", "COMPLETED", "RETIRED_UNKNOWN"}

\* What a step of call p may make of the record of its attempt.
RecordStep(p, a) ==
    \/ store'[a] = store[a]
    \/ store[a] = None /\ store'[a] \in {"CLAIMED", "TORN"}
    \/ /\ store[a] \in {"CLAIMED", "POSSIBLE_EFFECT", "ACCEPTED"} /\ store'[a] \in Dispatched
       /\ store'[a] \in {"POSSIBLE_EFFECT", "ACCEPTED"} => Unmet
       /\ store'[a] = "POSSIBLE_EFFECT" => store[a] = "CLAIMED"
       /\ store'[a] = "ACCEPTED" => Settled(a) /\ Owner(p, a) /\ pc[p] \notin {"recheck", "patch"}
       /\ store'[a] = "BLOCKED" => Untouched(a) /\ Owner(p, a) /\ pc[p] \notin {"recheck", "patch"}
       /\ store'[a] \in {"COMPLETED", "RETIRED_UNKNOWN"} =>
              \E e \in journal'[a] : e.type = "OUTCOME" /\ e.state = store'[a]

\* What it may add to the journal.
JournalStep(p, a) ==
    /\ journal[a] \subseteq journal'[a]
    /\ \A e \in journal'[a] \ journal[a] : e.type = "OUTCOME" /\ e.state = "COMPLETED" =>
           /\ Earned(a, e.result)
           /\ e.result = "ALREADY_SATISFIED" => Owner(p, a) /\ (Owner(p, a)' => pc'[p] = "complete")

\* A resolved record does not change, and a closed attempt changes nothing.
Final ==
    /\ \A b \in applied' \ applied : store[b] \in {"POSSIBLE_EFFECT", "RETIRED_UNKNOWN"}
    /\ \A b \in Attempts : store[b] \in {"BLOCKED", "COMPLETED", "RETIRED_UNKNOWN"} => store'[b] = store[b]

\* A step of a call other than sending keeps the invariant, if it keeps it for
\* the call and takes the attempt's record and journal on as it may.
LEMMA CallStep ==
  ASSUME CRMInv, TypeOK', NEW p \in Procs, NEW a \in Attempts,
         UNCHANGED <<customer, sent, wire, answer, applied>>,
         \A q \in Procs \ {p} : pc'[q] = pc[q] /\ loc'[q] = loc[q],
         \A b \in Attempts \ {a} : store'[b] = store[b] /\ journal'[b] = journal[b],
         RecordStep(p, a), JournalStep(p, a), ProcInv(p)',
         \A b \in Attempts : Owner(p, b)' =>
            \/ Owner(p, b) /\ pc[p] # "complete"
            \/ b = a /\ store[b] = None
  PROVE  CRMInv' /\ Final
<1>0. TypeOK /\ (\A q \in Procs : ProcInv(q)) /\ \A b \in Attempts : AttInv(b)
  BY Zenon DEF CRMInv
<1>1. (Moved' <=> Moved) /\ (Unmet' <=> Unmet)
  BY Zenon DEF Moved, Unmet
<1>2. ASSUME NEW b \in Attempts
      PROVE  /\ (Clear(b)' <=> Clear(b)) /\ (Untouched(b)' <=> Untouched(b)) /\ (Settled(b)' <=> Settled(b))
             /\ Kept(b)
  BY <1>1, Zenon DEF Clear, Untouched, Settled, Kept, JournalStep
<1>3. \A b \in Attempts : store[b] # None => store'[b] # None
  BY CRMAssumption DEF RecordStep, Dispatched
<1>4. ASSUME NEW q \in Procs PROVE ProcInv(q)'
  <2>1. CASE q = p
    BY <2>1, Zenon
  <2>2. CASE q # p
    <3>0. PICK b : b = loc[q].att
      BY Zenon
    <3>1. pc'[q] = pc[q] /\ loc'[q] = loc[q] /\ ProcInv(q)
      BY <1>0, <2>2, Zenon
    <3>2. b \in Attempts => Kept(b)
      BY <1>2, Zenon
    <3>3. Owner(q, b) => b \in Attempts /\ store[b] # None
      BY <3>0, <3>1, Zenon DEF ProcInv, Owner
    <3>4. Owner(q, b) => /\ sent'[b] = sent[b] /\ store'[b] # None /\ (Untouched(b) => Untouched(b)')
      BY <1>2, <1>3, <3>3, Zenon
    <3>5. ASSUME pc[q] \in {"recheck", "patch"}
          PROVE  store'[b] \in {"POSSIBLE_EFFECT", "COMPLETED", "RETIRED_UNKNOWN"}
      <4>1. b \in Attempts /\ Owner(q, b) /\ store[b] \in {"POSSIBLE_EFFECT", "COMPLETED", "RETIRED_UNKNOWN"}
        BY <3>0, <3>1, <3>5, Zenon DEF ProcInv, Owner
      <4>2. ~Owner(p, b)
        BY <1>0, <2>2, <4>1, Zenon DEF AttInv
      <4>3. CASE b # a
        BY <4>1, <4>3, Zenon
      <4>4. CASE b = a
        <5>1. store[a] # None
          BY <4>1, <4>4, CRMAssumption, Zenon
        <5> QED BY <4>1, <4>2, <4>4, <5>1, Zenon DEF RecordStep, Dispatched
      <4> QED BY <4>3, <4>4, Zenon
    <3>6. pc[q] = "wait" => (answer'[q] = 200 => Settled(b)') /\ (answer'[q] = 412 => Untouched(b)')
      <4>1. pc[q] = "wait" => b \in Attempts /\ (answer[q] = 200 => Settled(b)) /\ (answer[q] = 412 => Untouched(b))
        BY <3>0, <3>1, Zenon DEF ProcInv
      <4> QED BY <1>2, <4>1, Zenon
    <3> QED BY <3>0, <3>1, <3>2, <3>4, <3>5, <3>6, ProcFrame, SMTT(30)
  <2> QED BY <2>1, <2>2, Zenon
<1>5. ASSUME NEW b \in Attempts \ {a} PROVE AttInv(b)'
  <2>1. \A q \in Procs : Owner(q, b)' => Owner(q, b) /\ (pc[q] = "complete" => pc'[q] = "complete")
    BY ZenonT(30) DEF Owner
  <2>2. \A w \in wire' : w[2] = b => w \in wire
    BY Zenon
  <2> QED BY <1>0, <1>1, <1>2, <2>1, <2>2, AttFrame, Zenon
<1>6. AttInv(a)'
  <2>0. AttInv(a)
    BY <1>0, Zenon
  <2>1. \A q \in Procs \ {p} : Owner(q, a)' <=> Owner(q, a)
    BY Zenon DEF Owner
  <2>2. \A q \in Procs : Owner(q, a) => store[a] # None
    BY <1>0 DEF ProcInv, Owner
  <2>3. \A q, r \in Procs : Owner(q, a)' /\ Owner(r, a)' => q = r
    BY <2>0, <2>1, <2>2, Zenon DEF AttInv
  <2>4. sent'[a] = 1 => store'[a] \in Dispatched /\ Intent(a)'
    <3>1. Intent(a) => Intent(a)'
      BY Zenon DEF Intent, JournalStep
    <3>2. sent[a] = 1 => store[a] \in Dispatched /\ store[a] # None
      BY <2>0, CRMAssumption DEF AttInv, Dispatched
    <3> QED BY <2>0, <3>1, <3>2, Zenon DEF AttInv, RecordStep
  <2>5. \A r : Earned(a, r) => Earned(a, r)'
    BY <1>1, <1>2, <1>3, Zenon DEF Earned
  <2>6. \A e \in journal'[a] : e.type = "OUTCOME" /\ e.state = "COMPLETED" =>
           /\ Earned(a, e.result)'
           /\ e.result = "ALREADY_SATISFIED" => \A q \in Procs : Owner(q, a)' => pc'[q] = "complete"
    <3> SUFFICES ASSUME NEW e \in journal'[a], e.type = "OUTCOME", e.state = "COMPLETED"
                 PROVE  /\ Earned(a, e.result)'
                        /\ e.result = "ALREADY_SATISFIED" => \A q \in Procs : Owner(q, a)' => pc'[q] = "complete"
      BY Zenon
    <3>1. CASE e \in journal[a]
      <4>1. /\ Earned(a, e.result)
            /\ e.result = "ALREADY_SATISFIED" => \A q \in Procs : Owner(q, a) => pc[q] = "complete"
        BY <2>0, <3>1, Zenon DEF AttInv
      <4>2. e.result = "ALREADY_SATISFIED" => store[a] # None
        BY <4>1, Zenon DEF Earned
      <4>3. e.result = "ALREADY_SATISFIED" => ~Owner(p, a)'
        BY <4>1, <4>2, Zenon
      <4> QED BY <2>1, <2>5, <4>1, <4>3, Zenon
    <3>2. CASE e \notin journal[a]
      <4>1. /\ Earned(a, e.result)
            /\ e.result = "ALREADY_SATISFIED" => Owner(p, a) /\ (Owner(p, a)' => pc'[p] = "complete")
        BY <3>2, Zenon DEF JournalStep
      <4>2. ASSUME Owner(p, a), NEW q \in Procs, Owner(q, a)' PROVE q = p
        BY <2>0, <2>1, <4>2, Zenon DEF AttInv
      <4> QED BY <2>5, <4>1, <4>2, Zenon
    <3> QED BY <3>1, <3>2, Zenon
  <2>7. /\ store'[a] \in {"POSSIBLE_EFFECT", "ACCEPTED"} => Unmet'
        /\ store'[a] = "ACCEPTED" => Settled(a)'
        /\ store'[a] = "BLOCKED" => Untouched(a)'
    BY <1>1, <1>2, <2>0, Zenon DEF AttInv, RecordStep
  <2>8. store'[a] \in {"COMPLETED", "RETIRED_UNKNOWN"} => \E e \in journal'[a] : e.type = "OUTCOME" /\ e.state = store'[a]
    BY <2>0, Zenon DEF AttInv, RecordStep, JournalStep
  <2>9. /\ sent'[a] \in {0, 1} /\ (sent'[a] = 0 => Untouched(a)') /\ (a \in applied' => Clear(a)')
        /\ \A v, w \in wire' : v[2] = a /\ w[2] = a => v = w
    BY <1>2, <2>0, Zenon DEF AttInv
  <2> QED BY <2>3, <2>4, <2>6, <2>7, <2>8, <2>9, Zenon DEF AttInv, Dispatched
<1>7. Final
  BY CRMAssumption DEF Final, RecordStep
<1> QED BY <1>4, <1>5, <1>6, <1>7, Zenon DEF CRMInv

-----------------------------------------------------------------------------
\* A call that returns has nothing left to keep.
LEMMA ReturnStep ==
  ASSUME TypeOK, NEW p \in Procs, Return(p)
  PROVE  /\ pc' \in [Procs -> Labels] /\ loc' \in [Procs -> Locals] /\ pc'[p] = "idle"
         /\ \A q \in Procs \ {p} : pc'[q] = pc[q] /\ loc'[q] = loc[q]
         /\ ProcInv(p)' /\ \A b : ~Owner(p, b)'
<1>1. NoLocals \in Locals
  BY DEF NoLocals, Locals
<1>2. /\ pc' \in [Procs -> Labels] /\ loc' \in [Procs -> Locals] /\ pc'[p] = "idle" /\ loc'[p] = NoLocals
      /\ \A q \in Procs \ {p} : pc'[q] = pc[q] /\ loc'[q] = loc[q]
  BY <1>1 DEF TypeOK, Return, Goto, Labels
<1>3. loc'[p].http = 0
  BY <1>2 DEF NoLocals
<1> QED BY <1>2, <1>3, Zenon DEF ProcInv, Owner

\* A call that goes on.
LEMMA GotoStep ==
  ASSUME TypeOK, NEW p \in Procs, NEW l \in Labels, Goto(p, l)
  PROVE  pc' \in [Procs -> Labels] /\ pc'[p] = l /\ \A q \in Procs \ {p} : pc'[q] = pc[q]
BY DEF TypeOK, Goto

\* A step that changes nothing but the call keeps the invariant if it keeps it for
\* the call and the call does not become an owner.
LEMMA QuietStep ==
  ASSUME CRMInv, NEW p \in Procs, NEW a \in Attempts,
         UNCHANGED <<customer, expired, store, journal, sent, wire, answer, applied>>, calls' \in Nat,
         pc' \in [Procs -> Labels], loc' \in [Procs -> Locals],
         \A q \in Procs \ {p} : pc'[q] = pc[q] /\ loc'[q] = loc[q], ProcInv(p)',
         \A b \in Attempts : Owner(p, b)' => Owner(p, b) /\ pc[p] # "complete"
  PROVE  CRMInv' /\ Final
<1>1. TypeOK'
  BY Zenon DEF CRMInv, TypeOK
<1>2. RecordStep(p, a) /\ JournalStep(p, a)
  BY Zenon DEF RecordStep, JournalStep
<1> QED BY <1>1, <1>2, CallStep, Zenon

\* Append records the event or does not, and goes on only if it did.
LEMMA AppendStep ==
  ASSUME CRMInv, NEW p \in Procs, NEW e \in Events, NEW l \in Labels, Append(p, e, l), NEW a \in Attempts, a = loc[p].att,
         e.type = "OUTCOME" /\ e.state = "COMPLETED" =>
            Earned(a, e.result) /\ (e.result = "ALREADY_SATISFIED" => Owner(p, a) /\ l \in {"idle", "complete"}),
         l # "idle" /\ pc'[p] = l /\ loc'[p] = loc[p] /\ e \in journal'[a] => ProcInv(p)',
         pc[p] \notin {"idle", "claim", "complete"}
  PROVE  CRMInv' /\ Final
<1>1. UNCHANGED <<customer, expired, store, sent, wire, answer, applied, calls>>
  BY Zenon DEF Append, world
<1>2. /\ journal' \in [Attempts -> SUBSET Events] /\ \A b \in Attempts \ {a} : journal'[b] = journal[b]
      /\ journal[a] \subseteq journal'[a] /\ journal'[a] \subseteq journal[a] \cup {e}
  BY DEF Append, CRMInv, TypeOK
<1>3. TypeOK /\ RecordStep(p, a)
  BY <1>1, Zenon DEF CRMInv, RecordStep
<1>4. CASE Return(p)
  <2>1. TypeOK'
    BY <1>1, <1>2, <1>3, <1>4, ReturnStep, Zenon DEF TypeOK
  <2>2. JournalStep(p, a)
    BY <1>2, <1>3, <1>4, ReturnStep, Zenon DEF JournalStep
  <2> QED BY <1>1, <1>2, <1>3, <1>4, <2>1, <2>2, ReturnStep, CallStep, Zenon
<1>5. CASE l # "idle" /\ Goto(p, l) /\ UNCHANGED loc /\ e \in journal'[a]
  <2>1. pc' \in [Procs -> Labels] /\ pc'[p] = l /\ \A q \in Procs \ {p} : pc'[q] = pc[q] /\ loc'[q] = loc[q]
    BY <1>3, <1>5, GotoStep, Zenon
  <2>2. TypeOK' /\ ProcInv(p)'
    BY <1>1, <1>2, <1>3, <1>5, <2>1, Zenon DEF TypeOK
  <2>3. JournalStep(p, a)
    BY <1>2, <1>5, <2>1, Zenon DEF JournalStep
  <2>4. \A b \in Attempts : Owner(p, b)' => Owner(p, b) /\ pc[p] # "complete"
    BY <1>5, Zenon DEF Owner
  <2> QED BY <1>1, <1>2, <1>3, <2>1, <2>2, <2>3, <2>4, CallStep, Zenon
<1> QED BY <1>4, <1>5 DEF Append, CRMInv, TypeOK

\* Where a transition of attempt a's record leaves the call that moves on.
Advances(p, a, from, to, l) ==
  /\ l # "idle" /\ pc'[p] = l /\ store'[a] = to /\ store[a] = from
  /\ loc'[p] = Local(loc[p].kind, a, to, loc[p].http, loc[p].last, loc[p].count, loc[p].out)
  /\ UNCHANGED <<customer, journal, sent, wire, answer, applied>>

\* Transition replaces the record as it may, or leaves it, and goes on only if it
\* did.
LEMMA TransitionStep ==
  ASSUME CRMInv, NEW p \in Procs, NEW from, NEW to \in Dispatched, NEW l \in Labels, Transition(p, from, to, l),
         NEW a \in Attempts, a = loc[p].att,
         store[a] = from /\ Allowed(from, to) /\ store'[a] = to /\ journal'[a] = journal[a] => RecordStep(p, a),
         Advances(p, a, from, to, l) => ProcInv(p)',
         pc[p] \notin {"idle", "claim"}, l # "idle" => pc[p] # "complete"
  PROVE  CRMInv' /\ Final
<1>1. UNCHANGED <<customer, expired, journal, sent, wire, answer, applied, calls>>
  BY Zenon DEF Transition, world
<1>2. TypeOK /\ to \in States
  BY Zenon DEF CRMInv, Dispatched, States
<1>3. \/ store' = store
      \/ store[a] = from /\ Allowed(from, to) /\ store' = [store EXCEPT ![a] = to]
  BY Zenon DEF Transition, WriteRecord
<1>4. /\ store' \in [Attempts -> States \cup {None, "TORN"}] /\ \A b \in Attempts \ {a} : store'[b] = store[b]
  BY <1>2, <1>3 DEF TypeOK
<1>5. RecordStep(p, a) /\ JournalStep(p, a)
  <2>1. JournalStep(p, a)
    BY <1>1, Zenon DEF JournalStep
  <2>2. CASE store' = store
    BY <2>1, <2>2, Zenon DEF RecordStep
  <2>3. CASE store[a] = from /\ Allowed(from, to) /\ store' = [store EXCEPT ![a] = to]
    <3>1. store'[a] = to
      BY <1>2, <2>3, Zenon DEF TypeOK
    <3> QED BY <1>1, <2>1, <2>3, <3>1, Zenon
  <2> QED BY <1>3, <2>2, <2>3, Zenon
<1>6. CASE Return(p)
  <2>1. TypeOK'
    BY <1>1, <1>2, <1>4, <1>6, ReturnStep, Zenon DEF TypeOK
  <2> QED BY <1>1, <1>2, <1>4, <1>5, <1>6, <2>1, ReturnStep, CallStep, Zenon
<1>7. CASE l # "idle" /\ Goto(p, l) /\ loc' = [loc EXCEPT ![p].state = to] /\ store[a] = from /\ WriteRecord(a, to)
  <2>1. pc' \in [Procs -> Labels] /\ pc'[p] = l /\ \A q \in Procs \ {p} : pc'[q] = pc[q]
    BY <1>2, <1>7, GotoStep, Zenon
  <2>2. /\ loc' \in [Procs -> Locals] /\ \A q \in Procs \ {p} : loc'[q] = loc[q]
        /\ loc'[p] = Local(loc[p].kind, a, to, loc[p].http, loc[p].last, loc[p].count, loc[p].out)
    <3>1. Becomes(p, Local(loc[p].kind, loc[p].att, to, loc[p].http, loc[p].last, loc[p].count, loc[p].out))
      BY <1>2, <1>7, SetLocals, Zenon
    <3> QED BY <3>1, Zenon DEF Becomes
  <2>3. store'[a] = to
    BY <1>2, <1>7, Zenon DEF TypeOK, WriteRecord
  <2>4. TypeOK' /\ ProcInv(p)'
    BY <1>1, <1>2, <1>4, <1>7, <2>1, <2>2, <2>3, Zenon DEF TypeOK, Advances
  <2>5. \A b \in Attempts : Owner(p, b)' => Owner(p, b) /\ pc[p] # "complete"
    <3>1. loc'[p].kind = loc[p].kind /\ loc'[p].att = loc[p].att
      BY <2>2 DEF Local
    <3> QED BY <1>7, <3>1, Zenon DEF Owner
  <2> QED BY <1>1, <1>4, <1>5, <2>1, <2>2, <2>4, <2>5, CallStep, Zenon
<1> QED BY <1>6, <1>7, Zenon DEF Transition

-----------------------------------------------------------------------------
\* Every step of a call, but for sending, keeps the invariant.
LEMMA CallInd ==
  ASSUME CRMInv, NEW p \in Procs,
         (Step(p) /\ ~SendPatch(p)) \/ \E k \in {"execute", "reconcile", "retire"}, b \in Attempts : Begin(p, k, b)
  PROVE  CRMInv' /\ Final
<1> DEFINE l == loc[p]
<1>0. TypeOK /\ ProcInv(p) /\ \A b \in Attempts : AttInv(b)
  BY Zenon DEF CRMInv
<1> USE <1>0
<1>a. PICK a : a = loc[p].att
  BY Zenon
<1>b. pc[p] # "idle" => a \in Attempts
  BY <1>a, Zenon DEF ProcInv
<1>c. /\ l \in Locals /\ l.http \in {0, 200} /\ l.state \in States \cup {None} /\ l.last \in SUBSET Fields /\ l.count \in 0 .. 2
      /\ l.out \in Outcomes \cup {None} /\ calls \in Nat /\ customer.sat \in SUBSET Fields
  BY LocalFields DEF TypeOK
<1>d. /\ "authorize" \in Labels /\ "before" \in Labels /\ "check" \in Labels /\ "intent" \in Labels
      /\ "possible" \in Labels /\ "recheck" \in Labels /\ "patch" \in Labels /\ "wait" \in Labels
      /\ "accept" \in Labels /\ "block" \in Labels /\ "observe" \in Labels /\ "append" \in Labels
      /\ "complete" \in Labels /\ "idle" \in Labels /\ "claim" \in Labels /\ "load" \in Labels
  BY Zenon DEF Labels
<1>e. ASSUME pc[p] # "idle", Return(p), Quiet PROVE CRMInv' /\ Final
  BY <1>b, <1>c, <1>e, ReturnStep, QuietStep, ZenonT(30) DEF Quiet
<1>1. ASSUME NEW k \in {"execute", "reconcile", "retire"}, NEW b \in Attempts, Begin(p, k, b)
      PROVE  CRMInv' /\ Final
  <2> DEFINE r == [NoLocals EXCEPT !.kind = k, !.att = b]
             g == IF k = "execute" THEN "claim" ELSE "load"
  <2>1. r = Local(k, b, None, 0, {}, 0, None)
    <3>1. [NoLocals EXCEPT !.kind = k] = Local(k, None, None, 0, {}, 0, None)
      BY DEF NoLocals, Local
    <3>2. r = [Local(k, None, None, 0, {}, 0, None) EXCEPT !.att = b]
      BY <3>1, Zenon
    <3> QED BY <3>2 DEF Local
  <2>2. r \in Locals
    <3>1. Local(k, b, None, 0, {}, 0, None) \in Locals
      BY DEF Locals, Local
    <3> QED BY <2>1, <3>1, Zenon
  <2>3. g \in Labels /\ Goto(p, g) /\ loc' = [loc EXCEPT ![p] = r]
    BY <1>1, <1>d, Zenon DEF Begin
  <2>4. pc' \in [Procs -> Labels] /\ pc'[p] = g /\ \A q \in Procs \ {p} : pc'[q] = pc[q]
    BY <2>3, GotoStep, Zenon
  <2>5. loc' \in [Procs -> Locals] /\ loc'[p] = r /\ \A q \in Procs \ {p} : loc'[q] = loc[q]
    BY <2>2, <2>3 DEF TypeOK
  <2>6. loc'[p].kind = k /\ loc'[p].att = b /\ loc'[p].http = 0
    BY <2>1, <2>5, Zenon DEF Local
  <2>7. ProcInv(p)' /\ \A c \in Attempts : ~Owner(p, c)'
    BY <2>4, <2>6, Zenon DEF ProcInv, Owner
  <2>8. UNCHANGED <<customer, expired, store, journal, sent, wire, answer, applied>> /\ calls' \in Nat
    <3>1. calls' = calls + 1 /\ calls \in Nat
      BY <1>1, <1>c, Zenon DEF Begin
    <3>2. UNCHANGED <<customer, expired, store, journal, sent, wire, answer, applied>>
      BY <1>1, Zenon DEF Begin
    <3> QED BY <3>1, <3>2
  <2> HIDE DEF r, g
  <2> QED BY <2>4, <2>5, <2>7, <2>8, QuietStep, Zenon
<1>2. ASSUME Claim(p) PROVE CRMInv' /\ Final
  <2>1. pc[p] = "claim" /\ a \in Attempts /\ l.kind = "execute" /\ l.http = 0
    BY <1>2, <1>b, Zenon DEF Claim, At, ProcInv
  <2>2. UNCHANGED <<customer, expired, journal, sent, wire, answer, applied, calls>> /\ JournalStep(p, a)
    BY <1>2, Zenon DEF Claim, world, JournalStep
  <2>3. store' = store \/ (store[a] = None /\ \E s \in {"CLAIMED", "TORN"} : store' = [store EXCEPT ![a] = s])
    BY <1>2, <1>a, Zenon DEF Claim
  <2>4. /\ store' \in [Attempts -> States \cup {None, "TORN"}] /\ \A b \in Attempts \ {a} : store'[b] = store[b]
        /\ RecordStep(p, a)
    BY <2>1, <2>3 DEF TypeOK, States, RecordStep
  <2>5. CASE Return(p)
    <3>1. TypeOK'
      BY <2>2, <2>4, <2>5, ReturnStep, Zenon DEF TypeOK
    <3> QED BY <2>1, <2>2, <2>4, <2>5, <3>1, ReturnStep, CallStep, Zenon
  <2>6. CASE store[a] = None /\ store' = [store EXCEPT ![a] = "CLAIMED"] /\ Goto(p, "authorize") /\ loc' = [loc EXCEPT ![p].state = "CLAIMED"]
    <3>1. pc' \in [Procs -> Labels] /\ pc'[p] = "authorize" /\ \A q \in Procs \ {p} : pc'[q] = pc[q]
      BY <1>d, <2>6, GotoStep, Zenon
    <3>2. Becomes(p, Local(l.kind, l.att, "CLAIMED", l.http, l.last, l.count, l.out))
      BY <2>6, SetLocals, Zenon DEF States
    <3>3. TypeOK'
      BY <2>2, <2>4, <3>1, <3>2, Zenon DEF TypeOK, Becomes
    <3>4. loc'[p].kind = "execute" /\ loc'[p].att = a /\ loc'[p].state = "CLAIMED" /\ loc'[p].http = 0
      BY <1>a, <2>1, <3>2 DEF Becomes, Local
    <3>5. sent[a] = 0 /\ store'[a] = "CLAIMED" /\ store'[a] # None
      BY <2>1, <2>6, CRMAssumption, SMTT(30) DEF AttInv, TypeOK
    <3>6. ProcInv(p)'
      BY <2>1, <2>2, <3>1, <3>4, <3>5, Zenon DEF ProcInv
    <3>7. \A b \in Attempts : Owner(p, b)' => b = a /\ store[b] = None
      BY <2>6, <3>4, Zenon DEF Owner
    <3> QED BY <2>1, <2>2, <2>4, <3>1, <3>2, <3>3, <3>6, <3>7, CallStep, Zenon DEF Becomes
  <2> QED BY <1>2, <1>a, <2>5, <2>6, Zenon DEF Claim
<1>3. ASSUME JournalAuthorization(p) PROVE CRMInv' /\ Final
  <2> DEFINE e == Event("AUTHORIZATION", "CLAIMED", None)
  <2>1. pc[p] = "authorize" /\ a \in Attempts /\ Append(p, e, "before")
    BY <1>3, <1>b, Zenon DEF JournalAuthorization, At
  <2>2. e \in Events /\ e.type # "OUTCOME"
    BY Zenon DEF Event, Events, States
  <2> HIDE DEF e
  <2>3. UNCHANGED <<store, sent>>
    BY <2>1, Zenon DEF Append, world
  <2>4. pc'[p] = "before" /\ loc'[p] = loc[p] => ProcInv(p)'
    BY <1>a, <2>1, <2>3, Zenon DEF ProcInv, Owner
  <2> QED BY <1>a, <1>d, <2>1, <2>2, <2>4, AppendStep, Zenon
<1>4. ASSUME ReadBefore(p) PROVE CRMInv' /\ Final
  <2>1. /\ pc[p] = "before" /\ a \in Attempts /\ l.kind = "execute" /\ l.state = "CLAIMED" /\ l.http = 0
        /\ sent[a] = 0 /\ store[a] # None /\ Untouched(a) /\ Owner(p, a)
    <3>1. pc[p] = "before" /\ a \in Attempts
      BY <1>4, <1>b, Zenon DEF ReadBefore, At
    <3>2. l.kind = "execute" /\ l.state = "CLAIMED" /\ l.http = 0 /\ sent[a] = 0 /\ Owner(p, a) /\ store[a] # None
      BY <1>a, <3>1, Zenon DEF ProcInv, Owner
    <3> QED BY <3>1, <3>2, Zenon DEF AttInv
  <2>2. UNCHANGED <<customer, expired, store, journal, sent, wire, answer, applied, calls>>
    BY <1>4, Zenon DEF ReadBefore, Quiet
  <2>3. Untouched(a)'
    BY <2>1, <2>2, Zenon DEF Untouched, Clear
  <2>4. CASE Goto(p, "block") /\ UNCHANGED loc
    <3>1. pc' \in [Procs -> Labels] /\ pc'[p] = "block" /\ \A q \in Procs \ {p} : pc'[q] = pc[q]
      BY <1>d, <2>4, GotoStep, Zenon
    <3>2. ProcInv(p)'
      BY <1>a, <2>1, <2>2, <2>3, <2>4, <3>1, Zenon DEF ProcInv
    <3>3. \A b \in Attempts : Owner(p, b)' => Owner(p, b)
      BY <2>1, <2>4, Zenon DEF Owner
    <3> QED BY <1>c, <2>1, <2>2, <2>4, <3>1, <3>2, <3>3, QuietStep, Zenon DEF TypeOK
  <2>5. CASE Bound(customer) /\ Evaluate(customer.sat) # "VERIFIED" /\ Goto(p, "check") /\ UNCHANGED loc
    <3>1. pc' \in [Procs -> Labels] /\ pc'[p] = "check" /\ \A q \in Procs \ {p} : pc'[q] = pc[q]
      BY <1>d, <2>5, GotoStep, Zenon
    <3>2. Unmet'
      BY <2>2, <2>5, Zenon DEF Unmet, Evaluate
    <3>3. ProcInv(p)'
      BY <1>a, <2>1, <2>2, <2>5, <3>1, <3>2, Zenon DEF ProcInv
    <3>4. \A b \in Attempts : Owner(p, b)' => Owner(p, b)
      BY <2>1, <2>5, Zenon DEF Owner
    <3> QED BY <1>c, <2>1, <2>2, <2>5, <3>1, <3>3, <3>4, QuietStep, ZenonT(30) DEF TypeOK
  <2>6. ASSUME NEW o, o = [state |-> "COMPLETED", result |-> "ALREADY_SATISFIED", acceptance |-> "NOT_DISPATCHED",
                           status |-> "PRE_MUTATION", count |-> 1, eval |-> "VERIFIED", http |-> 0],
               Goto(p, "append"), loc' = [loc EXCEPT ![p].out = o]
        PROVE  CRMInv' /\ Final
    <3>1. pc' \in [Procs -> Labels] /\ pc'[p] = "append" /\ \A q \in Procs \ {p} : pc'[q] = pc[q]
      BY <1>d, <2>6, GotoStep, Zenon
    <3>2. o \in Outcomes /\ o.state = "COMPLETED" /\ o.result = "ALREADY_SATISFIED"
      BY <2>6 DEF Outcomes, States, Results, Evaluations
    <3>3. Becomes(p, Local(l.kind, l.att, l.state, l.http, l.last, l.count, o))
      BY <2>6, <3>2, SetLocals, Zenon
    <3>4. loc'[p].kind = "execute" /\ loc'[p].att = a /\ loc'[p].state = "CLAIMED" /\ loc'[p].out = o
      BY <1>a, <2>1, <3>3 DEF Becomes, Local
    <3>5. Earned(a, "ALREADY_SATISFIED")'
      BY <2>1, <2>2, Zenon DEF Earned, Results
    <3>6. ProcInv(p)'
      BY <2>1, <2>2, <3>1, <3>2, <3>4, <3>5, Zenon DEF ProcInv
    <3>7. \A b \in Attempts : Owner(p, b)' => Owner(p, b)
      BY <1>a, <2>1, <3>4, Zenon DEF Owner
    <3> QED BY <1>c, <2>1, <2>2, <3>1, <3>3, <3>6, <3>7, QuietStep, Zenon DEF Becomes
  <2> QED BY <1>4, <2>4, <2>5, <2>6, Zenon DEF ReadBefore
<1>5. ASSUME Block(p) PROVE CRMInv' /\ Final
  <2>1. pc[p] = "block" /\ a \in Attempts /\ Untouched(a) /\ Owner(p, a)
    <3>1. pc[p] = "block" /\ a \in Attempts
      BY <1>5, <1>b, Zenon DEF Block, At
    <3> QED BY <1>a, <3>1, Zenon DEF ProcInv, Owner
  <2>2. PICK from : from = l.state
    BY Zenon
  <2>3. Transition(p, from, "BLOCKED", "idle") /\ "BLOCKED" \in Dispatched
    BY <1>5, <2>2, Zenon DEF Block, Dispatched
  <2>4. store[a] = from /\ Allowed(from, "BLOCKED") /\ store'[a] = "BLOCKED" => RecordStep(p, a)
    BY <2>1, Zenon DEF Allowed, RecordStep, Dispatched
  <2> QED BY <1>a, <1>d, <2>1, <2>3, <2>4, TransitionStep DEF Advances
<1>6. ASSUME EffectCheck(p) PROVE CRMInv' /\ Final
  <2>1. pc[p] \in {"check", "recheck"} /\ a \in Attempts /\ Quiet
    BY <1>6, <1>b, Zenon DEF EffectCheck
  <2>2. UNCHANGED <<customer, expired, store, journal, sent, wire, answer, applied, calls>>
    BY <2>1, Zenon DEF Quiet
  <2>3. CASE Return(p)
    BY <1>e, <2>1, <2>3, Zenon
  <2>4. ASSUME NEW g \in {"intent", "patch"}, g = (IF pc[p] = "check" THEN "intent" ELSE "patch"), Goto(p, g), UNCHANGED loc
        PROVE  CRMInv' /\ Final
    <3>1. pc' \in [Procs -> Labels] /\ pc'[p] = g /\ \A q \in Procs \ {p} : pc'[q] = pc[q]
      BY <1>d, <2>4, GotoStep, Zenon
    <3>2. (Unmet => Unmet') /\ (Intent(a) => Intent(a)')
      BY <2>2, Zenon DEF Unmet, Moved, Intent
    <3>3. ProcInv(p)'
      BY <1>a, <2>1, <2>2, <2>4, <3>1, <3>2, ZenonT(30) DEF ProcInv, Owner
    <3>4. \A b \in Attempts : Owner(p, b)' => Owner(p, b)
      BY <2>1, <2>4, Zenon DEF Owner
    <3> QED BY <1>c, <2>1, <2>2, <2>4, <3>1, <3>3, <3>4, QuietStep, SMTT(30) DEF TypeOK
  <2> QED BY <1>6, <2>3, <2>4, Zenon DEF EffectCheck, At
<1>7. ASSUME JournalIntent(p) PROVE CRMInv' /\ Final
  <2> DEFINE e == Event("EXECUTION", "POSSIBLE_EFFECT", None)
  <2>1. pc[p] = "intent" /\ a \in Attempts /\ Append(p, e, "possible")
    BY <1>7, <1>b, Zenon DEF JournalIntent, At
  <2>2. e \in Events /\ e.type # "OUTCOME"
    BY Zenon DEF Event, Events, States
  <2>3. e \in journal'[a] => Intent(a)'
    BY Zenon DEF Intent
  <2> HIDE DEF e
  <2>4. UNCHANGED <<store, sent, customer>>
    BY <2>1, Zenon DEF Append, world
  <2>5. Unmet => Unmet'
    BY <2>4, Zenon DEF Unmet, Moved
  <2>6. pc'[p] = "possible" /\ loc'[p] = loc[p] /\ e \in journal'[a] => ProcInv(p)'
    BY <1>a, <2>1, <2>3, <2>4, <2>5, Zenon DEF ProcInv, Owner
  <2> QED BY <1>a, <1>d, <2>1, <2>2, <2>6, AppendStep
<1>8. ASSUME PersistPossible(p) PROVE CRMInv' /\ Final
  <2>1. /\ pc[p] = "possible" /\ a \in Attempts /\ l.kind = "execute" /\ l.http = 0
        /\ sent[a] = 0 /\ Unmet /\ Intent(a)
    <3>1. pc[p] = "possible" /\ a \in Attempts
      BY <1>8, <1>b, Zenon DEF PersistPossible, At
    <3> QED BY <1>a, <3>1, Zenon DEF ProcInv
  <2>2. Transition(p, "CLAIMED", "POSSIBLE_EFFECT", "recheck") /\ "POSSIBLE_EFFECT" \in Dispatched
    BY <1>8, Zenon DEF PersistPossible, Dispatched
  <2>3. store[a] = "CLAIMED" /\ store'[a] = "POSSIBLE_EFFECT" => RecordStep(p, a)
    BY <2>1, Zenon DEF RecordStep, Dispatched
  <2>4. ASSUME pc'[p] = "recheck", store'[a] = "POSSIBLE_EFFECT",
               loc'[p] = Local(l.kind, a, "POSSIBLE_EFFECT", l.http, l.last, l.count, l.out),
               UNCHANGED <<customer, journal, sent, wire, answer, applied>>
        PROVE  ProcInv(p)'
    <3>0. loc'[p].kind = l.kind /\ loc'[p].att = a /\ loc'[p].state = "POSSIBLE_EFFECT" /\ loc'[p].http = l.http
      BY <2>4 DEF Local
    <3>1. loc'[p].kind = "execute" /\ loc'[p].att = a /\ loc'[p].state = "POSSIBLE_EFFECT" /\ loc'[p].http = 0
      BY <2>1, <3>0, Zenon
    <3>2. Unmet' /\ Intent(a)'
      BY <2>1, <2>4, Zenon DEF Unmet, Moved, Intent
    <3>3. store'[a] # None
      BY <2>4, CRMAssumption, Zenon
    <3> QED BY <2>1, <2>4, <3>1, <3>2, <3>3, Zenon DEF ProcInv
  <2>5. Advances(p, a, "CLAIMED", "POSSIBLE_EFFECT", "recheck") => ProcInv(p)'
    BY <2>4, Zenon DEF Advances
  <2>6. a \in Attempts /\ pc[p] \notin {"idle", "claim"} /\ pc[p] # "complete"
    BY <2>1, Zenon
  <2>7. PICK from, to, g : from = "CLAIMED" /\ to = "POSSIBLE_EFFECT" /\ g = "recheck"
    BY Zenon
  <2>8. Transition(p, from, to, g) /\ to \in Dispatched /\ g \in Labels
    BY <1>d, <2>2, <2>7, Zenon
  <2>9. /\ store[a] = from /\ Allowed(from, to) /\ store'[a] = to /\ journal'[a] = journal[a] => RecordStep(p, a)
        /\ Advances(p, a, from, to, g) => ProcInv(p)'
    BY <2>3, <2>5, <2>7, Zenon
  <2> QED BY <1>a, <2>6, <2>8, <2>9, TransitionStep
<1>9. ASSUME PatchAnswer(p) PROVE CRMInv' /\ Final
  <2>1. /\ pc[p] = "wait" /\ a \in Attempts /\ l.kind = "execute" /\ l.state = "POSSIBLE_EFFECT" /\ l.http = 0
        /\ Unmet /\ Owner(p, a) /\ store[a] # None
        /\ answer[p] = 200 => Settled(a)
        /\ answer[p] = 412 => Untouched(a)
    <3>1. pc[p] = "wait" /\ a \in Attempts
      BY <1>9, <1>b, Zenon DEF PatchAnswer, At
    <3> QED BY <1>a, <3>1, Zenon DEF ProcInv, Owner
  <2>2. UNCHANGED <<customer, expired, store, journal, sent, wire, answer, applied, calls>>
    BY <1>9, Zenon DEF PatchAnswer, Quiet
  <2>3. Unmet' /\ (Settled(a) => Settled(a)') /\ (Untouched(a) => Untouched(a)')
    BY <2>1, <2>2, Zenon DEF Unmet, Moved, Settled, Untouched, Clear
  <2>4. CASE answer[p] = 200 /\ Goto(p, "accept") /\ loc' = [loc EXCEPT ![p].http = 200]
    <3>1. pc' \in [Procs -> Labels] /\ pc'[p] = "accept" /\ \A q \in Procs \ {p} : pc'[q] = pc[q]
      BY <1>d, <2>4, GotoStep
    <3>2. Becomes(p, Local(l.kind, l.att, l.state, 200, l.last, l.count, l.out))
      BY <2>4, SetLocals, Zenon
    <3>3. loc'[p].kind = "execute" /\ loc'[p].att = a /\ loc'[p].state = "POSSIBLE_EFFECT" /\ loc'[p].http = 200
      BY <1>a, <2>1, <3>2 DEF Becomes, Local
    <3>4. ProcInv(p)'
      BY <2>1, <2>2, <2>3, <2>4, <3>1, <3>3, Zenon DEF ProcInv
    <3>5. \A b \in Attempts : Owner(p, b)' => Owner(p, b)
      BY <1>a, <2>1, <3>3, SMTT(30) DEF Owner
    <3>6. loc' \in [Procs -> Locals] /\ \A q \in Procs \ {p} : loc'[q] = loc[q]
      BY <3>2, Zenon DEF Becomes
    <3> QED BY <1>c, <2>1, <2>2, <3>1, <3>4, <3>5, <3>6, QuietStep, ZenonT(30)
  <2>5. ASSUME NEW g \in {"block", "observe"}, g = "block" => answer[p] = 412, Goto(p, g), UNCHANGED loc
        PROVE  CRMInv' /\ Final
    <3>1. pc' \in [Procs -> Labels] /\ pc'[p] = g /\ \A q \in Procs \ {p} : pc'[q] = pc[q]
      BY <1>d, <2>5, GotoStep
    <3>2. ProcInv(p)'
      BY <1>a, <2>1, <2>2, <2>3, <2>5, <3>1, ZenonT(30) DEF ProcInv
    <3>3. \A b \in Attempts : Owner(p, b)' => Owner(p, b)
      BY <2>1, <2>5, Zenon DEF Owner
    <3>4. loc' \in [Procs -> Locals] /\ \A q \in Procs \ {p} : loc'[q] = loc[q]
      BY <1>c, <2>5, Zenon DEF TypeOK
    <3> QED BY <1>c, <2>1, <2>2, <3>1, <3>2, <3>3, <3>4, QuietStep, ZenonT(30)
  <2> QED BY <1>9, <2>4, <2>5, Zenon DEF PatchAnswer
<1>10. ASSUME PersistAccepted(p) PROVE CRMInv' /\ Final
  <2>1. /\ pc[p] = "accept" /\ a \in Attempts /\ l.kind = "execute" /\ l.http = 200
        /\ Settled(a) /\ Unmet /\ Owner(p, a)
    <3>1. pc[p] = "accept" /\ a \in Attempts
      BY <1>10, <1>b, Zenon DEF PersistAccepted, At
    <3> QED BY <1>a, <3>1, Zenon DEF ProcInv, Owner
  <2>2. Transition(p, "POSSIBLE_EFFECT", "ACCEPTED", "observe") /\ "ACCEPTED" \in Dispatched
    BY <1>10, Zenon DEF PersistAccepted, Dispatched
  <2>3. store[a] = "POSSIBLE_EFFECT" /\ store'[a] = "ACCEPTED" => RecordStep(p, a)
    BY <2>1, Zenon DEF RecordStep, Dispatched
  <2>4. ASSUME pc'[p] = "observe", store'[a] = "ACCEPTED",
               loc'[p] = Local(l.kind, a, "ACCEPTED", l.http, l.last, l.count, l.out),
               UNCHANGED <<customer, journal, sent, wire, answer, applied>>
        PROVE  ProcInv(p)'
    <3>1. loc'[p].kind = "execute" /\ loc'[p].att = a /\ loc'[p].state = "ACCEPTED" /\ loc'[p].http = 200
      BY <2>1, <2>4 DEF Local
    <3>2. Unmet' /\ Settled(a)'
      BY <2>1, <2>4, Zenon DEF Unmet, Moved, Settled, Clear
    <3>3. store'[a] # None
      BY <2>4, CRMAssumption, Zenon
    <3> QED BY <2>1, <2>4, <3>1, <3>2, <3>3, Zenon DEF ProcInv
  <2>5. Advances(p, a, "POSSIBLE_EFFECT", "ACCEPTED", "observe") => ProcInv(p)'
    BY <2>4, Zenon DEF Advances
  <2>6. a \in Attempts /\ pc[p] \notin {"idle", "claim"} /\ pc[p] # "complete"
    BY <2>1, Zenon
  <2>7. PICK from, to, g : from = "POSSIBLE_EFFECT" /\ to = "ACCEPTED" /\ g = "observe"
    BY Zenon
  <2>8. Transition(p, from, to, g) /\ to \in Dispatched /\ g \in Labels
    BY <1>d, <2>2, <2>7, Zenon
  <2>9. /\ store[a] = from /\ Allowed(from, to) /\ store'[a] = to /\ journal'[a] = journal[a] => RecordStep(p, a)
        /\ Advances(p, a, from, to, g) => ProcInv(p)'
    BY <2>3, <2>5, <2>7, Zenon
  <2> QED BY <1>a, <2>6, <2>8, <2>9, TransitionStep
<1>f. ASSUME NEW o \in Outcomes, NEW s \in {"POSSIBLE_EFFECT", "ACCEPTED"}, pc[p] \in {"load", "observe"},
             Goto(p, "append"), Quiet, Becomes(p, Local(l.kind, l.att, s, l.http, l.last, l.count, o)),
             o.state \in {s, "COMPLETED", "RETIRED_UNKNOWN"}, o.result # "ALREADY_SATISFIED",
             o.state = "COMPLETED" => Earned(a, o.result), ValidClosure(o, s)
      PROVE  CRMInv' /\ Final
  <2>1. a \in Attempts /\ (Owner(p, a) => store[a] # None) /\ (pc[p] = "load" => l.kind # "execute")
    BY <1>a, <1>f, Zenon DEF ProcInv
  <2>2. UNCHANGED <<customer, expired, store, journal, sent, wire, answer, applied, calls>>
    BY <1>f, Zenon DEF Quiet
  <2>3. pc' \in [Procs -> Labels] /\ pc'[p] = "append" /\ \A q \in Procs \ {p} : pc'[q] = pc[q]
    BY <1>d, <1>f, GotoStep, Zenon
  <2>4. loc'[p].kind = l.kind /\ loc'[p].att = a /\ loc'[p].state = s /\ loc'[p].out = o
    BY <1>a, <1>f DEF Becomes, Local
  <2>5. \A b \in Attempts : Owner(p, b)' => Owner(p, b)
    BY <1>a, <1>f, <2>1, <2>4, Zenon DEF Owner
  <2>6. o.state = "COMPLETED" => Earned(a, o.result)'
    BY <1>f, <2>2, Zenon DEF Earned, Settled, Clear, Moved
  <2>7. Owner(p, a)' => store'[a] # None
    BY <2>1, <2>2, <2>5, Zenon
  <2>8. ProcInv(p)'
    BY <1>f, <2>1, <2>3, <2>4, <2>6, <2>7, Zenon DEF ProcInv
  <2> QED BY <1>c, <1>f, <2>1, <2>2, <2>3, <2>5, <2>8, QuietStep, Zenon DEF Becomes
<1>11. ASSUME Observe(p) PROVE CRMInv' /\ Final
  <2>1. /\ pc[p] = "observe" /\ a \in Attempts /\ Unmet /\ (Owner(p, a) => store[a] # None)
        /\ l.state \in {"POSSIBLE_EFFECT", "ACCEPTED"} /\ l.http = (IF l.state = "ACCEPTED" THEN 200 ELSE 0)
        /\ l.state = "ACCEPTED" => Settled(a)
    <3>1. pc[p] = "observe" /\ a \in Attempts
      BY <1>11, <1>b, Zenon DEF Observe, At
    <3> QED BY <1>a, <3>1, Zenon DEF ProcInv
  <2>2. Quiet /\ UNCHANGED <<customer, expired, store, journal, sent, wire, answer, applied, calls>>
    BY <1>11, Zenon DEF Observe, Quiet
  <2>3. ASSUME NEW o \in Outcomes, Concludes(p, o), ValidOutcome(o), o.state \in {l.state, "COMPLETED"},
               o.result # "ALREADY_SATISFIED", o.state = "COMPLETED" => Earned(a, o.result), ValidClosure(o, l.state)
        PROVE  CRMInv' /\ Final
    <3>1. Goto(p, "append") /\ Becomes(p, Local(l.kind, l.att, l.state, l.http, l.last, l.count, o))
      BY <2>3, SetLocals, Zenon DEF Concludes
    <3>2. PICK s : s = l.state
      BY Zenon
    <3> QED BY <1>f, <2>1, <2>2, <2>3, <3>1, <3>2, ZenonT(30)
  <2>4. ASSUME NEW status \in {"UNAVAILABLE", "WRONG_TARGET", "CONTRADICTORY"}, NEW n \in 0 .. 3, NEW eval \in Evaluations \cup {None},
               Concludes(p, Outcome(p, "UNKNOWN", status, n, eval))
        PROVE  CRMInv' /\ Final
    <3>1. PICK o : o = Outcome(p, "UNKNOWN", status, n, eval)
      BY Zenon
    <3>2. o = [state |-> l.state, result |-> "UNKNOWN", acceptance |-> Acceptance(l.state), status |-> status,
               count |-> n, eval |-> eval, http |-> l.http]
      BY <3>1, Zenon DEF Outcome
    <3>3. Acceptance(l.state) = (IF l.state = "ACCEPTED" THEN "ACCEPTED" ELSE "UNKNOWN")
      BY Zenon DEF Acceptance
    <3>4. /\ o \in Outcomes /\ o.state = l.state /\ o.result = "UNKNOWN" /\ o.status = status
          /\ o.acceptance = Acceptance(l.state) /\ o.http = l.http
      BY <2>1, <2>4, <3>2, <3>3, Zenon DEF Outcomes, States, Results
    <3>5. ValidOutcome(o) /\ ValidClosure(o, l.state)
      BY <2>1, <2>4, <3>3, <3>4 DEF ValidOutcome, ValidClosure
    <3> QED BY <2>1, <2>3, <2>4, <3>1, <3>4, <3>5, Zenon
  <2>5. ASSUME NEW eval, eval = Evaluate(customer.sat), Concludes(p, Outcome(p, eval, "OBSERVED_STABLE", 3, eval))
        PROVE  CRMInv' /\ Final
    <3>1. PICK o : o = Outcome(p, eval, "OBSERVED_STABLE", 3, eval)
      BY Zenon
    <3>2. eval \in Evaluations /\ (eval = "VERIFIED" => customer.sat = Fields)
      BY <2>5, Zenon DEF Evaluate, Evaluations
    <3>3. Acceptance(l.state) = (IF l.state = "ACCEPTED" THEN "ACCEPTED" ELSE "UNKNOWN")
      BY Zenon DEF Acceptance
    <3>4. PICK s : s = IF l.state # "ACCEPTED" /\ eval # "VERIFIED" THEN l.state ELSE "COMPLETED"
      BY Zenon
    <3>5. o = [state |-> s, result |-> eval, acceptance |-> Acceptance(l.state), status |-> "OBSERVED_STABLE",
               count |-> 3, eval |-> eval, http |-> l.http]
      BY <3>1, <3>2, <3>3, <3>4, Zenon DEF Outcome, Evaluations
    <3>6. /\ o \in Outcomes /\ o.state = s /\ o.result = eval /\ o.status = "OBSERVED_STABLE" /\ o.count = 3
          /\ o.eval = eval /\ o.acceptance = Acceptance(l.state) /\ o.http = l.http
      BY <2>1, <3>2, <3>3, <3>4, <3>5 DEF Outcomes, States, Results
    <3>7. ValidOutcome(o) /\ ValidClosure(o, l.state)
      BY <2>1, <3>2, <3>3, <3>4, <3>6 DEF ValidOutcome, ValidClosure, Evaluations
    <3>8. o.state = "COMPLETED" => Earned(a, o.result)
      BY <2>1, <3>2, <3>4, <3>6, Zenon DEF Earned, Unmet, Results, Evaluations
    <3> QED BY <2>1, <2>3, <2>5, <3>1, <3>2, <3>4, <3>6, <3>7, <3>8, ZenonT(30) DEF Evaluations
  <2>6. ASSUME l.count < 2, UNCHANGED pc, loc' = [loc EXCEPT ![p].count = @ + 1, ![p].last = customer.sat]
        PROVE  CRMInv' /\ Final
    <3>1. PICK n, f : n = l.count + 1 /\ f = customer.sat
      BY Zenon
    <3>2. n \in 0 .. 2 /\ f \in SUBSET Fields
      BY <1>c, <2>6, <3>1
    <3>3. Becomes(p, Local(l.kind, l.att, l.state, l.http, f, n, l.out))
      BY <2>6, <3>1, <3>2, SetLocals, Zenon
    <3>4. loc'[p].kind = l.kind /\ loc'[p].att = a /\ loc'[p].state = l.state /\ loc'[p].http = l.http
      BY <1>a, <3>3 DEF Becomes, Local
    <3>5. Unmet' /\ (Settled(a) => Settled(a)')
      BY <2>1, <2>2, Zenon DEF Unmet, Moved, Settled, Clear
    <3>6. \A b \in Attempts : Owner(p, b)' => Owner(p, b)
      BY <1>a, <2>6, <3>4, Zenon DEF Owner
    <3>7. ProcInv(p)'
      BY <2>1, <2>2, <2>6, <3>4, <3>5, <3>6 DEF ProcInv
    <3> QED BY <1>c, <2>1, <2>2, <2>6, <3>3, <3>6, <3>7, QuietStep, ZenonT(30) DEF Becomes, TypeOK
  <2>7. \A f : Evaluate(f) \in Evaluations
    BY Zenon DEF Evaluate, Evaluations
  <2> QED BY <1>11, <1>c, <2>4, <2>5, <2>6, <2>7, SMTT(30) DEF Observe
<1>12. ASSUME JournalOutcome(p) PROVE CRMInv' /\ Final
  <2>1. PICK o, e, g : o = l.out /\ e = Event("OUTCOME", o.state, o.result) /\ g = IF o.state = l.state THEN "idle" ELSE "complete"
    BY Zenon
  <2>2. /\ pc[p] = "append" /\ a \in Attempts /\ Append(p, e, g) /\ g \in Labels
    BY <1>12, <1>b, <1>d, <2>1, Zenon DEF JournalOutcome, At
  <2>3. /\ o \in Outcomes /\ o.state \in {l.state, "COMPLETED", "RETIRED_UNKNOWN"}
        /\ l.state \in {"CLAIMED", "POSSIBLE_EFFECT", "ACCEPTED"}
        /\ (o.state = "COMPLETED" => Earned(a, o.result))
        /\ (o.result = "ALREADY_SATISFIED" => l.kind = "execute")
        /\ (Owner(p, a) => store[a] # None)
    BY <1>a, <2>1, <2>2, Zenon DEF ProcInv
  <2>4. e \in Events /\ e.state = o.state /\ e.result = o.result
    BY <2>1, <2>3, Zenon DEF Event, Events, Outcomes
  <2>5. e.type = "OUTCOME" /\ e.state = "COMPLETED" =>
            Earned(a, e.result) /\ (e.result = "ALREADY_SATISFIED" => Owner(p, a) /\ g \in {"idle", "complete"})
    BY <1>a, <2>1, <2>2, <2>3, <2>4, Zenon DEF Owner
  <2>6. UNCHANGED <<customer, store, sent, wire, applied>>
    BY <2>2, Zenon DEF Append, world
  <2>7. ASSUME g # "idle", pc'[p] = g, loc'[p] = loc[p], e \in journal'[a] PROVE ProcInv(p)'
    <3>1. g = "complete" /\ o.state \in {"COMPLETED", "RETIRED_UNKNOWN"}
      BY <2>1, <2>3, <2>7, Zenon
    <3>2. o.state = "COMPLETED" => Earned(a, o.result)'
      BY <2>3, <2>6, Zenon DEF Earned, Settled, Clear, Moved
    <3>3. Owner(p, a)' => store'[a] # None
      BY <2>2, <2>3, <2>6, <2>7, Zenon DEF Owner
    <3> QED BY <1>a, <2>1, <2>2, <2>3, <2>7, <3>1, <3>2, <3>3, Zenon DEF ProcInv
  <2>8. g # "idle" /\ pc'[p] = g /\ loc'[p] = loc[p] /\ e \in journal'[a] => ProcInv(p)'
    BY <2>7, Zenon
  <2> QED BY <1>a, <2>2, <2>4, <2>5, <2>8, AppendStep, SMTT(30)
<1>13. ASSUME Complete(p) PROVE CRMInv' /\ Final
  <2>1. PICK from, to, res : from = l.state /\ to = l.out.state /\ res = l.out.result
    BY Zenon
  <2>2. pc[p] = "complete" /\ a \in Attempts /\ Transition(p, from, to, "idle")
    BY <1>13, <1>b, <2>1, Zenon DEF Complete, At
  <2>3. /\ to \in {"COMPLETED", "RETIRED_UNKNOWN"} /\ from \in {"CLAIMED", "POSSIBLE_EFFECT", "ACCEPTED"}
        /\ Event("OUTCOME", to, res) \in journal[a]
    BY <1>a, <2>1, <2>2, Zenon DEF ProcInv
  <2>4. store[a] = from /\ Allowed(from, to) /\ store'[a] = to /\ journal'[a] = journal[a] => RecordStep(p, a)
    <3>1. Event("OUTCOME", to, res).type = "OUTCOME" /\ Event("OUTCOME", to, res).state = to
      BY Zenon DEF Event
    <3> QED BY <2>3, <3>1, Zenon DEF RecordStep, Dispatched
  <2>5. to \in Dispatched
    BY <2>3, Zenon DEF Dispatched
  <2>6. PICK g : g = "idle"
    BY Zenon
  <2>7. Transition(p, from, to, g) /\ g \in Labels /\ ~Advances(p, a, from, to, g)
    BY <1>d, <2>2, <2>6, Zenon DEF Advances
  <2>8. a \in Attempts /\ pc[p] \notin {"idle", "claim"} /\ g = "idle"
    BY <2>2, <2>6, Zenon
  <2> QED BY <1>a, <2>4, <2>5, <2>7, <2>8, TransitionStep, Zenon
<1>14. ASSUME Load(p) PROVE CRMInv' /\ Final
  <2>1. /\ pc[p] = "load" /\ a \in Attempts /\ l.kind # "execute" /\ l.http = 0 /\ Quiet
    <3>1. pc[p] = "load" /\ a \in Attempts /\ Quiet
      BY <1>14, <1>b, Zenon DEF Load, At
    <3> QED BY <1>a, <3>1, Zenon DEF ProcInv
  <2>2. UNCHANGED <<customer, expired, store, journal, sent, wire, answer, applied, calls>>
    BY <2>1, Zenon DEF Quiet
  <2>3. CASE Return(p)
    BY <1>e, <2>1, <2>3, Zenon
  <2>4. PICK s : s = store[a]
    BY Zenon
  <2>5. ASSUME s \in {"POSSIBLE_EFFECT", "ACCEPTED"}, Goto(p, "observe"),
               loc' = [loc EXCEPT ![p].state = s, ![p].http = IF s = "ACCEPTED" THEN 200 ELSE 0]
        PROVE  CRMInv' /\ Final
    <3>1. pc' \in [Procs -> Labels] /\ pc'[p] = "observe" /\ \A q \in Procs \ {p} : pc'[q] = pc[q]
      BY <1>d, <2>5, GotoStep, Zenon
    <3>2. PICK h : h = IF s = "ACCEPTED" THEN 200 ELSE 0
      BY Zenon
    <3>3. s \in States /\ h \in {0, 200}
      BY <2>5, <3>2, Zenon DEF States
    <3>4. Becomes(p, Local(l.kind, l.att, s, h, l.last, l.count, l.out))
      <4>1. SetsLoaded(p, s, h)
        BY <2>5, <3>2, Zenon DEF SetsLoaded
      <4> QED BY <3>3, <4>1, LoadedLocals
    <3>5. loc'[p].kind = l.kind /\ loc'[p].att = a /\ loc'[p].state = s /\ loc'[p].http = h
      BY <1>a, <3>4 DEF Becomes, Local
    <3>6. Unmet' /\ (s = "ACCEPTED" => Settled(a)')
      <4>1. Unmet /\ (s = "ACCEPTED" => Settled(a))
        BY <2>1, <2>4, <2>5, Zenon DEF AttInv
      <4> QED BY <2>2, <4>1, Zenon DEF Unmet, Moved, Settled, Clear
    <3>7. \A b \in Attempts : ~Owner(p, b)'
      BY <2>1, <3>5, Zenon DEF Owner
    <3>8. ProcInv(p)'
      BY <2>1, <2>5, <3>1, <3>2, <3>5, <3>6, <3>7 DEF ProcInv
    <3> QED BY <1>c, <2>1, <2>2, <3>1, <3>4, <3>7, <3>8, QuietStep DEF Becomes
  <2>6. ASSUME NEW o, s \in {"POSSIBLE_EFFECT", "ACCEPTED"}, Goto(p, "append"),
               o = [state |-> "RETIRED_UNKNOWN", result |-> "UNKNOWN", acceptance |-> Acceptance(s),
                    status |-> "UNAVAILABLE", count |-> 0, eval |-> None, http |-> 0],
               loc' = [loc EXCEPT ![p].state = s, ![p].out = o]
        PROVE  CRMInv' /\ Final
    <3>1. Acceptance(s) \in {"ACCEPTED", "UNKNOWN"} /\ s \in States
      BY <2>6, Zenon DEF Acceptance, States
    <3>2. o \in Outcomes /\ o.state = "RETIRED_UNKNOWN" /\ o.result = "UNKNOWN" /\ o.status = "UNAVAILABLE"
      BY <2>6, <3>1 DEF Outcomes, States, Results
    <3>3. Becomes(p, Local(l.kind, l.att, s, l.http, l.last, l.count, o))
      BY <2>6, <3>1, <3>2, SetLocals, Zenon
    <3>4. ValidClosure(o, s)
      BY <3>2, Zenon DEF ValidClosure
    <3> QED BY <1>f, <2>1, <2>6, <3>2, <3>3, <3>4, Zenon
  <2>7. \/ Return(p)
        \/ /\ s \in {"POSSIBLE_EFFECT", "ACCEPTED"} /\ Goto(p, "observe")
           /\ loc' = [loc EXCEPT ![p].state = s, ![p].http = IF s = "ACCEPTED" THEN 200 ELSE 0]
        \/ /\ s \in {"POSSIBLE_EFFECT", "ACCEPTED"} /\ Goto(p, "append")
           /\ loc' = [loc EXCEPT ![p].state = s, ![p].out =
                     [state |-> "RETIRED_UNKNOWN", result |-> "UNKNOWN", acceptance |-> Acceptance(s),
                      status |-> "UNAVAILABLE", count |-> 0, eval |-> None, http |-> 0]]
    <3>1. Recorded(a) \in {"POSSIBLE_EFFECT", "ACCEPTED"} => Recorded(a) = s
      BY <2>4, CRMAssumption, Zenon DEF Recorded
    <3> QED BY <1>14, <1>a, <3>1, Zenon DEF Load
  <2>8. PICK o : o = [state |-> "RETIRED_UNKNOWN", result |-> "UNKNOWN", acceptance |-> Acceptance(s),
                      status |-> "UNAVAILABLE", count |-> 0, eval |-> None, http |-> 0]
    BY Zenon
  <2> QED BY <2>3, <2>5, <2>6, <2>7, <2>8
<1> QED
  BY <1>1, <1>2, <1>3, <1>4, <1>5, <1>6, <1>7, <1>8, <1>9, <1>10, <1>11, <1>12, <1>13, <1>14, Zenon DEF Step

-----------------------------------------------------------------------------
\* Sending keeps the invariant: the attempt was untouched, and only its owner sends.
LEMMA SendInd ==
  ASSUME CRMInv, NEW p \in Procs, SendPatch(p)
  PROVE  CRMInv' /\ Final
<1>0. TypeOK /\ (\A q \in Procs : ProcInv(q)) /\ \A b \in Attempts : AttInv(b)
  BY Zenon DEF CRMInv
<1>a. PICK a : a = loc[p].att
  BY Zenon
<1>1. /\ pc[p] = "patch" /\ a \in Attempts /\ loc[p].kind = "execute" /\ loc[p].state = "POSSIBLE_EFFECT" /\ loc[p].http = 0
      /\ sent[a] = 0 /\ Unmet /\ Intent(a) /\ Owner(p, a) /\ store[a] \in {"POSSIBLE_EFFECT", "COMPLETED", "RETIRED_UNKNOWN"}
  <2>1. pc[p] = "patch" /\ ProcInv(p)
    BY <1>0, Zenon DEF SendPatch, At
  <2> QED BY <1>a, <2>1, Zenon DEF ProcInv, Owner
<1>2. UNCHANGED <<customer, expired, store, journal, applied, loc, calls>>
  BY Zenon DEF SendPatch
<1>3. /\ sent' \in [Attempts -> Nat] /\ sent'[a] = 1 /\ \A b \in Attempts \ {a} : sent'[b] = sent[b]
  <2>1. sent' = [sent EXCEPT ![a] = sent[a] + 1] /\ sent \in [Attempts -> Nat] /\ sent[a] = 0
    BY <1>0, <1>1, <1>a, Zenon DEF SendPatch, TypeOK
  <2> QED BY <1>1, <2>1
<1>4. /\ pc' \in [Procs -> Labels] /\ pc'[p] = "wait" /\ \A q \in Procs \ {p} : pc'[q] = pc[q]
  BY <1>0 DEF SendPatch, Goto, TypeOK, Labels
<1>5. /\ answer' \in [Procs -> {None, 200, 412}] /\ answer'[p] = None /\ \A q \in Procs \ {p} : answer'[q] = answer[q]
  BY <1>0 DEF SendPatch, TypeOK
<1>6. wire' = wire \cup {<<p, a>>} /\ wire' \in SUBSET (Procs \X Attempts)
  BY <1>0, <1>1, <1>a DEF SendPatch, TypeOK
<1>7. TypeOK'
  BY <1>0, <1>2, <1>3, <1>4, <1>5, <1>6, Zenon DEF TypeOK
<1>8. Untouched(a) /\ ~Settled(a)
  BY <1>0, <1>1, Zenon DEF AttInv, Untouched, Settled
<1>9. /\ (Moved' <=> Moved) /\ (Unmet' <=> Unmet)
      /\ \A b \in Attempts \ {a} : (Clear(b) => Clear(b)')
  BY <1>2, <1>6 DEF Moved, Unmet, Clear
<1>10. \A b \in Attempts \ {a} : (Untouched(b) => Untouched(b)') /\ (Settled(b) => Settled(b)')
  BY <1>2, <1>9, Zenon DEF Untouched, Settled
<1>11. \A b \in Attempts : Kept(b)
  BY <1>2, <1>8, <1>9, <1>10, Zenon DEF Kept
<1>12. \A q \in Procs : \A b : Owner(q, b)' <=> Owner(q, b)
  BY <1>1, <1>2, <1>4, Zenon DEF Owner
<1>13. \A q \in Procs \ {p} : ~Owner(q, a)
  BY <1>0, <1>1, Zenon DEF AttInv
<1>14. ASSUME NEW q \in Procs PROVE ProcInv(q)'
  <2>1. CASE q = p
    <3>1. store'[a] # None
      BY <1>1, <1>2, CRMAssumption, Zenon
    <3>2. answer'[p] \notin {200, 412}
      BY <1>5, CRMAssumption, Zenon
    <3> QED BY <1>1, <1>2, <1>4, <1>9, <1>a, <2>1, <3>1, <3>2, Zenon DEF ProcInv
  <2>2. CASE q # p
    <3>0. PICK b : b = loc[q].att
      BY Zenon
    <3>1. ProcInv(q) /\ pc'[q] = pc[q] /\ loc'[q] = loc[q]
      BY <1>0, <1>2, <1>4, <2>2, Zenon
    <3>2. Owner(q, b) => b \in Attempts \ {a} /\ store[b] # None
      BY <1>13, <2>2, <3>0, <3>1, Zenon DEF ProcInv, Owner
    <3>3. Owner(q, b) => /\ sent'[b] = sent[b] /\ store'[b] # None /\ (Untouched(b) => Untouched(b)')
      BY <1>2, <1>3, <1>10, <3>2, Zenon
    <3>4. pc[q] \in {"recheck", "patch"} => store'[b] \in {"POSSIBLE_EFFECT", "COMPLETED", "RETIRED_UNKNOWN"}
      BY <1>2, <3>0, <3>1, Zenon DEF ProcInv
    <3>5. pc[q] = "wait" => Owner(q, b)
      BY <3>0, <3>1, ZenonT(30) DEF ProcInv, Owner
    <3>6. pc[q] = "wait" => (answer'[q] = 200 => Settled(b)') /\ (answer'[q] = 412 => Untouched(b)')
      BY <1>5, <1>10, <2>2, <3>0, <3>1, <3>2, <3>5 DEF ProcInv
    <3> QED BY <1>11, <3>0, <3>1, <3>3, <3>4, <3>6, ProcFrame, SMTT(30)
  <2> QED BY <2>1, <2>2, Zenon
<1>15. ASSUME NEW b \in Attempts \ {a} PROVE AttInv(b)'
  <2>1. \A v \in wire' : v[2] = b => v \in wire
    BY <1>6
  <2>2. \A q \in Procs : Owner(q, b)' => Owner(q, b) /\ (pc[q] = "complete" => pc'[q] = "complete")
    BY <1>1, <1>4, <1>12, Zenon
  <2> QED BY <1>0, <1>2, <1>3, <1>9, <2>1, <2>2, AttFrame, Zenon
<1>16. AttInv(a)'
  <2>0. AttInv(a)
    BY <1>0, <1>1, Zenon
  <2>1. sent'[a] = 1 /\ store'[a] \in Dispatched /\ Intent(a)'
    BY <1>1, <1>2, <1>3, Zenon DEF Dispatched, Intent
  <2>2. a \notin applied'
    BY <1>2, <1>8, Zenon DEF Untouched
  <2>3. \A v, w \in wire' : v[2] = a /\ w[2] = a => v = w
    BY <1>6, <1>8, Zenon DEF Untouched, Clear
  <2>4. store'[a] \notin {"ACCEPTED", "BLOCKED"} /\ Unmet'
    BY <1>1, <1>2, <1>9, Zenon
  <2>5. store'[a] \in {"COMPLETED", "RETIRED_UNKNOWN"} => \E e \in journal'[a] : e.type = "OUTCOME" /\ e.state = store'[a]
    BY <1>2, <2>0, Zenon DEF AttInv
  <2>6. ASSUME NEW e \in journal'[a], e.type = "OUTCOME", e.state = "COMPLETED"
        PROVE  Earned(a, e.result)' /\ e.result # "ALREADY_SATISFIED"
    <3>1. Earned(a, e.result) /\ (e.result = "ALREADY_SATISFIED" => pc[p] = "complete")
      BY <1>1, <1>2, <2>0, <2>6, Zenon DEF AttInv
    <3> QED BY <1>1, <1>8, <1>9, <3>1, Zenon DEF Earned
  <2>7. \A q, r \in Procs : Owner(q, a)' /\ Owner(r, a)' => q = r
    BY <1>12, <2>0, Zenon DEF AttInv
  <2> QED BY <2>1, <2>2, <2>3, <2>4, <2>5, <2>6, <2>7, SMTT(30) DEF AttInv, Dispatched
<1>17. Final
  BY <1>2, Zenon DEF Final
<1> QED BY <1>7, <1>14, <1>15, <1>16, <1>17, Zenon DEF CRMInv

-----------------------------------------------------------------------------
\* A step that moves no call and touches no record: requests arrive or are lost, at
\* most the ones that arrive take effect, and the customer's version only grows.
LEMMA WorldStep ==
  ASSUME CRMInv, TypeOK', UNCHANGED <<store, journal, sent, pc, loc>>, wire' \subseteq wire, applied \subseteq applied',
         Moved => Moved', Unmet => Unmet',
         \A b \in applied' \ applied : ~Moved /\ Moved' /\ ~Clear(b) /\ Clear(b)',
         \A q \in Procs : /\ answer'[q] = 200 => answer[q] = 200 \/ (pc[q] = "wait" => Settled(loc[q].att)')
                          /\ answer'[q] = 412 => answer[q] = 412 \/ (pc[q] = "wait" => Untouched(loc[q].att)')
  PROVE  CRMInv' /\ Final
<1>0. TypeOK /\ (\A q \in Procs : ProcInv(q)) /\ \A b \in Attempts : AttInv(b)
  BY Zenon DEF CRMInv
<1>1. ASSUME NEW b \in Attempts
      PROVE  /\ (Clear(b) => Clear(b)') /\ (Untouched(b) => Untouched(b)') /\ (Settled(b) => Settled(b)')
             /\ Kept(b)
  BY Zenon DEF Clear, Untouched, Settled, Kept
<1>2. ASSUME NEW q \in Procs PROVE ProcInv(q)'
  <2>0. PICK b : b = loc[q].att
    BY Zenon
  <2>1. ProcInv(q) /\ pc'[q] = pc[q] /\ loc'[q] = loc[q]
    BY <1>0, Zenon
  <2>2. Owner(q, b) => b \in Attempts /\ store[b] # None
    BY <2>0, <2>1, Zenon DEF ProcInv, Owner
  <2>3. Owner(q, b) => /\ sent'[b] = sent[b] /\ store'[b] # None /\ (Untouched(b) => Untouched(b)')
    BY <1>1, <2>2, Zenon
  <2>4. pc[q] \in {"recheck", "patch"} => store'[b] \in {"POSSIBLE_EFFECT", "COMPLETED", "RETIRED_UNKNOWN"}
    BY <2>0, <2>1, ZenonT(30) DEF ProcInv
  <2>5. ASSUME pc[q] = "wait" PROVE (answer'[q] = 200 => Settled(b)') /\ (answer'[q] = 412 => Untouched(b)')
    <3>1. b \in Attempts /\ (answer[q] = 200 => Settled(b)) /\ (answer[q] = 412 => Untouched(b))
      BY <2>0, <2>1, <2>5, Zenon DEF ProcInv
    <3>2. (Settled(loc[q].att)' <=> Settled(b)') /\ (Untouched(loc[q].att)' <=> Untouched(b)')
      BY <2>0, <2>1, Zenon
    <3> QED BY <1>1, <2>5, <3>1, <3>2, SMTT(30)
  <2> QED BY <1>1, <2>0, <2>1, <2>3, <2>4, <2>5, ProcFrame, SMTT(30)
<1>3. \A q \in Procs : \A b : (Owner(q, b)' <=> Owner(q, b)) /\ pc'[q] = pc[q]
  BY Zenon DEF Owner
<1>4. ASSUME NEW b \in Attempts, b \in applied' => b \in applied PROVE AttInv(b)'
  BY <1>0, <1>1, <1>3, <1>4, AttFrame, Zenon
<1>5. ASSUME NEW b \in applied' \ applied
      PROVE  AttInv(b)' /\ store[b] \in {"POSSIBLE_EFFECT", "RETIRED_UNKNOWN"}
  <2>0. b \in Attempts /\ AttInv(b)
    BY <1>0, Zenon DEF TypeOK
  <2>1. ~Untouched(b) /\ ~Settled(b) /\ Settled(b)' /\ ~Moved /\ Moved' /\ Unmet'
    BY Zenon DEF Untouched, Settled, Unmet
  <2>2. sent[b] = 1 /\ store[b] \in Dispatched /\ Intent(b) /\ store[b] \notin {"ACCEPTED", "BLOCKED"}
    BY <2>0, <2>1, Zenon DEF AttInv, Dispatched
  <2>3. \A e \in journal[b] : ~(e.type = "OUTCOME" /\ e.state = "COMPLETED")
    BY <2>0, <2>1, <2>2, Zenon DEF AttInv, Earned, Results, Evaluations
  <2>4. store[b] # "COMPLETED"
    BY <2>0, <2>3, Zenon DEF AttInv
  <2>5. Intent(b)'
    BY <2>2, Zenon DEF Intent
  <2>6. \A v, w \in wire' : v[2] = b /\ w[2] = b => v = w
    BY <2>0, Zenon DEF AttInv
  <2>7. \A q, r \in Procs : Owner(q, b)' /\ Owner(r, b)' => q = r
    BY <1>3, <2>0, Zenon DEF AttInv
  <2>8. store'[b] \in {"COMPLETED", "RETIRED_UNKNOWN"} => \E e \in journal'[b] : e.type = "OUTCOME" /\ e.state = store'[b]
    BY <2>0, Zenon DEF AttInv
  <2>9. AttInv(b)'
    BY <2>1, <2>2, <2>3, <2>4, <2>5, <2>6, <2>7, <2>8 DEF AttInv, Dispatched, Settled
  <2> QED BY <2>2, <2>4, <2>9, Zenon DEF Dispatched
<1>6. Final
  BY <1>5, Zenon DEF Final
<1> QED BY <1>2, <1>4, <1>5, <1>6, Zenon DEF CRMInv

\* The steps of the destination and of time keep the invariant.
LEMMA WorldInd ==
  ASSUME CRMInv, \/ \E w \in wire : PatchArrives(w) \/ PatchLost(w)
                 \/ OtherWriter
                 \/ \E a \in Attempts : Expire(a)
                 \/ UNCHANGED vars
  PROVE  CRMInv' /\ Final
<1>0. TypeOK /\ \A b \in Attempts : AttInv(b)
  BY Zenon DEF CRMInv
<1>1. ASSUME NEW w \in wire, PatchArrives(w) PROVE CRMInv' /\ Final
  <2>1. PICK r \in Procs, a \in Attempts : w = <<r, a>>
    BY <1>0 DEF TypeOK
  <2>2. /\ wire' = wire \ {w} /\ UNCHANGED <<expired, store, journal, sent, pc, loc, calls>> /\ w[1] = r /\ w[2] = a
    BY <1>1, <2>1, Zenon DEF PatchArrives
  <2>3. AttInv(a) /\ ~Clear(a) /\ a \notin applied
    BY <1>0, <2>1, <2>2, ZenonT(30) DEF AttInv, Clear
  <2>4. Clear(a)'
    BY <2>2, <2>3, Zenon DEF AttInv, Clear
  <2>5. CASE customer.ver = Expected
    <3>1. /\ customer' \in [ver : Nat \ {0}, sat : SUBSET Fields] /\ customer'.ver = 2
      <4>1. PICK sat \in SUBSET Fields : customer' = [ver |-> customer.ver + 1, sat |-> sat]
        BY <1>1, <2>5, Zenon DEF PatchArrives
      <4> QED BY <2>5, <4>1 DEF Expected
    <3>2. /\ applied' = applied \cup {a} /\ answer' \in [Procs -> {None, 200, 412}]
          /\ \A q \in Procs : answer'[q] = answer[q] \/ (answer'[q] = 200 /\ pc[q] = "wait" /\ loc[q].att = a)
      <4>1. /\ applied' = applied \cup {a} /\ answer \in [Procs -> {None, 200, 412}]
            /\ answer' = [answer EXCEPT ![r] = IF At(r, "wait") /\ loc[r].att = a THEN 200 ELSE @]
        BY <1>0, <1>1, <2>1, <2>2, <2>5, ZenonT(30) DEF PatchArrives, TypeOK
      <4> QED BY <2>1, <4>1 DEF At
    <3>3. TypeOK' /\ ~Moved /\ Moved' /\ Unmet' /\ Settled(a)'
      BY <1>0, <2>2, <2>4, <2>5, <3>1, <3>2 DEF TypeOK, Moved, Unmet, Expected, Settled
    <3>4. \A q \in Procs : /\ answer'[q] = 200 => answer[q] = 200 \/ (pc[q] = "wait" => Settled(loc[q].att)')
                           /\ answer'[q] = 412 => answer[q] = 412 \/ (pc[q] = "wait" => Untouched(loc[q].att)')
      <4> SUFFICES ASSUME NEW q \in Procs
                   PROVE  /\ answer'[q] = 200 => answer[q] = 200 \/ (pc[q] = "wait" => Settled(loc[q].att)')
                          /\ answer'[q] = 412 => answer[q] = 412 \/ (pc[q] = "wait" => Untouched(loc[q].att)')
        BY Zenon
      <4>1. CASE answer'[q] = answer[q]
        BY <4>1, Zenon
      <4>2. CASE answer'[q] = 200 /\ loc[q].att = a
        <5>1. answer'[q] # 412 /\ loc'[q].att = a
          BY <2>2, <4>2
        <5>2. Settled(loc[q].att)'
          BY <3>3, <5>1, Zenon
        <5> QED BY <4>2, <5>1, <5>2, Zenon
      <4>3. answer'[q] = answer[q] \/ (answer'[q] = 200 /\ loc[q].att = a)
        BY <3>2, Zenon
      <4> QED BY <4>1, <4>2, <4>3, Zenon
    <3>5. \A b \in applied' \ applied : ~Moved /\ Moved' /\ ~Clear(b) /\ Clear(b)'
      BY <2>3, <2>4, <3>2, <3>3, ZenonT(30)
    <3> QED BY <2>2, <3>2, <3>3, <3>4, <3>5, WorldStep, Zenon
  <2>6. CASE customer.ver # Expected
    <3>1. /\ UNCHANGED <<customer, applied>> /\ answer' \in [Procs -> {None, 200, 412}]
          /\ \A q \in Procs : answer'[q] = answer[q] \/ (answer'[q] = 412 /\ pc[q] = "wait" /\ loc[q].att = a)
      <4>1. /\ UNCHANGED <<customer, applied>> /\ answer \in [Procs -> {None, 200, 412}]
            /\ answer' = [answer EXCEPT ![r] = IF At(r, "wait") /\ loc[r].att = a THEN 412 ELSE @]
        BY <1>0, <1>1, <2>1, <2>2, <2>6, ZenonT(30) DEF PatchArrives, TypeOK
      <4> QED BY <2>1, <4>1 DEF At
    <3>2. TypeOK' /\ (Moved => Moved') /\ (Unmet => Unmet') /\ Untouched(a)'
      BY <1>0, <2>2, <2>3, <2>4, <3>1, Zenon DEF TypeOK, Moved, Unmet, Untouched
    <3>3. \A q \in Procs : /\ answer'[q] = 200 => answer[q] = 200 \/ (pc[q] = "wait" => Settled(loc[q].att)')
                           /\ answer'[q] = 412 => answer[q] = 412 \/ (pc[q] = "wait" => Untouched(loc[q].att)')
      <4> SUFFICES ASSUME NEW q \in Procs
                   PROVE  /\ answer'[q] = 200 => answer[q] = 200 \/ (pc[q] = "wait" => Settled(loc[q].att)')
                          /\ answer'[q] = 412 => answer[q] = 412 \/ (pc[q] = "wait" => Untouched(loc[q].att)')
        BY Zenon
      <4>1. CASE answer'[q] = answer[q]
        BY <4>1, Zenon
      <4>2. CASE answer'[q] = 412 /\ loc[q].att = a
        <5>1. answer'[q] # 200 /\ loc'[q].att = a
          BY <2>2, <4>2
        <5>2. Untouched(loc[q].att)'
          BY <3>2, <5>1, Zenon
        <5> QED BY <4>2, <5>1, <5>2, Zenon
      <4>3. answer'[q] = answer[q] \/ (answer'[q] = 412 /\ loc[q].att = a)
        BY <3>1
      <4> QED BY <4>1, <4>2, <4>3, Zenon
    <3> QED BY <2>2, <3>1, <3>2, <3>3, WorldStep, Zenon
  <2> QED BY <2>5, <2>6, Zenon
<1>2. ASSUME NEW w \in wire, PatchLost(w) PROVE CRMInv' /\ Final
  <2>1. /\ wire' = wire \ {w}
        /\ UNCHANGED <<customer, expired, store, journal, sent, answer, applied, pc, loc, calls>>
    BY <1>2, Zenon DEF PatchLost
  <2>2. TypeOK' /\ (Moved => Moved') /\ (Unmet => Unmet')
    BY <1>0, <2>1, Zenon DEF TypeOK, Moved, Unmet
  <2> QED BY <2>1, <2>2, WorldStep, Zenon
<1>3. ASSUME OtherWriter PROVE CRMInv' /\ Final
  <2>1. UNCHANGED <<expired, store, journal, sent, wire, answer, applied, pc, loc, calls>>
    BY <1>3, Zenon DEF OtherWriter
  <2>2. customer' \in [ver : Nat \ {0}, sat : SUBSET Fields] /\ customer'.ver = customer.ver + 1 /\ customer.ver \in Nat \ {0}
    <3>1. customer \in [ver : Nat \ {0}, sat : SUBSET Fields]
      BY <1>0, ZenonT(30) DEF TypeOK
    <3>2. PICK sat \in SUBSET Fields : customer' = [ver |-> customer.ver + 1, sat |-> sat]
      BY <1>3, Zenon DEF OtherWriter
    <3> QED BY <3>1, <3>2
  <2>3. TypeOK' /\ Moved' /\ Unmet'
    <3>1. TypeOK'
      BY <1>0, <2>1, <2>2, ZenonT(30) DEF TypeOK
    <3>2. customer'.ver # Expected
      BY <2>2, SMTT(30) DEF Expected
    <3> QED BY <3>1, <3>2, ZenonT(30) DEF Moved, Unmet
  <2> QED BY <2>1, <2>3, WorldStep, ZenonT(30)
<1>4. ASSUME (\E a \in Attempts : Expire(a)) \/ UNCHANGED vars PROVE CRMInv' /\ Final
  <2>1. /\ UNCHANGED <<customer, store, journal, sent, wire, answer, applied, pc, loc, calls>>
        /\ expired' \in SUBSET Attempts
    BY <1>0, <1>4 DEF Expire, vars, TypeOK
  <2>2. TypeOK' /\ (Moved => Moved') /\ (Unmet => Unmet')
    BY <1>0, <2>1, Zenon DEF TypeOK, Moved, Unmet
  <2> QED BY <2>1, <2>2, WorldStep, Zenon
<1> QED BY <1>1, <1>2, <1>3, <1>4, Zenon

\* A crash leaves no call, and nothing of the attempts but what is durable.
LEMMA CrashInd ==
  ASSUME CRMInv, Crash
  PROVE  CRMInv' /\ Final
<1>0. TypeOK /\ \A b \in Attempts : AttInv(b)
  BY Zenon DEF CRMInv
<1>1. /\ UNCHANGED <<customer, expired, store, journal, sent, wire, applied, calls>>
      /\ answer' \in [Procs -> {None, 200, 412}]
      /\ pc' \in [Procs -> Labels] /\ \A q \in Procs : pc'[q] = "idle" /\ loc'[q] = NoLocals
  BY Zenon DEF Crash, Labels
<1>2. NoLocals \in Locals /\ NoLocals.http = 0
  BY DEF NoLocals, Locals
<1>3. loc' \in [Procs -> Locals]
  BY <1>2, Zenon DEF Crash
<1>4. TypeOK'
  BY <1>0, <1>1, <1>3, ZenonT(30) DEF TypeOK
<1>5. \A q \in Procs : ProcInv(q)' /\ \A b : ~Owner(q, b)'
  <2> SUFFICES ASSUME NEW q \in Procs PROVE ProcInv(q)' /\ \A b : ~Owner(q, b)'
    BY Zenon
  <2>1. pc'[q] = "idle" /\ loc'[q].http = 0
    BY <1>1, <1>2, Zenon
  <2> QED BY <2>1, SMTT(30) DEF ProcInv, Owner
<1>6. ASSUME NEW b \in Attempts PROVE AttInv(b)'
  <2>1. (Moved => Moved') /\ (Unmet => Unmet') /\ (Clear(b) => Clear(b)')
    BY <1>1, Zenon DEF Moved, Unmet, Clear
  <2> QED BY <1>0, <1>1, <1>5, <2>1, AttFrame, Zenon
<1>7. Final
  BY <1>1, Zenon DEF Final
<1> QED BY <1>4, <1>5, <1>6, <1>7, Zenon DEF CRMInv

-----------------------------------------------------------------------------
\* The invariant holds at first: nothing is claimed, sent or running.
LEMMA InitInv ==
  Init => CRMInv
<1> SUFFICES ASSUME Init PROVE CRMInv
  BY ZenonT(30)
<1>1. NoLocals \in Locals /\ NoLocals.http = 0
  BY DEF NoLocals, Locals
<1>2. TypeOK
  BY <1>1 DEF Init, TypeOK, Labels, Expected
<1>3. \A q \in Procs : ProcInv(q) /\ \A b : ~Owner(q, b)
  BY <1>1, Zenon DEF Init, ProcInv, Owner
<1>4. ASSUME NEW b \in Attempts PROVE AttInv(b)
  <2>1. sent[b] = 0 /\ store[b] = None /\ journal[b] = {} /\ wire = {} /\ applied = {}
    BY Zenon DEF Init
  <2> QED BY <1>3, <2>1, CRMAssumption DEF AttInv, Untouched, Clear
<1> QED BY <1>2, <1>3, <1>4, Zenon DEF CRMInv

\* Every step keeps it, leaves resolved records alone and lets no closed attempt
\* take effect.
LEMMA NextInd ==
  CRMInv /\ [Next]_vars => CRMInv' /\ Final
<1> SUFFICES ASSUME CRMInv, [Next]_vars PROVE CRMInv' /\ Final
  BY Zenon
<1>1. ASSUME NEW p \in Procs, Step(p) \/ \E kind \in {"execute", "reconcile", "retire"}, a \in Attempts : Begin(p, kind, a)
      PROVE  CRMInv' /\ Final
  BY <1>1, CallInd, SendInd, Zenon
<1>2. CASE Crash
  BY <1>2, CrashInd, Zenon
<1>3. CASE \/ \E w \in wire : PatchArrives(w) \/ PatchLost(w)
           \/ OtherWriter
           \/ \E a \in Attempts : Expire(a)
           \/ UNCHANGED vars
  BY <1>3, WorldInd, Zenon
<1> QED BY <1>1, <1>2, <1>3, Zenon DEF Next

\* What the invariant says of the attempts and of the calls.
LEMMA InvImplies ==
  CRMInv => /\ PatchOnceAndRecorded
            /\ TypeOK /\ BlockedHasNoEffect /\ ClosureIsEarned /\ JournalFirst /\ NoOutcomeDropped
<1> SUFFICES ASSUME CRMInv
             PROVE  /\ PatchOnceAndRecorded
                    /\ TypeOK /\ BlockedHasNoEffect /\ ClosureIsEarned /\ JournalFirst /\ NoOutcomeDropped
  BY Zenon
<1>0. TypeOK /\ (\A p \in Procs : ProcInv(p)) /\ \A a \in Attempts : AttInv(a)
  BY Zenon DEF CRMInv
<1>1. PatchOnceAndRecorded
  <2> SUFFICES ASSUME NEW a \in Attempts
               PROVE  /\ sent[a] <= 1
                      /\ sent[a] > 0 => store[a] \in Dispatched /\ Intent(a)
    BY Zenon DEF PatchOnceAndRecorded, Dispatched, Intent
  <2>1. AttInv(a)
    BY <1>0, Zenon
  <2>2. sent[a] \in {0, 1} /\ (sent[a] = 1 => store[a] \in Dispatched /\ Intent(a))
    BY <2>1, Zenon DEF AttInv, Dispatched
  <2> QED BY <2>2
<1>2. BlockedHasNoEffect
  BY <1>0, Zenon DEF AttInv, BlockedHasNoEffect, Untouched, Clear
<1>3. ClosureIsEarned
  <2> SUFFICES ASSUME NEW a \in Attempts, store[a] = "COMPLETED",
                      NEW out, out = {e \in journal[a] : e.type = "OUTCOME" /\ e.state = "COMPLETED"}
               PROVE  /\ out # {}
                      /\ (\A e \in out : e.result \in {"PARTIAL", "UNSATISFIED"}) => \A w \in wire : w[2] # a
                      /\ (\E e \in out : e.result = "ALREADY_SATISFIED") => sent[a] = 0
    BY Zenon DEF ClosureIsEarned
  <2>1. AttInv(a)
    BY <1>0, Zenon
  <2>2. out # {}
    BY <2>1, Zenon DEF AttInv
  <2>3. \A e \in out : Earned(a, e.result)
    BY <2>1, Zenon DEF AttInv
  <2> QED BY <2>2, <2>3, Zenon DEF Earned, Settled, Clear
<1>4. JournalFirst
  BY <1>0, Zenon DEF AttInv, JournalFirst
<1>5. NoOutcomeDropped
  BY <1>0, Zenon DEF ProcInv, NoOutcomeDropped, At
<1> QED BY <1>0, <1>1, <1>2, <1>3, <1>4, <1>5, Zenon

\* For every number of calls, attempts and fields: at most one PATCH is ever sent
\* for an attempt, and only after its intent is journaled and POSSIBLE_EFFECT is
\* durable, however calls are repeated, run side by side or cut off.
THEOREM PatchOnce ==
  Spec => []PatchOnceAndRecorded
<1>1. Spec => []CRMInv
  BY InitInv, NextInd, PTL DEF Spec
<1> QED BY <1>1, InvImplies, PTL

\* An attempt is closed for what really happened, the closure is on the journal
\* before it is in the store, and neither the record nor the destination is
\* changed by the attempt afterwards.
THEOREM ClosuresAreHonest ==
  Spec => ClosureIsHonest
<1>1. Spec => []CRMInv
  BY InitInv, NextInd, PTL DEF Spec
<1>2. CRMInv /\ [Next]_vars
      => [\A a \in applied' \ applied : store[a] \in {"POSSIBLE_EFFECT", "RETIRED_UNKNOWN"}]_vars
  BY NextInd, Zenon DEF Final
<1>3. CRMInv /\ [Next]_vars
      => [\A a \in Attempts : store[a] \in {"BLOCKED", "COMPLETED", "RETIRED_UNKNOWN"} => store'[a] = store[a]]_vars
  BY NextInd, Zenon DEF Final
<1>4. Spec => NoEffectAfterClosure /\ ResolvedIsFinal
  BY <1>1, <1>2, <1>3, PTL DEF Spec, NoEffectAfterClosure, ResolvedIsFinal
<1> QED BY <1>1, <1>4, InvImplies, PTL DEF ClosureIsHonest
=============================================================================
