----------------------- MODULE QuorumRotationProofs ------------------------
(***************************************************************************)
(* The witness quorum and its rotation, for every number of witnesses,     *)
(* clients and executions, every strict majority and every plan the code   *)
(* accepts: settled heads never fork and are never lost, at most one of    *)
(* the two quorums lives, and a rotation that returned success is final.   *)
(*                                                                         *)
(* The argument.  A witness's head only grows, so whoever once had a head  *)
(* from a quorum can still find it there (Upheld), and two quorums of one  *)
(* policy meet in a witness that has both heads.  Across the two policies  *)
(* quorums need not meet.  There the head H at which the shared witnesses  *)
(* are frozen stands between them: what the old quorum had from a shared   *)
(* witness before that was frozen is below H, what the new one has from a  *)
(* shared witness is above it, and the plan makes every quorum of either   *)
(* policy include a shared witness.  All shared witnesses are frozen at    *)
(* one head because an execution freezes at a head that it has seen on     *)
(* all of them.  H is in no variable once they are active again, hence the *)
(* quantifier in IndInv.                                                   *)
(***************************************************************************)
EXTENDS QuorumRotation, FiniteSetTheorems, TLAPS

Kept == Elements(Shared)

Contents == Elements(Enrolled) \cup UNION {Entry[c] : c \in Clients}
Journal == {h \in Seq(Contents) : Len(h) <= MaxLength}
PolicyState == {Active("old"), Active("new")} \cup {Joint(h) : h \in Journal}
Witness == [policy : PolicyState, head : Journal, ver : Nat]
Observation == [wit : Witnesses, head : Journal, ver : Nat]
HeadRequest == [wit : Witnesses, policy : Policies, head : Journal, ver : Nat, next : Journal]
PolicyRequest == [wit : Witnesses, from : PolicyState, to : PolicyState, head : Journal, ver : Nat]
ClientLocals == [prev : Journal, next : Journal, asked : SUBSET Witnesses,
                 seen : SUBSET Observation, done : SUBSET Witnesses, ok : SUBSET Witnesses]
RotationLocals == [i : 1 .. Len(Shared), before : Journal, head : Journal,
                   found : Seq(PolicyState), votes : SUBSET Witnesses]
Observed == {"classify", "decide", "oldload", "freeze", "reclassify", "frozen",
             "activate", "newload", "after"}

OldAt(w) == wit[w].policy = Active("old")
NewAt(w) == wit[w].policy = Active("new")

\* Shared witnesses are frozen at H or have been; the first is active under the
\* new policy only when the last is no longer under the old one.
WitInv(H) ==
  /\ H \in Journal
  /\ wit \in [Witnesses -> Witness]
  /\ \A w \in Kept : ~OldAt(w) /\ ~NewAt(w) => wit[w].policy = Joint(H) /\ wit[w].head = H
  /\ \A w \in Kept : ~OldAt(w) => \A v \in Kept : IsPrefix(H, wit[v].head)
  /\ \A w \in Kept : NewAt(w) => \A v \in Kept : ~OldAt(v)

\* Witness w has given head h to somebody under policy p.
Vouches(p, w, h, H) ==
  /\ w \in Members[p] /\ IsPrefix(h, wit[w].head)
  /\ w \in Kept => IF p = "old" THEN ~OldAt(w) => IsPrefix(h, H)
                   ELSE NewAt(w) /\ IsPrefix(H, h)

Upheld(p, h, H) ==
  \E Q \in SUBSET Members[p] :
      Cardinality(Q) >= Threshold[p] /\ \A w \in Q : Vouches(p, w, h, H)

ClientInv(c, H) ==
  /\ pc[c] \in {"idle", "load", "advance", "converge"} /\ loc[c] \in ClientLocals
  /\ pc[c] = "idle" => loc[c] = NoLocals
  /\ IsPrefix(loc[c].prev, loc[c].next)
  /\ pc[c] \in {"advance", "converge"} => loc[c].next # <<>>
  /\ \A o \in loc[c].seen : o.wit \in loc[c].asked /\ Vouches(Bound[c], o.wit, o.head, H)
  /\ \A o, q \in loc[c].seen : o.wit = q.wit => o = q
  /\ \A h \in {loc[c].next} : \A w \in loc[c].ok : Vouches(Bound[c], w, h, H)

LateInv(q) == q \in HeadRequest /\ IsPrefix(q.head, q.next)

SettledInv(s, H) ==
  /\ s.head \in Journal /\ s.head # <<>> /\ s.policy \in Policies
  /\ Upheld(s.policy, s.head, H)

\* How many shared witnesses an execution has classified.
Classified(l, i) ==
  CASE l \in {"classify", "reclassify"} -> i - 1
    [] l \in {"decide", "frozen"} -> Len(Shared)
    [] OTHER -> 0

\* An execution at label l with locals x.
RotOK(l, x, H) ==
  /\ l \in {"idle", "before", "observe"} \cup Observed
  /\ x \in RotationLocals
  /\ \A k \in 1 .. Len(Shared) :
         l \in Observed \/ (l = "observe" /\ k < x.i) => IsPrefix(x.head, wit[Shared[k]].head)
  /\ Len(x.found) = Classified(l, x.i)
  /\ \A k \in 1 .. Len(x.found) : x.found[k] # Active("old") => ~OldAt(Shared[k])
  /\ l \in {"activate", "newload", "after"} => \A w \in Kept : ~OldAt(w)
  /\ l \in {"newload", "after"} =>
         \A h \in {x.head} : \A w \in x.votes : Vouches("new", w, h, H)
  /\ l \notin {"oldload", "newload", "after"} => x.votes = {}

RotInv(r, H) == \A l \in {rpc[r]}, x \in {rloc[r]} : RotOK(l, x, H)

\* A transition on its way freezes at a head that all shared witnesses have, or
\* comes when none of them is under the old policy.
TransitionInv(t) ==
  /\ t \in PolicyRequest /\ t.wit \in Kept
  /\ \/ /\ t.from = Active("old") /\ t.to = Joint(t.head)
        /\ \A w \in Kept : IsPrefix(t.head, wit[w].head)
     \/ /\ t.from = Joint(t.head) /\ t.to = Active("new")
        /\ \A w \in Kept : ~OldAt(w)

ClientsInv(H) ==
  /\ pc \in [Clients -> {"idle", "load", "advance", "converge"}]
  /\ loc \in [Clients -> ClientLocals]
  /\ \A c \in Clients : ClientInv(c, H)

RotatorsInv(H) ==
  /\ rpc \in [Rotators -> {"idle", "before", "observe"} \cup Observed]
  /\ rloc \in [Rotators -> RotationLocals]
  /\ \A r \in Rotators : RotInv(r, H)

RInv(H) ==
  /\ WitInv(H)
  /\ ClientsInv(H)
  /\ IsFiniteSet(late) /\ Cardinality(late) <= MaxLate /\ \A q \in late : LateInv(q)
  /\ \A s \in settled : SettledInv(s, H)
  /\ RotatorsInv(H)
  /\ \A t \in rlate : TransitionInv(t)
  /\ \A h \in rotated : h \in Journal /\ Upheld("new", h, H)

IndInv == \E H \in Journal : RInv(H)

-----------------------------------------------------------------------------
(* Prefixes.                                                               *)

\* Every head continues itself and the absent one.
LEMMA PrefixSelf == \A a \in Journal : IsPrefix(a, a) /\ IsPrefix(<<>>, a)
BY DEF IsPrefix, Journal

\* Prefixes of prefixes are prefixes.
LEMMA PrefixTrans == \A a, b, d \in Journal : IsPrefix(a, b) /\ IsPrefix(b, d) => IsPrefix(a, d)
BY DEF IsPrefix, Journal

\* Heads that are prefixes of each other are equal.
LEMMA PrefixSame == \A a, b \in Journal : IsPrefix(a, b) /\ IsPrefix(b, a) => a = b
BY DEF IsPrefix, Journal

\* Of two prefixes of one head, one is a prefix of the other.
LEMMA PrefixChain ==
  \A a, b, d \in Journal : IsPrefix(a, d) /\ IsPrefix(b, d) => IsPrefix(a, b) \/ IsPrefix(b, a)
BY DEF IsPrefix, Journal

\* The next head of an advance continues the one before.
LEMMA NextHead ==
  ASSUME NEW h \in Journal, NEW v \in Contents, Len(h) < MaxLength
  PROVE  Append(h, v) \in Journal /\ Append(h, v) # <<>> /\ IsPrefix(h, Append(h, v))
<1>1. h \in Seq(Contents) /\ Len(h) \in Nat
  BY DEF Journal
<1>2. /\ Append(h, v) \in Seq(Contents) /\ Len(Append(h, v)) = Len(h) + 1
      /\ \A i \in 1 .. Len(h) : Append(h, v)[i] = h[i]
  BY <1>1
<1>3. Append(h, v) \in Journal /\ Append(h, v) # <<>>
  BY <1>1, <1>2, JournalAssumption DEF Journal
<1> QED BY <1>1, <1>2, <1>3 DEF IsPrefix

-----------------------------------------------------------------------------
(* Quorums.                                                                *)

\* What the plan and the policies say of the shared witnesses.
LEMMA SharedFacts ==
  /\ Len(Shared) \in Nat \ {0} /\ \A k \in 1 .. Len(Shared) : Shared[k] \in Kept
  /\ \A w \in Kept : \E k \in 1 .. Len(Shared) : w = Shared[k]
  /\ Kept \subseteq Witnesses /\ \A p \in Policies : Kept \subseteq Members[p]
  /\ \A p \in Policies :
         /\ Members[p] \subseteq Witnesses /\ IsFiniteSet(Members[p])
         /\ Threshold[p] \in Nat /\ Cardinality(Members[p]) \in Nat
         /\ 2 * Threshold[p] > Cardinality(Members[p])
         /\ Cardinality(Kept) \in Nat
         /\ Cardinality(Kept) + Threshold[p] > Cardinality(Members[p])
<1>1. Shared \in Seq(Witnesses) /\ Len(Shared) \in Nat /\ DOMAIN Shared = 1 .. Len(Shared)
  BY PlanAssumption
<1>2. Kept = Members["old"] \cap Members["new"] /\ Cardinality(Kept) = Len(Shared)
  BY PlanAssumption, Zenon DEF Kept
<1>3. \A p \in Policies :
         /\ Members[p] \subseteq Witnesses /\ IsFiniteSet(Members[p])
         /\ Threshold[p] \in Nat /\ Cardinality(Members[p]) \in Nat
         /\ Threshold[p] <= Cardinality(Members[p])
         /\ 2 * Threshold[p] > Cardinality(Members[p])
  <2> TAKE p \in Policies
  <2>1. Members[p] \in SUBSET Witnesses /\ IsFiniteSet(Witnesses) /\ Threshold[p] \in Nat
    BY QuorumAssumption, Zenon
  <2>2. IsFiniteSet(Members[p])
    BY <2>1, FS_Subset, Zenon
  <2>3. Cardinality(Members[p]) \in Nat
    BY <2>2, FS_CardinalityType, Zenon
  <2> QED BY <2>1, <2>2, <2>3, QuorumAssumption, Zenon
<1>4. \A p \in Policies : Len(Shared) >= Cardinality(Members[p]) - Threshold[p] + 1
  BY PlanAssumption, Zenon DEF Policies, Blocking
<1>5. Len(Shared) \in Nat \ {0} /\ \A p \in Policies : Len(Shared) + Threshold[p] > Cardinality(Members[p])
  <2>1. "old" \in Policies
    BY Zenon DEF Policies
  <2> QED BY <1>1, <1>3, <1>4, <2>1
<1>6. /\ \A k \in 1 .. Len(Shared) : Shared[k] \in Kept
      /\ \A w \in Kept : \E k \in 1 .. Len(Shared) : w = Shared[k]
  BY <1>1, Zenon DEF Kept, Elements
<1>7. Kept \subseteq Witnesses /\ \A p \in Policies : Kept \subseteq Members[p]
  BY <1>2, <1>3, Zenon DEF Policies
<1> QED BY <1>1, <1>2, <1>3, <1>5, <1>6, <1>7, Zenon

\* Two quorums of a policy have a witness in common, every quorum has a shared
\* witness, and the members outside a quorum, or not shared, are not one.
LEMMA Quorums ==
  ASSUME NEW p \in Policies
  PROVE  /\ \A Q, R \in SUBSET Members[p] :
               Cardinality(Q) >= Threshold[p] /\ Cardinality(R) >= Threshold[p] => Q \cap R # {}
         /\ \A Q \in SUBSET Members[p] : Cardinality(Q) >= Threshold[p] => Q \cap Kept # {}
         /\ \A Q \in SUBSET Members[p] : Q \cap Kept = {} => ~(Cardinality(Q) >= Threshold[p])
         /\ \A Q, R \in SUBSET Members[p] :
               Cardinality(Q) >= Threshold[p] /\ Q \cap R = {} => Cardinality(R) < Threshold[p]
<1>1. /\ IsFiniteSet(Members[p]) /\ Threshold[p] \in Nat /\ Cardinality(Members[p]) \in Nat
      /\ 2 * Threshold[p] > Cardinality(Members[p])
      /\ Cardinality(Kept) \in Nat /\ Kept \subseteq Members[p]
      /\ Cardinality(Kept) + Threshold[p] > Cardinality(Members[p])
  BY SharedFacts, Zenon
<1>2. \A Q \in SUBSET Members[p] : Cardinality(Q) \in Nat
  BY <1>1, FS_Subset, FS_CardinalityType, Zenon
<1>3. \A Q, R \in SUBSET Members[p] : Cardinality(Q) + Cardinality(R) > Cardinality(Members[p]) => Q \cap R # {}
  BY <1>1, FS_MajoritiesIntersect, Zenon
<1>4. \A Q, R \in SUBSET Members[p] :
          Cardinality(Q) >= Threshold[p] /\ Cardinality(R) >= Threshold[p] => Q \cap R # {}
  <2> TAKE Q, R \in SUBSET Members[p]
  <2> HAVE Cardinality(Q) >= Threshold[p] /\ Cardinality(R) >= Threshold[p]
  <2>1. Cardinality(Q) + Cardinality(R) > Cardinality(Members[p])
    BY <1>1, <1>2
  <2> QED BY <1>3, <2>1, Zenon
<1>5. \A Q \in SUBSET Members[p] : Cardinality(Q) >= Threshold[p] => Q \cap Kept # {}
  <2> TAKE Q \in SUBSET Members[p]
  <2> HAVE Cardinality(Q) >= Threshold[p]
  <2>1. Cardinality(Q) + Cardinality(Kept) > Cardinality(Members[p])
    BY <1>1, <1>2
  <2> QED BY <1>1, <1>3, <2>1, Zenon
<1>6. \A Q, R \in SUBSET Members[p] :
          Cardinality(Q) >= Threshold[p] /\ Q \cap R = {} => Cardinality(R) < Threshold[p]
  <2> TAKE Q, R \in SUBSET Members[p]
  <2> HAVE Cardinality(Q) >= Threshold[p] /\ Q \cap R = {}
  <2>1. ~(Cardinality(R) >= Threshold[p])
    BY <1>4, Zenon
  <2> QED BY <1>1, <1>2, <2>1
<1> QED BY <1>4, <1>5, <1>6, Zenon

\* Observations of different witnesses count as that many witnesses.
LEMMA CountWitnesses ==
  ASSUME NEW S \in SUBSET Observation, \A o, q \in S : o.wit = q.wit => o = q
  PROVE  /\ IsFiniteSet(S) /\ IsFiniteSet({o.wit : o \in S})
         /\ Cardinality(S) <= Cardinality({o.wit : o \in S})
         /\ Cardinality(S) \in Nat /\ Cardinality({o.wit : o \in S}) \in Nat
<1> DEFINE T == {o.wit : o \in S}
           f == [o \in S |-> o.wit]
<1>1. T \in SUBSET Witnesses
  BY Zenon DEF Observation
<1>2. IsFiniteSet(T) /\ Cardinality(T) \in Nat
  BY <1>1, QuorumAssumption, FS_Subset, FS_CardinalityType, Zenon
<1>3. f \in Injection(S, T)
  <2>1. f \in [S -> T]
    BY Zenon
  <2>2. \A o, q \in S : f[o] = f[q] => o = q
    BY Zenon
  <2> HIDE DEF f, T
  <2> QED BY <2>1, <2>2, Zenon DEF Injection, IsInjective
<1> HIDE DEF f, T
<1>4. IsFiniteSet(S) /\ Cardinality(S) <= Cardinality(T)
  BY <1>2, <1>3, FS_Injection, Zenon
<1>5. Cardinality(S) \in Nat
  BY <1>4, FS_CardinalityType, Zenon
<1> QED BY <1>2, <1>4, <1>5, Zenon DEF T
-----------------------------------------------------------------------------
(* What steps do to the witnesses.                                         *)

\* Heads grow, policies move on, and what is frozen is frozen at H.
WitMoves(H) ==
  /\ wit' \in [Witnesses -> Witness]
  /\ \A w \in Witnesses : IsPrefix(wit[w].head, wit'[w].head)
  /\ \A w \in Kept : /\ OldAt(w)' => OldAt(w)
                     /\ NewAt(w) => NewAt(w)'
                     /\ OldAt(w) /\ ~OldAt(w)' => wit[w].head = H

\* A step that leaves the witnesses alone.
LEMMA StillMoves ==
  ASSUME NEW H, WitInv(H), wit' = wit
  PROVE  WitMoves(H) /\ WitInv(H)'
<1>1. \A w \in Witnesses : wit[w].head \in Journal
  BY Zenon DEF WitInv, Witness
<1>2. \A w \in Witnesses : IsPrefix(wit[w].head, wit[w].head)
  BY <1>1, PrefixSelf, Zenon
<1>3. WitMoves(H)
  BY <1>2, Zenon DEF WitMoves, WitInv, OldAt, NewAt
<1>4. WitInv(H)'
  BY Zenon DEF WitInv, OldAt, NewAt
<1> QED BY <1>3, <1>4, Zenon

\* Witnesses vouch for ever for what they once gave.
LEMMA StillVouches ==
  ASSUME NEW H, WitInv(H), WitMoves(H),
         NEW p \in Policies, NEW w, NEW h \in Journal, Vouches(p, w, h, H)
  PROVE  Vouches(p, w, h, H)'
<1>1. w \in Witnesses /\ w \in Members[p] /\ H \in Journal
  BY SharedFacts, Zenon DEF Vouches, WitInv
<1>2. wit[w].head \in Journal /\ wit'[w].head \in Journal
  BY <1>1, Zenon DEF WitInv, WitMoves, Witness
<1>3. IsPrefix(h, wit'[w].head)
  BY <1>1, <1>2, PrefixTrans, Zenon DEF WitMoves, Vouches
<1>4. ASSUME w \in Kept, p = "old", ~OldAt(w)' PROVE IsPrefix(h, H)
  <2>1. CASE OldAt(w)
    BY <1>4, <2>1, Zenon DEF WitMoves, Vouches
  <2>2. CASE ~OldAt(w)
    BY <1>4, <2>2, Zenon DEF Vouches
  <2> QED BY <2>1, <2>2, Zenon
<1>5. ASSUME w \in Kept, p # "old" PROVE NewAt(w)' /\ IsPrefix(H, h)
  BY <1>5, Zenon DEF WitMoves, Vouches
<1> QED BY <1>1, <1>3, <1>4, <1>5, Zenon DEF Vouches

\* So what a quorum upholds it upholds for ever.
LEMMA StillUpheld ==
  ASSUME NEW H, WitInv(H), WitMoves(H), NEW p \in Policies, NEW h \in Journal, Upheld(p, h, H)
  PROVE  Upheld(p, h, H)'
<1>1. PICK Q \in SUBSET Members[p] : Cardinality(Q) >= Threshold[p] /\ \A w \in Q : Vouches(p, w, h, H)
  BY Zenon DEF Upheld
<1>2. \A w \in Q : Vouches(p, w, h, H)'
  BY <1>1, StillVouches, Zenon
<1> QED BY <1>1, <1>2, Zenon DEF Upheld

\* A client that does not move keeps its invariant, whoever else does.
LEMMA ClientStill ==
  ASSUME NEW H, WitInv(H), WitMoves(H), NEW c \in Clients, ClientInv(c, H),
         pc'[c] = pc[c], loc'[c] = loc[c]
  PROVE  ClientInv(c, H)'
<1>1. Bound[c] \in Policies /\ loc[c] \in ClientLocals
  BY QuorumAssumption, Zenon DEF ClientInv
<1>2. loc[c].next \in Journal /\ \A o \in loc[c].seen : o.head \in Journal
  BY <1>1, Zenon DEF ClientLocals, Observation
<1>3. \A o \in loc[c].seen : o.wit \in loc[c].asked /\ Vouches(Bound[c], o.wit, o.head, H)'
  BY <1>1, <1>2, StillVouches, Zenon DEF ClientInv
<1>4. \A h \in {loc[c].next} : \A w \in loc[c].ok : Vouches(Bound[c], w, h, H)'
  BY <1>1, <1>2, StillVouches, Zenon DEF ClientInv
<1> QED BY <1>3, <1>4, Zenon DEF ClientInv

\* Nor does what was settled or returned change when others move.
LEMMA SettledStill ==
  ASSUME NEW H, WitInv(H), WitMoves(H), NEW s, SettledInv(s, H)
  PROVE  SettledInv(s, H)'
BY StillUpheld, Zenon DEF SettledInv

\* A shared witness past the old policy stays past it.
LEMMA StillPast ==
  ASSUME NEW H, WitInv(H), WitMoves(H)
  PROVE  /\ \A w \in Kept : ~OldAt(w) => ~OldAt(w)'
         /\ \A w \in Kept, h \in Journal : IsPrefix(h, wit[w].head) => IsPrefix(h, wit'[w].head)
<1>1. \A w \in Kept : wit[w].head \in Journal /\ wit'[w].head \in Journal /\ IsPrefix(wit[w].head, wit'[w].head)
  BY SharedFacts, Zenon DEF WitInv, WitMoves, Witness
<1>2. \A w \in Kept, h \in Journal : IsPrefix(h, wit[w].head) => IsPrefix(h, wit'[w].head)
  BY <1>1, PrefixTrans, Zenon
<1> QED BY <1>2, Zenon DEF WitMoves

\* What an execution relies on stays true.
LEMMA RotStill ==
  ASSUME NEW H, WitInv(H), WitMoves(H), NEW l, NEW x, RotOK(l, x, H)
  PROVE  RotOK(l, x, H)'
<1>1. x \in RotationLocals /\ "new" \in Policies
  BY Zenon DEF RotOK, Policies
<1>2. x.head \in Journal /\ Len(x.found) = Classified(l, x.i) /\ x.i \in 1 .. Len(Shared)
  BY <1>1, Zenon DEF RotationLocals, RotOK
<1>3. /\ \A k \in 1 .. Len(Shared) : Shared[k] \in Kept
      /\ \A k \in 1 .. Len(x.found) : k \in 1 .. Len(Shared)
  BY <1>2, SharedFacts DEF Classified
<1>4. \A k \in 1 .. Len(Shared) :
         l \in Observed \/ (l = "observe" /\ k < x.i) => IsPrefix(x.head, wit'[Shared[k]].head)
  BY <1>2, <1>3, StillPast, Zenon DEF RotOK
<1>5. \A k \in 1 .. Len(x.found) : x.found[k] # Active("old") => ~OldAt(Shared[k])'
  BY <1>3, StillPast, Zenon DEF RotOK
<1>6. l \in {"activate", "newload", "after"} => \A w \in Kept : ~OldAt(w)'
  BY StillPast, Zenon DEF RotOK
<1>7. l \in {"newload", "after"} =>
         \A h \in {x.head} : \A w \in x.votes : Vouches("new", w, h, H)'
  BY <1>1, <1>2, StillVouches, Zenon DEF RotOK
<1> QED BY <1>4, <1>5, <1>6, <1>7, Zenon DEF RotOK

\* An execution that does not move keeps its invariant.
LEMMA RotatorStill ==
  ASSUME NEW H, WitInv(H), WitMoves(H), NEW r \in Rotators, RotInv(r, H),
         rpc'[r] = rpc[r], rloc'[r] = rloc[r]
  PROVE  RotInv(r, H)'
BY RotStill, Zenon DEF RotInv

\* Nor does a transition on its way.
LEMMA TransitionStill ==
  ASSUME NEW H, WitInv(H), WitMoves(H), NEW t, TransitionInv(t)
  PROVE  TransitionInv(t)'
<1>1. t.head \in Journal
  BY Zenon DEF TransitionInv, PolicyRequest
<1> QED BY <1>1, StillPast, Zenon DEF TransitionInv
-----------------------------------------------------------------------------
(* Putting a step together.                                                *)

\* Only one client moves.
LEMMA OneClient ==
  ASSUME NEW H, WitInv(H), WitMoves(H), ClientsInv(H), NEW c \in Clients,
         NEW l \in {"idle", "load", "advance", "converge"}, NEW x \in ClientLocals,
         pc' = [pc EXCEPT ![c] = l], loc' = [loc EXCEPT ![c] = x],
         ClientInv(c, H)'
  PROVE  ClientsInv(H)'
<1>1. pc \in [Clients -> {"idle", "load", "advance", "converge"}] /\ loc \in [Clients -> ClientLocals]
  BY Zenon DEF ClientsInv
<1>2. pc' \in [Clients -> {"idle", "load", "advance", "converge"}] /\ loc' \in [Clients -> ClientLocals]
  BY <1>1, Zenon
<1>3. \A d \in Clients \ {c} : pc'[d] = pc[d] /\ loc'[d] = loc[d]
  BY <1>1, Zenon
<1>4. \A d \in Clients : ClientInv(d, H)
  BY Zenon DEF ClientsInv
<1>5. \A d \in Clients \ {c} : ClientInv(d, H)'
  BY <1>3, <1>4, ClientStill, Zenon
<1> QED BY <1>2, <1>5, Zenon DEF ClientsInv

\* No client moves.
LEMMA NoClient ==
  ASSUME NEW H, WitInv(H), WitMoves(H), ClientsInv(H), pc' = pc, loc' = loc
  PROVE  ClientsInv(H)'
<1>1. \A d \in Clients : pc'[d] = pc[d] /\ loc'[d] = loc[d] /\ ClientInv(d, H)
  BY Zenon DEF ClientsInv
<1>2. \A d \in Clients : ClientInv(d, H)'
  BY <1>1, ClientStill, Zenon
<1> QED BY <1>2, Zenon DEF ClientsInv

\* Only one execution moves.
LEMMA OneRotator ==
  ASSUME NEW H, WitInv(H), WitMoves(H), RotatorsInv(H), NEW r \in Rotators,
         NEW l \in {"idle", "before", "observe"} \cup Observed, NEW x \in RotationLocals,
         rpc' = [rpc EXCEPT ![r] = l], rloc' = [rloc EXCEPT ![r] = x],
         RotInv(r, H)'
  PROVE  RotatorsInv(H)'
<1>1. rpc \in [Rotators -> {"idle", "before", "observe"} \cup Observed] /\ rloc \in [Rotators -> RotationLocals]
  BY Zenon DEF RotatorsInv
<1>2. rpc' \in [Rotators -> {"idle", "before", "observe"} \cup Observed] /\ rloc' \in [Rotators -> RotationLocals]
  BY <1>1, Zenon
<1>3. \A d \in Rotators \ {r} : rpc'[d] = rpc[d] /\ rloc'[d] = rloc[d]
  BY <1>1, Zenon
<1>4. \A d \in Rotators : RotInv(d, H)
  BY Zenon DEF RotatorsInv
<1>5. \A d \in Rotators \ {r} : RotInv(d, H)'
  BY <1>3, <1>4, RotatorStill, Zenon
<1> QED BY <1>2, <1>5, Zenon DEF RotatorsInv

\* No execution moves.
LEMMA NoRotator ==
  ASSUME NEW H, WitInv(H), WitMoves(H), RotatorsInv(H), rpc' = rpc, rloc' = rloc
  PROVE  RotatorsInv(H)'
<1>1. \A d \in Rotators : rpc'[d] = rpc[d] /\ rloc'[d] = rloc[d] /\ RotInv(d, H)
  BY Zenon DEF RotatorsInv
<1>2. \A d \in Rotators : RotInv(d, H)'
  BY <1>1, RotatorStill, Zenon
<1> QED BY <1>2, Zenon DEF RotatorsInv

LateOK == IsFiniteSet(late) /\ Cardinality(late) <= MaxLate /\ \A q \in late : LateInv(q)

\* What a step must show beside its own change.
LEMMA Together ==
  ASSUME NEW H, RInv(H), WitMoves(H), WitInv(H)', ClientsInv(H)', RotatorsInv(H)', LateOK',
         \A s \in settled' : s \in settled \/ SettledInv(s, H)',
         \A t \in rlate' : t \in rlate \/ TransitionInv(t)',
         \A h \in rotated' : h \in rotated \/ (h \in Journal /\ Upheld("new", h, H)')
  PROVE  RInv(H)'
<1>1. /\ WitInv(H) /\ (\A s \in settled : SettledInv(s, H)) /\ (\A t \in rlate : TransitionInv(t))
      /\ \A h \in rotated : h \in Journal /\ Upheld("new", h, H)
  BY Zenon DEF RInv
<1>2. \A s \in settled' : SettledInv(s, H)'
  BY <1>1, SettledStill, Zenon
<1>3. \A t \in rlate' : TransitionInv(t)'
  BY <1>1, TransitionStill, Zenon
<1>4. \A h \in rotated' : h \in Journal /\ Upheld("new", h, H)'
  <2>1. "new" \in Policies
    BY Zenon DEF Policies
  <2> QED BY <1>1, <2>1, StillUpheld, Zenon
<1> QED BY <1>2, <1>3, <1>4, Zenon DEF RInv, LateOK

-----------------------------------------------------------------------------
(* The clients.                                                            *)

\* Heads the clients start from.
LEMMA KnownHeads ==
  /\ <<>> \in Journal /\ Enrolled \in Journal /\ NoLocals \in ClientLocals
  /\ \A c \in Clients : Entry[c] \subseteq Contents
<1>1. <<>> \in Seq(Contents) /\ Len(<<>>) = 0
  OBVIOUS
<1>2. <<>> \in Journal
  BY <1>1, JournalAssumption DEF Journal
<1>3. Enrolled \in Journal
  <2>1. Elements(Enrolled) \subseteq Contents
    BY Zenon DEF Contents
  <2>2. Enrolled \in Seq(Contents)
    BY <2>1, JournalAssumption
  <2> QED BY <2>2, JournalAssumption, Zenon DEF Journal
<1>4. NoLocals \in ClientLocals
  BY <1>2, Zenon DEF NoLocals, ClientLocals
<1>5. \A c \in Clients : Entry[c] \subseteq Contents
  BY Zenon DEF Contents
<1> QED BY <1>2, <1>3, <1>4, <1>5, Zenon

\* A witness under its ACTIVE policy takes a longer head.
LEMMA Grows ==
  ASSUME NEW H, WitInv(H), NEW w \in Witnesses, NEW p \in Policies, Readable(w, p),
         NEW n \in Journal, IsPrefix(wit[w].head, n), wit' = Saved(w, wit[w].policy, n)
  PROVE  WitMoves(H) /\ WitInv(H)' /\ wit'[w].head = n
<1>1. H \in Journal /\ wit \in [Witnesses -> Witness] /\ Kept \subseteq Witnesses
  BY SharedFacts, Zenon DEF WitInv
<1>2. wit[w] \in Witness /\ \A v \in Witnesses : wit[v].head \in Journal
  BY <1>1, Zenon DEF Witness
<1>3. [policy |-> wit[w].policy, head |-> n, ver |-> wit[w].ver + 1] \in Witness
  BY <1>2 DEF Witness
<1>4. wit' \in [Witnesses -> Witness]
  BY <1>1, <1>3, Zenon DEF Saved
<1>5. /\ wit'[w].head = n /\ wit'[w].policy = wit[w].policy
      /\ \A v \in Witnesses \ {w} : wit'[v] = wit[v]
  BY <1>1, Zenon DEF Saved
<1>6. \A v \in Witnesses : wit'[v].policy = wit[v].policy /\ IsPrefix(wit[v].head, wit'[v].head)
  BY <1>2, <1>5, PrefixSelf, Zenon
<1>7. \A v \in Kept : (OldAt(v)' <=> OldAt(v)) /\ (NewAt(v)' <=> NewAt(v))
  BY <1>1, <1>6, Zenon DEF OldAt, NewAt
<1>8. OldAt(w) \/ NewAt(w)
  BY Zenon DEF Readable, OldAt, NewAt, Policies
<1>9. WitMoves(H)
  BY <1>4, <1>6, <1>7, Zenon DEF WitMoves
<1>10. \A v \in Kept : ~OldAt(v)' /\ ~NewAt(v)' => wit'[v].policy = Joint(H) /\ wit'[v].head = H
  BY <1>1, <1>5, <1>7, <1>8, Zenon DEF WitInv
<1>11. \A v \in Kept : ~OldAt(v)' => \A u \in Kept : IsPrefix(H, wit'[u].head)
  BY <1>1, <1>7, <1>9, StillPast, Zenon DEF WitInv
<1>12. WitInv(H)'
  BY <1>1, <1>4, <1>7, <1>10, <1>11, Zenon DEF WitInv
<1> QED BY <1>5, <1>9, <1>12, Zenon

\* What a client has launched continues the head it was observed at.
LEMMA RequestOK ==
  ASSUME NEW H, NEW c \in Clients, ClientInv(c, H), Launched(c), NEW o \in ToAdvance(c)
  PROVE  o \in loc[c].seen /\ o \in Observation /\ o.head = loc[c].prev /\ LateInv(Request(c, o))
<1>1. loc[c] \in ClientLocals /\ IsPrefix(loc[c].prev, loc[c].next) /\ Bound[c] \in Policies
  BY QuorumAssumption, Zenon DEF ClientInv
<1>2. o \in loc[c].seen /\ o.head = loc[c].prev
  BY Zenon DEF ToAdvance, Launched, Candidates, Holding, Behind, Outside
<1>3. o \in Observation /\ loc[c].next \in Journal
  BY <1>1, <1>2, Zenon DEF ClientLocals
<1>4. Request(c, o) \in HeadRequest /\ Request(c, o).head = o.head /\ Request(c, o).next = loc[c].next
  BY <1>1, <1>3, Zenon DEF Request, HeadRequest, Observation
<1> QED BY <1>1, <1>2, <1>3, <1>4, Zenon DEF LateInv

\* A call that returns leaves requests behind and nothing else.
LEMMA Leaves ==
  ASSUME NEW H, RInv(H), WitMoves(H), NEW c \in Clients, Leave(c)
  PROVE  ClientsInv(H)' /\ LateOK'
<1>1. ClientsInv(H) /\ WitInv(H) /\ ClientInv(c, H) /\ LateOK
  BY Zenon DEF RInv, ClientsInv, LateOK
<1>2. pc' = [pc EXCEPT ![c] = "idle"] /\ loc' = [loc EXCEPT ![c] = NoLocals]
  BY Zenon DEF Leave
<1>3. pc'[c] = "idle" /\ loc'[c] = NoLocals
  BY <1>1, <1>2, Zenon DEF ClientsInv
<1>4. ClientInv(c, H)'
  <2>1. /\ NoLocals.seen = {} /\ NoLocals.ok = {} /\ NoLocals.prev = <<>> /\ NoLocals.next = <<>>
    BY Zenon DEF NoLocals
  <2>2. IsPrefix(<<>>, <<>>)
    BY KnownHeads, PrefixSelf, Zenon
  <2> QED BY <1>3, <2>1, <2>2, KnownHeads, Zenon DEF ClientInv
<1>5. ClientsInv(H)'
  <2>1. "idle" \in {"idle", "load", "advance", "converge"} /\ NoLocals \in ClientLocals
    BY KnownHeads, Zenon
  <2> QED BY <1>1, <1>2, <1>4, <2>1, OneClient, Zenon
<1> DEFINE X == {x \in ToAdvance(c) : Launched(c) /\ x.wit \notin loc[c].done}
           R == {Request(c, o) : o \in X}
           f == [o \in X |-> Request(c, o)]
<1>6. PICK rest \in SUBSET R : Cardinality(late \cup rest) <= MaxLate /\ late' = late \cup rest
  BY Zenon DEF Leave
<1>7. \A o \in X : o \in loc[c].seen /\ LateInv(Request(c, o))
  BY <1>1, RequestOK, Zenon
<1>8. IsFiniteSet(X)
  <2>1. loc[c].seen \in SUBSET Observation /\ \A o, q \in loc[c].seen : o.wit = q.wit => o = q
    BY <1>1, Zenon DEF ClientInv, ClientLocals
  <2>2. IsFiniteSet(loc[c].seen)
    BY <2>1, CountWitnesses, Zenon
  <2> HIDE DEF X
  <2>3. X \in SUBSET loc[c].seen
    BY <1>7, Zenon
  <2> QED BY <2>2, <2>3, FS_Subset, Zenon
<1>9. IsFiniteSet(R)
  <2>1. f \in Surjection(X, R)
    <3> HIDE DEF X
    <3>1. f \in [X -> R] /\ \A y \in R : \E o \in X : f[o] = y
      BY Zenon
    <3> HIDE DEF f, R
    <3> QED BY <3>1, Zenon DEF Surjection
  <2> HIDE DEF f, R, X
  <2> QED BY <1>8, <2>1, FS_Surjection, Zenon
<1>10. IsFiniteSet(late') /\ Cardinality(late') <= MaxLate
  <2> HIDE DEF X, R
  <2>1. IsFiniteSet(rest)
    BY <1>6, <1>9, FS_Subset, Zenon
  <2> QED BY <1>1, <1>6, <2>1, FS_Union, Zenon DEF LateOK
<1>11. \A q \in late' : LateInv(q)'
  <2> TAKE q \in late'
  <2>1. CASE q \in late
    BY <1>1, <2>1, Zenon DEF LateOK, LateInv
  <2>2. CASE q \notin late
    <3>1. PICK o \in X : q = Request(c, o)
      BY <1>6, <2>2, Zenon
    <3>2. LateInv(q)
      BY <1>7, <3>1, Zenon
    <3> QED BY <3>2, Zenon DEF LateInv
  <2> QED BY <2>1, <2>2, Zenon
<1> QED BY <1>5, <1>10, <1>11, Zenon DEF LateOK

\* A step of client c that launches nothing and settles nothing.
LEMMA QuietClient ==
  ASSUME NEW H, RInv(H), WitMoves(H), WitInv(H)', NEW c \in Clients,
         NEW l \in {"idle", "load", "advance", "converge"}, NEW x \in ClientLocals,
         pc' = [pc EXCEPT ![c] = l], loc' = [loc EXCEPT ![c] = x],
         ClientInv(c, H)', UNCHANGED <<late, settled, rvars>>
  PROVE  RInv(H)'
<1>1. ClientsInv(H) /\ WitInv(H) /\ RotatorsInv(H) /\ LateOK
  BY Zenon DEF RInv, LateOK
<1>2. ClientsInv(H)'
  BY <1>1, OneClient, Zenon
<1>3. late' = late /\ settled' = settled /\ rpc' = rpc /\ rloc' = rloc /\ rlate' = rlate /\ rotated' = rotated
  BY Zenon DEF rvars
<1>4. RotatorsInv(H)'
  BY <1>1, <1>3, NoRotator, Zenon
<1>5. LateOK'
  BY <1>1, <1>3, Zenon DEF LateOK, LateInv
<1> QED BY <1>2, <1>3, <1>4, <1>5, Together, Zenon

\* Begin: the call starts from a head that is known.
LEMMA BeginInd ==
  ASSUME NEW H, RInv(H), NEW c \in Clients, NEW op \in Ops, Begin(c, op), UNCHANGED rvars
  PROVE  RInv(H)'
<1>1. ClientsInv(H) /\ WitInv(H) /\ ClientInv(c, H) /\ \A s \in settled : s.head \in Journal
  BY Zenon DEF RInv, ClientsInv, SettledInv
<1>2. /\ UNCHANGED <<wit, late, settled>> /\ pc[c] = "idle" /\ pc' = [pc EXCEPT ![c] = op]
      /\ op \in {"load", "advance", "converge"}
      /\ loc[c] = NoLocals /\ pc \in [Clients -> {"idle", "load", "advance", "converge"}]
      /\ loc \in [Clients -> ClientLocals]
  BY <1>1, JournalAssumption, Zenon DEF Begin, ClientInv, ClientsInv
<1>3. WitMoves(H) /\ WitInv(H)'
  BY <1>1, <1>2, StillMoves, Zenon
<1>4. PICK a \in Journal, b \in Journal :
          /\ IsPrefix(a, b) /\ (op # "load" => b # <<>>)
          /\ loc' = [loc EXCEPT ![c] = [NoLocals EXCEPT !.prev = a, !.next = b]]
  <2>1. CASE op = "load"
    <3>1. loc' = loc
      BY <2>1, Zenon DEF Begin
    <3>2. NoLocals = [NoLocals EXCEPT !.prev = <<>>, !.next = <<>>]
      <4>1. NoLocals.prev = <<>> /\ NoLocals.next = <<>>
        BY Zenon DEF NoLocals
      <4> QED BY <4>1, KnownHeads, Zenon DEF ClientLocals
    <3>3. loc' = [loc EXCEPT ![c] = [NoLocals EXCEPT !.prev = <<>>, !.next = <<>>]]
      BY <1>2, <3>1, <3>2, Zenon
    <3>4. IsPrefix(<<>>, <<>>)
      BY KnownHeads, PrefixSelf, Zenon
    <3> QED BY <2>1, <3>3, <3>4, KnownHeads, Zenon
  <2>2. CASE op # "load"
    <3>1. PICK h \in {<<>>, Enrolled} \cup {s.head : s \in settled}, v \in Entry[c] :
              Len(h) < MaxLength /\ loc' = [loc EXCEPT ![c].prev = h, ![c].next = Append(h, v)]
      BY <2>2, Zenon DEF Begin
    <3>2. h \in Journal /\ v \in Contents
      BY <1>1, KnownHeads, Zenon
    <3>3. Append(h, v) \in Journal /\ Append(h, v) # <<>> /\ IsPrefix(h, Append(h, v))
      BY <3>1, <3>2, NextHead, Zenon
    <3>4. loc' = [loc EXCEPT ![c] = [NoLocals EXCEPT !.prev = h, !.next = Append(h, v)]]
      BY <1>2, <3>1, ZenonT(30)
    <3> QED BY <3>2, <3>3, <3>4, Zenon
  <2> QED BY <2>1, <2>2, Zenon
<1> DEFINE x == [NoLocals EXCEPT !.prev = a, !.next = b]
<1>5. x \in ClientLocals /\ x.prev = a /\ x.next = b /\ x.seen = {} /\ x.ok = {}
  BY KnownHeads, Zenon DEF NoLocals, ClientLocals
<1>6. loc'[c] = x /\ pc'[c] = op
  BY <1>2, <1>4, Zenon
<1> HIDE DEF x
<1>7. ClientInv(c, H)'
  BY <1>2, <1>4, <1>5, <1>6, ZenonT(30) DEF ClientInv
<1>8. loc' = [loc EXCEPT ![c] = x]
  BY <1>4, Zenon DEF x
<1> QED BY <1>2, <1>3, <1>5, <1>7, <1>8, QuietClient, Zenon

\* Ask: a member vouches for the head it answers with.
LEMMA AskInd ==
  ASSUME NEW H, RInv(H), NEW c \in Clients, NEW w \in Witnesses, Ask(c, w), UNCHANGED rvars
  PROVE  RInv(H)'
<1>1. ClientsInv(H) /\ WitInv(H) /\ ClientInv(c, H)
  BY Zenon DEF RInv, ClientsInv
<1>2. /\ UNCHANGED <<wit, pc, late, settled>> /\ pc[c] # "idle" /\ w \in MembersOf(c) \ loc[c].asked
      /\ pc \in [Clients -> {"idle", "load", "advance", "converge"}]
      /\ loc \in [Clients -> ClientLocals] /\ loc[c] \in ClientLocals
  BY <1>1, Zenon DEF Ask, ClientInv, ClientsInv
<1>3. WitMoves(H) /\ WitInv(H)'
  BY <1>1, <1>2, StillMoves, Zenon
<1> DEFINE ob == [wit |-> w, head |-> wit[w].head, ver |-> wit[w].ver]
<1>4. ob \in Observation /\ wit[w].head \in Journal
  BY <1>1, Zenon DEF WitInv, Witness, Observation
<1>5. PICK S \in SUBSET {ob} :
          /\ S # {} => Readable(w, Bound[c])
          /\ loc' = [loc EXCEPT ![c] = [loc[c] EXCEPT !.asked = @ \cup {w}, !.seen = @ \cup S]]
  <2>1. CASE /\ Readable(w, Bound[c])
             /\ loc' = [loc EXCEPT ![c].asked = @ \cup {w}, ![c].seen = @ \cup {ob}]
    <3>1. loc' = [loc EXCEPT ![c] = [loc[c] EXCEPT !.asked = @ \cup {w}, !.seen = @ \cup {ob}]]
      BY <1>2, <2>1, Zenon
    <3> QED BY <2>1, <3>1, Zenon
  <2>2. CASE loc' = [loc EXCEPT ![c].asked = @ \cup {w}]
    <3>1. loc' = [loc EXCEPT ![c] = [loc[c] EXCEPT !.asked = @ \cup {w}, !.seen = @ \cup {}]]
      BY <1>2, <2>2, Zenon DEF ClientLocals
    <3> QED BY <3>1, Zenon
  <2> QED BY <2>1, <2>2, Zenon DEF Ask
<1> DEFINE x == [loc[c] EXCEPT !.asked = @ \cup {w}, !.seen = @ \cup S]
<1>6. /\ x \in ClientLocals /\ x.prev = loc[c].prev /\ x.next = loc[c].next /\ x.ok = loc[c].ok
      /\ x.asked = loc[c].asked \cup {w} /\ x.seen = loc[c].seen \cup S
  BY <1>2, <1>4, Zenon DEF ClientLocals
<1>7. loc'[c] = x /\ pc'[c] = pc[c] /\ pc' = [pc EXCEPT ![c] = pc[c]]
  BY <1>2, <1>5, Zenon
<1> HIDE DEF x
<1>8. Readable(w, Bound[c]) => Vouches(Bound[c], w, wit[w].head, H)
  <2> HAVE Readable(w, Bound[c])
  <2>1. Bound[c] \in Policies /\ w \in Members[Bound[c]]
    BY <1>2, QuorumAssumption, Zenon DEF MembersOf
  <2>2. IsPrefix(wit[w].head, wit[w].head)
    BY <1>4, PrefixSelf, Zenon
  <2>3. CASE Bound[c] = "old"
    BY <2>1, <2>2, <2>3, Zenon DEF Vouches, Readable, OldAt
  <2>4. CASE Bound[c] = "new"
    <3>1. NewAt(w) /\ ~OldAt(w)
      BY <2>4 DEF Readable, NewAt, OldAt, Active
    <3>2. w \in Kept => IsPrefix(H, wit[w].head)
      BY <1>1, <3>1, Zenon DEF WitInv
    <3> QED BY <2>1, <2>2, <2>4, <3>1, <3>2, Zenon DEF Vouches
  <2> QED BY <2>1, <2>3, <2>4, Zenon DEF Policies
<1>9. \A o \in S : o.wit = w /\ Vouches(Bound[c], o.wit, o.head, H)
  <2> TAKE o \in S
  <2>1. o = ob /\ ob.wit = w /\ ob.head = wit[w].head
    BY <1>5, Zenon
  <2> QED BY <1>5, <1>8, <2>1, Zenon
<1>10. /\ \A o \in loc[c].seen : o.wit \in loc[c].asked /\ Vouches(Bound[c], o.wit, o.head, H)
       /\ \A o, q \in loc[c].seen : o.wit = q.wit => o = q
       /\ \A h \in {loc[c].next} : \A v \in loc[c].ok : Vouches(Bound[c], v, h, H)
       /\ IsPrefix(loc[c].prev, loc[c].next) /\ (pc[c] \in {"advance", "converge"} => loc[c].next # <<>>)
       /\ pc[c] \in {"idle", "load", "advance", "converge"}
  BY <1>1, Zenon DEF ClientInv
<1>11. \A o \in x.seen : o.wit \in x.asked /\ Vouches(Bound[c], o.wit, o.head, H)
  BY <1>6, <1>9, <1>10, Zenon
<1>12. \A o, q \in x.seen : o.wit = q.wit => o = q
  <2>1. \A o, q \in S : o = q
    BY <1>5, Zenon
  <2>2. \A o \in S, q \in loc[c].seen : o.wit # q.wit
    BY <1>2, <1>9, <1>10, Zenon
  <2> QED BY <1>6, <1>10, <2>1, <2>2, Zenon
<1>13. \A p, v, h : Vouches(p, v, h, H) => Vouches(p, v, h, H)'
  BY <1>2, Zenon DEF Vouches, OldAt, NewAt
<1>14. ClientInv(c, H)'
  BY <1>2, <1>6, <1>7, <1>10, <1>11, <1>12, <1>13, Zenon DEF ClientInv
<1>15. loc' = [loc EXCEPT ![c] = x]
  BY <1>5, Zenon DEF x
<1>16. pc' = [pc EXCEPT ![c] = pc[c]] /\ pc[c] \in {"idle", "load", "advance", "converge"}
  BY <1>7, <1>10, Zenon
<1> QED BY <1>2, <1>3, <1>6, <1>14, <1>15, <1>16, QuietClient, Zenon

\* A step in which client c leaves, perhaps with a head that is settled.
LEMMA LeaveInd ==
  ASSUME NEW H, RInv(H), NEW c \in Clients, wit' = wit, Leave(c), UNCHANGED rvars,
         \A s \in settled' : s \in settled \/ SettledInv(s, H)
  PROVE  RInv(H)'
<1>1. WitInv(H) /\ RotatorsInv(H)
  BY Zenon DEF RInv
<1>2. WitMoves(H) /\ WitInv(H)'
  BY <1>1, StillMoves, Zenon
<1>3. ClientsInv(H)' /\ LateOK'
  BY <1>2, Leaves, Zenon
<1>4. rpc' = rpc /\ rloc' = rloc /\ rlate' = rlate /\ rotated' = rotated
  BY Zenon DEF rvars
<1>5. RotatorsInv(H)'
  BY <1>1, <1>2, <1>4, NoRotator, Zenon
<1>6. \A s \in settled' : s \in settled \/ SettledInv(s, H)'
  BY <1>1, <1>2, SettledStill, Zenon
<1> QED BY <1>2, <1>3, <1>4, <1>5, <1>6, Together, Zenon

\* LoadReturns: a head that a quorum answered with is upheld.
LEMMA LoadInd ==
  ASSUME NEW H, RInv(H), NEW c \in Clients, LoadReturns(c), UNCHANGED rvars
  PROVE  RInv(H)'
<1>1. ClientsInv(H) /\ WitInv(H) /\ ClientInv(c, H) /\ LateOK /\ Bound[c] \in Policies
  BY QuorumAssumption, Zenon DEF RInv, ClientsInv, LateOK
<1>2. /\ UNCHANGED <<wit, late>>
      /\ pc' = [pc EXCEPT ![c] = "idle"] /\ loc' = [loc EXCEPT ![c] = NoLocals]
  BY Zenon DEF LoadReturns
<1>3. Leave(c)
  <2>1. late \cup {} = late /\ {} \in SUBSET {Request(c, o) : o \in {x \in ToAdvance(c) : Launched(c) /\ x.wit \notin loc[c].done}}
    BY Zenon
  <2> QED BY <1>1, <1>2, <2>1, Zenon DEF Leave, LateOK
<1>4. PICK o \in loc[c].seen :
          /\ Cardinality(Holding(c, o.head)) >= Quorum(c)
          /\ IF o.head = <<>> THEN UNCHANGED settled ELSE Settle(c, o.head)
  BY Zenon DEF LoadReturns
<1>5. /\ loc[c].seen \in SUBSET Observation /\ o.head \in Journal
      /\ \A q \in loc[c].seen : Vouches(Bound[c], q.wit, q.head, H)
      /\ \A q, r \in loc[c].seen : q.wit = r.wit => q = r
  BY <1>1, Zenon DEF ClientInv, ClientLocals, Observation
<1>6. Upheld(Bound[c], o.head, H)
  <2> DEFINE S == Holding(c, o.head)
             Q == {q.wit : q \in S}
  <2>1. S \subseteq loc[c].seen /\ \A q \in S : q.head = o.head
    BY Zenon DEF Holding
  <2>2. Cardinality(S) \in Nat /\ Cardinality(Q) \in Nat /\ Cardinality(S) <= Cardinality(Q)
    <3>1. S \in SUBSET Observation /\ \A q, r \in S : q.wit = r.wit => q = r
      BY <1>5, <2>1, Zenon
    <3> HIDE DEF S
    <3> QED BY <3>1, CountWitnesses, Zenon
  <2>3. Cardinality(Q) >= Threshold[Bound[c]]
    <3>1. Threshold[Bound[c]] \in Nat /\ Cardinality(S) >= Threshold[Bound[c]]
      BY <1>1, <1>4, SharedFacts, Zenon DEF Quorum
    <3> HIDE DEF S, Q
    <3> QED BY <2>2, <3>1
  <2>4. \A w \in Q : Vouches(Bound[c], w, o.head, H)
    <3> TAKE w \in Q
    <3>1. PICK q \in S : w = q.wit
      BY Zenon
    <3> HIDE DEF S, Q
    <3> QED BY <1>5, <2>1, <3>1, Zenon
  <2>5. Q \in SUBSET Members[Bound[c]]
    <3> HIDE DEF Q
    <3> QED BY <2>4, Zenon DEF Vouches
  <2> HIDE DEF Q
  <2> QED BY <2>3, <2>4, <2>5, Zenon DEF Upheld
<1>7. \A s \in settled' : s \in settled \/ SettledInv(s, H)
  <2>1. CASE o.head = <<>>
    BY <1>4, <2>1, Zenon
  <2>2. CASE o.head # <<>>
    <3> TAKE s \in settled'
    <3>1. s \in settled \/ s = [head |-> o.head, policy |-> Bound[c]]
      BY <1>4, <2>2, Zenon DEF Settle
    <3>2. CASE s = [head |-> o.head, policy |-> Bound[c]]
      <4>1. s.head = o.head /\ s.policy = Bound[c]
        BY <3>2, Zenon
      <4> QED BY <1>1, <1>5, <1>6, <2>2, <4>1, Zenon DEF SettledInv
    <3> QED BY <3>1, <3>2, Zenon
  <2> QED BY <2>1, <2>2, Zenon
<1> QED BY <1>2, <1>3, <1>7, LeaveInd, Zenon

\* Advance: a member takes the next head, or does not; what it took it vouches for.
LEMMA AdvanceInd ==
  ASSUME NEW H, RInv(H), NEW c \in Clients, NEW o \in loc[c].seen, Advance(c, o), UNCHANGED rvars
  PROVE  RInv(H)'
<1>1. ClientsInv(H) /\ WitInv(H) /\ ClientInv(c, H) /\ Bound[c] \in Policies
  BY QuorumAssumption, Zenon DEF RInv, ClientsInv
<1>2. /\ UNCHANGED <<pc, late, settled>> /\ Launched(c) /\ o \in ToAdvance(c)
      /\ pc[c] \in {"idle", "load", "advance", "converge"}
      /\ pc \in [Clients -> {"idle", "load", "advance", "converge"}]
      /\ loc \in [Clients -> ClientLocals] /\ loc[c] \in ClientLocals
  BY <1>1, Zenon DEF Advance, ClientInv, ClientsInv
<1>3. /\ o \in Observation /\ o.head = loc[c].prev /\ IsPrefix(loc[c].prev, loc[c].next)
      /\ o.wit \in Witnesses /\ loc[c].next \in Journal
      /\ Request(c, o).policy = Bound[c] /\ Request(c, o).head = o.head /\ Request(c, o).next = loc[c].next
  BY <1>1, <1>2, RequestOK, ZenonT(30) DEF ClientInv, Request, Observation, ClientLocals
<1>4. PICK K \in SUBSET {o.wit} :
          /\ loc' = [loc EXCEPT ![c] = [loc[c] EXCEPT !.done = @ \cup {o.wit}, !.ok = @ \cup K]]
          /\ \/ K = {} /\ wit' = wit
             \/ Accepts(o.wit, Request(c, o)) /\ wit' = Saved(o.wit, wit[o.wit].policy, loc[c].next)
  <2>1. CASE Accepts(o.wit, Request(c, o))
    <3>1. PICK heard \in BOOLEAN :
              loc' = [loc EXCEPT ![c].done = @ \cup {o.wit}, ![c].ok = IF heard THEN @ \cup {o.wit} ELSE @]
      BY <2>1, Zenon DEF Advance
    <3>2. wit' = Saved(o.wit, wit[o.wit].policy, loc[c].next)
      BY <1>3, <2>1, Zenon DEF Advance
    <3>3. CASE heard
      <4>1. loc' = [loc EXCEPT ![c] = [loc[c] EXCEPT !.done = @ \cup {o.wit}, !.ok = @ \cup {o.wit}]]
        BY <1>2, <3>1, <3>3, ZenonT(30)
      <4> QED BY <2>1, <3>2, <4>1, Zenon
    <3>4. CASE ~heard
      <4>1. loc' = [loc EXCEPT ![c] = [loc[c] EXCEPT !.done = @ \cup {o.wit}, !.ok = @ \cup {}]]
        BY <1>2, <3>1, <3>4, ZenonT(30) DEF ClientLocals
      <4>2. {} \in SUBSET {o.wit}
        BY Zenon
      <4> QED BY <2>1, <3>2, <4>1, <4>2, Zenon
    <3> QED BY <3>3, <3>4, ZenonT(30)
  <2>2. CASE ~Accepts(o.wit, Request(c, o))
    <3>1. loc' = [loc EXCEPT ![c].done = @ \cup {o.wit}] /\ wit' = wit
      BY <2>2, Zenon DEF Advance
    <3>2. loc' = [loc EXCEPT ![c] = [loc[c] EXCEPT !.done = @ \cup {o.wit}, !.ok = @ \cup {}]]
      BY <1>2, <3>1, Zenon DEF ClientLocals
    <3> QED BY <3>1, <3>2, Zenon
  <2> QED BY <2>1, <2>2, Zenon
<1>5. ASSUME Accepts(o.wit, Request(c, o)) PROVE Readable(o.wit, Bound[c]) /\ IsPrefix(wit[o.wit].head, loc[c].next)
  BY <1>3, <1>5, Zenon DEF Accepts
<1>6. WitMoves(H) /\ WitInv(H)' /\ (K # {} => wit'[o.wit].head = loc[c].next /\ Readable(o.wit, Bound[c]))
  <2>1. CASE K = {} /\ wit' = wit
    BY <1>1, <2>1, StillMoves, Zenon
  <2>2. CASE Accepts(o.wit, Request(c, o)) /\ wit' = Saved(o.wit, wit[o.wit].policy, loc[c].next)
    BY <1>1, <1>3, <1>5, <2>2, Grows, Zenon
  <2> QED BY <1>4, <2>1, <2>2, Zenon
<1> DEFINE x == [loc[c] EXCEPT !.done = @ \cup {o.wit}, !.ok = @ \cup K]
<1>7. /\ x \in ClientLocals /\ x.prev = loc[c].prev /\ x.next = loc[c].next /\ x.ok = loc[c].ok \cup K
      /\ x.asked = loc[c].asked /\ x.seen = loc[c].seen
  BY <1>2, <1>3, ZenonT(30) DEF ClientLocals
<1>8. loc'[c] = x /\ pc'[c] = pc[c] /\ pc' = [pc EXCEPT ![c] = pc[c]] /\ loc' = [loc EXCEPT ![c] = x]
  BY <1>2, <1>4, Zenon
<1> HIDE DEF x
<1>9. \A h \in {loc[c].next} : \A w \in K : Vouches(Bound[c], w, h, H)'
  <2> TAKE h \in {loc[c].next}
  <2> TAKE w \in K
  <2>1. w = o.wit /\ h = loc[c].next /\ wit'[w].head = h /\ Readable(w, Bound[c])
    BY <1>4, <1>6, Zenon
  <2>2. Vouches(Bound[c], w, o.head, H)
    BY <1>1, <2>1, Zenon DEF ClientInv
  <2>3. IsPrefix(h, h) /\ w \in Members[Bound[c]] /\ IsPrefix(o.head, h)
    BY <1>3, <2>1, <2>2, PrefixSelf, Zenon DEF Vouches
  <2>4. CASE Bound[c] = "old"
    <3>1. wit'[w].policy = wit[w].policy
      <4>1. wit' = Saved(o.wit, wit[o.wit].policy, loc[c].next)
        BY <1>4, Zenon
      <4> QED BY <1>1, <1>3, <2>1, <4>1, Zenon DEF Saved, WitInv
    <3>2. OldAt(w)'
      BY <2>1, <2>4, <3>1, Zenon DEF Readable, OldAt
    <3> QED BY <2>1, <2>3, <2>4, <3>2, Zenon DEF Vouches
  <2>5. CASE Bound[c] = "new"
    <3>1. Vouches(Bound[c], w, o.head, H)'
      BY <1>1, <1>3, <1>6, <2>2, StillVouches, Zenon DEF Observation
    <3>2. w \in Kept => NewAt(w)' /\ IsPrefix(H, h)
      <4>1. o.head \in Journal /\ H \in Journal /\ h \in Journal
        BY <1>1, <1>3, <2>1, Zenon DEF Observation, WitInv
      <4> QED BY <2>3, <2>5, <3>1, <4>1, PrefixTrans, Zenon DEF Vouches
    <3> QED BY <2>1, <2>3, <2>5, <3>2 DEF Vouches
  <2> QED BY <1>1, <2>4, <2>5, Zenon DEF Policies
<1>10. /\ \A q \in loc[c].seen : q.wit \in loc[c].asked /\ Vouches(Bound[c], q.wit, q.head, H)
       /\ \A q, r \in loc[c].seen : q.wit = r.wit => q = r
       /\ \A h \in {loc[c].next} : \A v \in loc[c].ok : Vouches(Bound[c], v, h, H)
       /\ (pc[c] \in {"advance", "converge"} => loc[c].next # <<>>)
       /\ pc[c] # "idle"
  BY <1>1, Zenon DEF ClientInv, Advance
<1>11. \A q \in loc[c].seen : q.head \in Journal
  BY <1>2, Zenon DEF ClientLocals, Observation
<1>12. /\ \A q \in loc[c].seen : Vouches(Bound[c], q.wit, q.head, H)'
       /\ \A h \in {loc[c].next} : \A v \in loc[c].ok : Vouches(Bound[c], v, h, H)'
  BY <1>1, <1>3, <1>6, <1>10, <1>11, StillVouches, Zenon
<1>13. ClientInv(c, H)'
  BY <1>2, <1>3, <1>7, <1>8, <1>9, <1>10, <1>12, Zenon DEF ClientInv
<1> QED BY <1>2, <1>6, <1>7, <1>8, <1>13, QuietClient, Zenon

\* AdvanceReturns: a head that a quorum took, or had, is upheld.
LEMMA AdvanceReturnsInd ==
  ASSUME NEW H, RInv(H), NEW c \in Clients, AdvanceReturns(c), UNCHANGED rvars
  PROVE  RInv(H)'
<1>1. WitInv(H) /\ ClientInv(c, H) /\ Bound[c] \in Policies
  BY QuorumAssumption, Zenon DEF RInv, ClientsInv
<1>2. /\ wit' = wit /\ Leave(c) /\ Settle(c, loc[c].next) /\ Succeeded(c)
      /\ pc[c] \in {"advance", "converge"}
  BY Zenon DEF AdvanceReturns
<1>3. PICK h \in {loc[c].next} : h = loc[c].next
  BY Zenon
<1>4. h \in Journal /\ h # <<>>
  BY <1>1, <1>2, <1>3 DEF ClientInv, ClientLocals
<1>5. Upheld(Bound[c], h, H)
  <2> DEFINE Q == loc[c].ok \cup (IF pc[c] = "converge" THEN {o.wit : o \in Holding(c, h)} ELSE {})
  <2>1. Cardinality(Q) >= Threshold[Bound[c]]
    BY <1>2, <1>3, Zenon DEF Succeeded, Quorum
  <2>2. \A w \in Q : Vouches(Bound[c], w, h, H)
    <3> TAKE w \in Q
    <3>1. CASE w \in loc[c].ok
      BY <1>1, <1>3, <3>1, Zenon DEF ClientInv
    <3>2. CASE w \notin loc[c].ok
      <4>1. PICK o \in Holding(c, h) : w = o.wit
        BY <3>2, Zenon
      <4>2. o \in loc[c].seen /\ o.head = h
        BY <4>1, Zenon DEF Holding
      <4> QED BY <1>1, <4>1, <4>2, Zenon DEF ClientInv
    <3> QED BY <3>1, <3>2, Zenon
  <2> HIDE DEF Q
  <2>3. Q \in SUBSET Members[Bound[c]]
    BY <2>2, Zenon DEF Vouches
  <2> QED BY <2>1, <2>2, <2>3, Zenon DEF Upheld
<1>6. \A s \in settled' : s \in settled \/ SettledInv(s, H)
  <2> TAKE s \in settled'
  <2>1. s \in settled \/ s = [head |-> h, policy |-> Bound[c]]
    BY <1>2, <1>3, Zenon DEF Settle
  <2>2. CASE s = [head |-> h, policy |-> Bound[c]]
    <3>1. s.head = h /\ s.policy = Bound[c]
      BY <2>2, Zenon
    <3> QED BY <1>1, <1>4, <1>5, <3>1, Zenon DEF SettledInv
  <2> QED BY <2>1, <2>2, Zenon
<1> QED BY <1>2, <1>6, LeaveInd, Zenon

\* A request of a client that has gone still continues the head it finds.
LEMMA LateArrivesInd ==
  ASSUME NEW H, RInv(H), NEW q \in late, LateArrives(q), UNCHANGED rvars
  PROVE  RInv(H)'
<1>1. WitInv(H) /\ ClientsInv(H) /\ RotatorsInv(H) /\ LateOK /\ LateInv(q)
  BY Zenon DEF RInv, LateOK
<1>2. /\ UNCHANGED <<pc, loc, settled>> /\ late' = late \ {q}
      /\ wit' = IF Accepts(q.wit, q) THEN Saved(q.wit, wit[q.wit].policy, q.next) ELSE wit
  BY Zenon DEF LateArrives
<1>3. q.wit \in Witnesses /\ q.policy \in Policies /\ q.next \in Journal /\ IsPrefix(q.head, q.next)
  BY <1>1 DEF LateInv, HeadRequest
<1>4. WitMoves(H) /\ WitInv(H)'
  <2>1. CASE Accepts(q.wit, q)
    <3>1. Readable(q.wit, q.policy) /\ IsPrefix(wit[q.wit].head, q.next)
      BY <1>3, <2>1, Zenon DEF Accepts
    <3> QED BY <1>1, <1>2, <1>3, <2>1, <3>1, Grows, Zenon
  <2>2. CASE ~Accepts(q.wit, q)
    BY <1>1, <1>2, <2>2, StillMoves, Zenon
  <2> QED BY <2>1, <2>2, Zenon
<1>5. ClientsInv(H)' /\ RotatorsInv(H)'
  BY <1>1, <1>2, <1>4, NoClient, NoRotator, Zenon DEF rvars
<1>6. LateOK'
  <2>1. IsFiniteSet(late) /\ Cardinality(late) <= MaxLate
    BY <1>1, Zenon DEF LateOK
  <2>2. IsFiniteSet(late \ {q}) /\ Cardinality(late \ {q}) = Cardinality(late) - 1 /\ Cardinality(late) \in Nat
    BY <2>1, FS_RemoveElement, FS_CardinalityType, Zenon
  <2>3. Cardinality(late \ {q}) <= MaxLate
    BY <2>1, <2>2, JournalAssumption
  <2> QED BY <1>1, <1>2, <2>2, <2>3, Zenon DEF LateOK, LateInv
<1>7. settled' = settled /\ rlate' = rlate /\ rotated' = rotated
  BY <1>2, Zenon DEF rvars
<1> QED BY <1>4, <1>5, <1>6, <1>7, Together, Zenon

\* The clients and what they left behind, whatever the rotation has reached.
LEMMA ClientsInd ==
  ASSUME NEW H, RInv(H), Next, UNCHANGED rvars
  PROVE  RInv(H)'
<1>1. ASSUME NEW c \in Clients, ClientStep(c) PROVE RInv(H)'
  <2>1. ASSUME NEW op \in Ops, Begin(c, op) PROVE RInv(H)'
    BY <2>1, BeginInd, Zenon
  <2>2. ASSUME NEW w \in Witnesses, Ask(c, w) PROVE RInv(H)'
    BY <2>2, AskInd, Zenon
  <2>3. ASSUME NEW o \in loc[c].seen, Advance(c, o) PROVE RInv(H)'
    BY <2>3, AdvanceInd, Zenon
  <2>4. CASE LoadReturns(c)
    BY <2>4, LoadInd, Zenon
  <2>5. CASE AdvanceReturns(c)
    BY <2>5, AdvanceReturnsInd, Zenon
  <2>6. CASE Abandon(c)
    <3>1. wit' = wit /\ Leave(c) /\ settled' = settled
      BY <2>6, Zenon DEF Abandon
    <3> QED BY <3>1, LeaveInd, Zenon
  <2> QED BY <1>1, <2>1, <2>2, <2>3, <2>4, <2>5, <2>6, Zenon DEF ClientStep
<1> QED BY <1>1, LateArrivesInd, Zenon DEF Next

-----------------------------------------------------------------------------
(* The rotation.                                                           *)

\* A step of execution r: where it goes, and what it leaves behind.
LEMMA RotatorMoves ==
  ASSUME NEW H, RInv(H), WitMoves(H), WitInv(H)', NEW r \in Rotators, NEW l, NEW x,
         rpc' = [rpc EXCEPT ![r] = l], rloc' = [rloc EXCEPT ![r] = x], RotOK(l, x, H),
         UNCHANGED <<pc, loc, late, settled>>,
         \A t \in rlate' : t \in rlate \/ TransitionInv(t),
         \A h \in rotated' : h \in rotated \/ (h \in Journal /\ Upheld("new", h, H))
  PROVE  RInv(H)'
<1>1. ClientsInv(H) /\ WitInv(H) /\ RotatorsInv(H) /\ LateOK
  BY Zenon DEF RInv, LateOK
<1>2. ClientsInv(H)'
  BY <1>1, NoClient, Zenon
<1>3. LateOK'
  BY <1>1, Zenon DEF LateOK, LateInv
<1>4. l \in {"idle", "before", "observe"} \cup Observed /\ x \in RotationLocals
  BY Zenon DEF RotOK
<1>5. rpc'[r] = l /\ rloc'[r] = x
  BY <1>1, Zenon DEF RotatorsInv
<1>6. RotOK(l, x, H)'
  BY <1>1, RotStill, Zenon
<1>7. RotInv(r, H)'
  BY <1>5, <1>6, Zenon DEF RotInv
<1>8. RotatorsInv(H)'
  BY <1>1, <1>4, <1>7, OneRotator, Zenon
<1>9. \A t \in rlate' : t \in rlate \/ TransitionInv(t)'
  BY <1>1, TransitionStill, Zenon
<1>10. \A h \in rotated' : h \in rotated \/ (h \in Journal /\ Upheld("new", h, H)')
  <2>1. "new" \in Policies
    BY Zenon DEF Policies
  <2> QED BY <1>1, <2>1, StillUpheld, Zenon
<1> QED BY <1>2, <1>3, <1>8, <1>9, <1>10, Together, Zenon

\* A step that leaves the witnesses, and all but the execution, alone.
LEMMA QuietRotator ==
  ASSUME NEW H, RInv(H), NEW r \in Rotators, NEW l, NEW x, Goto(r, l, x), RotOK(l, x, H),
         UNCHANGED <<vars, rlate, rotated>>
  PROVE  RInv(H)'
<1>1. WitInv(H) /\ UNCHANGED <<wit, pc, loc, late, settled>>
  BY Zenon DEF RInv, vars
<1>2. WitMoves(H) /\ WitInv(H)'
  BY <1>1, StillMoves, Zenon
<1> QED BY <1>1, <1>2, RotatorMoves, Zenon DEF Goto

\* What is known of an execution.
LEMMA RotatorKnows ==
  ASSUME NEW H, RInv(H), NEW r \in Rotators
  PROVE  /\ WitInv(H) /\ RotOK(rpc[r], rloc[r], H) /\ rloc[r] \in RotationLocals
         /\ rloc[r].i \in 1 .. Len(Shared) /\ rloc[r].head \in Journal /\ rloc[r].before \in Journal
         /\ rloc[r].found \in Seq(PolicyState) /\ rloc[r].votes \in SUBSET Witnesses
         /\ Current(r) \in Kept /\ Current(r) \in Witnesses /\ Current(r) = Shared[rloc[r].i]
         /\ wit[Current(r)] \in Witness /\ wit[Current(r)].head \in Journal
<1>1. WitInv(H) /\ RotOK(rpc[r], rloc[r], H) /\ rloc[r] \in RotationLocals
  BY Zenon DEF RInv, RotatorsInv, RotInv, RotOK
<1>2. /\ rloc[r].i \in 1 .. Len(Shared) /\ rloc[r].head \in Journal /\ rloc[r].before \in Journal
      /\ rloc[r].found \in Seq(PolicyState) /\ rloc[r].votes \in SUBSET Witnesses
  BY <1>1, Zenon DEF RotationLocals
<1>3. Current(r) \in Kept /\ Current(r) \in Witnesses /\ Current(r) = Shared[rloc[r].i]
  BY <1>2, SharedFacts, Zenon DEF Current
<1>4. wit[Current(r)] \in Witness /\ wit[Current(r)].head \in Journal
  BY <1>1, <1>3, Zenon DEF WitInv, Witness
<1> QED BY <1>1, <1>2, <1>3, <1>4, Zenon

\* From one shared witness to the next one, or on.
LEMMA Forwards ==
  ASSUME NEW r \in Rotators, rloc[r].i \in 1 .. Len(Shared), NEW l,
         NEW with \in RotationLocals, with.i = rloc[r].i, Forward(r, l, with)
  PROVE  \E n \in {rpc[r], l}, m \in 1 .. Len(Shared) :
             /\ Goto(r, n, [with EXCEPT !.i = m]) /\ [with EXCEPT !.i = m] \in RotationLocals
             /\ \/ with.i < Len(Shared) /\ n = rpc[r] /\ m = with.i + 1
                \/ with.i = Len(Shared) /\ n = l /\ m = 1
<1>1. Len(Shared) \in Nat \ {0}
  BY SharedFacts, Zenon
<1>2. CASE rloc[r].i < Len(Shared)
  <2>1. Goto(r, rpc[r], [with EXCEPT !.i = with.i + 1])
    BY <1>2, Zenon DEF Forward
  <2>2. with.i + 1 \in 1 .. Len(Shared) /\ [with EXCEPT !.i = with.i + 1] \in RotationLocals
    BY <1>1, <1>2 DEF RotationLocals
  <2> QED BY <1>2, <2>1, <2>2, Zenon
<1>3. CASE ~(rloc[r].i < Len(Shared))
  <2>1. Goto(r, l, [with EXCEPT !.i = 1])
    BY <1>3, Zenon DEF Forward
  <2>2. 1 \in 1 .. Len(Shared) /\ with.i = Len(Shared) /\ [with EXCEPT !.i = 1] \in RotationLocals
    BY <1>1, <1>3 DEF RotationLocals
  <2> QED BY <2>1, <2>2, Zenon
<1> QED BY <1>2, <1>3, ZenonT(30)

\* The start of an execution, and its end.
LEMMA Fresh ==
  ASSUME NEW H, NEW l \in {"idle", "before", "observe"}
  PROVE  RotOK(l, NoRotation, H)
<1>1. Len(Shared) \in Nat \ {0} /\ <<>> \in Journal
  BY SharedFacts, KnownHeads, Zenon
<1>2. /\ NoRotation \in RotationLocals /\ NoRotation.i = 1 /\ NoRotation.found = <<>> /\ NoRotation.votes = {}
      /\ Len(NoRotation.found) = 0
  BY <1>1 DEF NoRotation, RotationLocals
<1>3. l \notin Observed /\ Classified(l, 1) = 0
  BY Zenon DEF Observed, Classified
<1> QED BY <1>1, <1>2, <1>3 DEF RotOK

\* Start: an execution begins with nothing observed.
LEMMA StartInd ==
  ASSUME NEW H, RInv(H), NEW r \in Rotators, Start(r)
  PROVE  RInv(H)'
<1>1. PICK l \in {"before", "observe"} : Goto(r, l, NoRotation)
  BY Zenon DEF Start
<1>2. RotOK(l, NoRotation, H)
  BY Fresh, Zenon
<1> QED BY <1>1, <1>2, QuietRotator, Zenon DEF Start

\* ObserveBefore: nothing is relied on yet.
LEMMA ObserveBeforeInd ==
  ASSUME NEW H, RInv(H), NEW r \in Rotators, ObserveBefore(r)
  PROVE  RInv(H)'
<1>1. /\ RotOK(rpc[r], rloc[r], H) /\ rloc[r] \in RotationLocals /\ rloc[r].i \in 1 .. Len(Shared)
      /\ wit[Current(r)].head \in Journal
  BY RotatorKnows, Zenon
<1>2. PICK g \in Journal : Forward(r, "observe", [rloc[r] EXCEPT !.before = g])
  BY <1>1, Zenon DEF ObserveBefore
<1> DEFINE with == [rloc[r] EXCEPT !.before = g]
<1>3. with \in RotationLocals /\ with.i = rloc[r].i /\ with.found = rloc[r].found /\ with.votes = rloc[r].votes
  BY <1>1, Zenon DEF RotationLocals
<1> HIDE DEF with
<1>4. PICK n \in {rpc[r], "observe"}, m \in 1 .. Len(Shared) :
          /\ Goto(r, n, [with EXCEPT !.i = m]) /\ [with EXCEPT !.i = m] \in RotationLocals
          /\ \/ with.i < Len(Shared) /\ n = rpc[r] /\ m = with.i + 1
             \/ with.i = Len(Shared) /\ n = "observe" /\ m = 1
  BY <1>1, <1>2, <1>3, Forwards, Zenon DEF with
<1>5. rpc[r] = "before" /\ UNCHANGED <<vars, rlate, rotated>>
  BY Zenon DEF ObserveBefore
<1>6. RotOK(n, [with EXCEPT !.i = m], H)
  <2> DEFINE x == [with EXCEPT !.i = m]
  <2>1. x \in RotationLocals /\ x.i = m /\ x.found = rloc[r].found /\ x.votes = rloc[r].votes
    BY <1>3, <1>4, Zenon DEF RotationLocals
  <2>2. n \in {"before", "observe"} /\ n \notin Observed /\ Classified(n, m) = 0 /\ (n = "observe" => m = 1)
    BY <1>4, <1>5, Zenon DEF Observed, Classified
  <2>3. Len(rloc[r].found) = 0 /\ rloc[r].votes = {}
    BY <1>1, <1>5, Zenon DEF RotOK, Classified
  <2> HIDE DEF x
  <2>4. RotOK(n, x, H)
    BY <2>1, <2>2, <2>3 DEF RotOK
  <2> QED BY <2>4, Zenon DEF x
<1> QED BY <1>4, <1>5, <1>6, QuietRotator, Zenon

\* ObserveShared: the head has been seen on the shared witnesses so far.
LEMMA ObserveSharedInd ==
  ASSUME NEW H, RInv(H), NEW r \in Rotators, ObserveShared(r)
  PROVE  RInv(H)'
<1>1. /\ RotOK(rpc[r], rloc[r], H) /\ rloc[r] \in RotationLocals /\ rloc[r].i \in 1 .. Len(Shared)
      /\ wit[Current(r)].head \in Journal /\ Current(r) = Shared[rloc[r].i]
  BY RotatorKnows, Zenon
<1>2. PICK g \in Journal : /\ g = wit[Current(r)].head /\ (rloc[r].i > 1 => g = rloc[r].head)
                           /\ Forward(r, "classify", [rloc[r] EXCEPT !.head = g])
  BY <1>1, Zenon DEF ObserveShared
<1> DEFINE with == [rloc[r] EXCEPT !.head = g]
<1>3. /\ with \in RotationLocals /\ with.i = rloc[r].i /\ with.found = rloc[r].found
      /\ with.votes = rloc[r].votes /\ with.head = g
  BY <1>1, Zenon DEF RotationLocals
<1> HIDE DEF with
<1>4. PICK n \in {rpc[r], "classify"}, m \in 1 .. Len(Shared) :
          /\ Goto(r, n, [with EXCEPT !.i = m]) /\ [with EXCEPT !.i = m] \in RotationLocals
          /\ \/ with.i < Len(Shared) /\ n = rpc[r] /\ m = with.i + 1
             \/ with.i = Len(Shared) /\ n = "classify" /\ m = 1
  BY <1>1, <1>2, <1>3, Forwards, Zenon DEF with
<1>5. rpc[r] = "observe" /\ UNCHANGED <<vars, rlate, rotated>>
  BY Zenon DEF ObserveShared
<1>6. \A k \in 1 .. rloc[r].i : IsPrefix(g, wit[Shared[k]].head)
  <2> TAKE k \in 1 .. rloc[r].i
  <2>1. CASE k = rloc[r].i
    BY <1>1, <1>2, <2>1, PrefixSelf, Zenon
  <2>2. CASE k # rloc[r].i
    <3>1. k \in 1 .. Len(Shared) /\ k < rloc[r].i /\ rloc[r].i > 1
      BY <1>1, <2>2
    <3> QED BY <1>1, <1>2, <1>5, <3>1, Zenon DEF RotOK
  <2> QED BY <2>1, <2>2, Zenon
<1>7. RotOK(n, [with EXCEPT !.i = m], H)
  <2> DEFINE x == [with EXCEPT !.i = m]
  <2>1. x \in RotationLocals /\ x.i = m /\ x.found = rloc[r].found /\ x.votes = rloc[r].votes /\ x.head = g
    BY <1>3, <1>4, Zenon DEF RotationLocals
  <2>2. /\ n \in {"observe", "classify"} /\ Classified(n, m) = 0
        /\ \A k \in 1 .. Len(Shared) : n \in Observed \/ (n = "observe" /\ k < m) => k \in 1 .. rloc[r].i
    BY <1>1, <1>3, <1>4, <1>5 DEF Observed, Classified
  <2>3. Len(rloc[r].found) = 0 /\ rloc[r].votes = {}
    BY <1>1, <1>5, Zenon DEF RotOK, Classified
  <2>4. n \in {"idle", "before", "observe"} \cup Observed
    BY <2>2, Zenon DEF Observed
  <2> HIDE DEF x
  <2>5. RotOK(n, x, H)
    BY <1>6, <2>1, <2>2, <2>3, <2>4 DEF RotOK
  <2> QED BY <2>5, Zenon DEF x
<1> QED BY <1>4, <1>5, <1>7, QuietRotator, Zenon

\* Only what was found changes.
LEMMA FoundSet ==
  ASSUME NEW y \in RotationLocals, NEW f \in Seq(PolicyState)
  PROVE  /\ [y EXCEPT !.found = f] \in RotationLocals /\ [y EXCEPT !.found = f].i = y.i
         /\ [y EXCEPT !.found = f].found = f /\ [y EXCEPT !.found = f].votes = y.votes
         /\ [y EXCEPT !.found = f].head = y.head
BY Zenon DEF RotationLocals

\* Classify: what is not OLD when it is classified never is again.
LEMMA ClassifyInd ==
  ASSUME NEW H, RInv(H), NEW r \in Rotators, Classify(r)
  PROVE  RInv(H)'
<1>1. /\ RotOK(rpc[r], rloc[r], H) /\ rloc[r] \in RotationLocals /\ rloc[r].i \in 1 .. Len(Shared)
      /\ wit[Current(r)] \in Witness /\ Current(r) = Shared[rloc[r].i] /\ rloc[r].found \in Seq(PolicyState)
  BY RotatorKnows, Zenon
<1>2. wit[Current(r)].policy \in PolicyState
  BY <1>1, Zenon DEF Witness
<1>3. PICK p \in PolicyState, l \in {"decide", "frozen"} :
          /\ p = wit[Current(r)].policy /\ l = IF rpc[r] = "classify" THEN "decide" ELSE "frozen"
          /\ Forward(r, l, [rloc[r] EXCEPT !.found = Append(rloc[r].found, p)])
  BY <1>2, Zenon DEF Classify
<1> DEFINE f == Append(rloc[r].found, p)
           with == [rloc[r] EXCEPT !.found = f]
<1>4. f \in Seq(PolicyState)
  BY <1>1, SMTT(30)
<1> HIDE DEF f
<1>5. /\ with \in RotationLocals /\ with.i = rloc[r].i /\ with.found = f
      /\ with.votes = rloc[r].votes /\ with.head = rloc[r].head
  BY <1>1, <1>4, FoundSet, Zenon
<1>6. Forward(r, l, with)
  BY <1>3, Zenon DEF f
<1> HIDE DEF with
<1>7. /\ rpc[r] \in {"classify", "reclassify"} /\ UNCHANGED <<vars, rlate, rotated>>
      /\ rpc[r] \in Observed
  BY Zenon DEF Classify, Observed
<1>8. Len(rloc[r].found) = rloc[r].i - 1 /\ rloc[r].votes = {}
  BY <1>1, <1>7, Zenon DEF RotOK, Classified
<1>9. /\ Len(with.found) = rloc[r].i
      /\ \A k \in 1 .. Len(with.found) : with.found[k] = IF k = rloc[r].i THEN p ELSE rloc[r].found[k]
  <2>1. ASSUME NEW g \in Seq(PolicyState)
        PROVE  /\ Len(Append(g, p)) = Len(g) + 1
               /\ \A k \in 1 .. Len(g) + 1 : Append(g, p)[k] = IF k = Len(g) + 1 THEN p ELSE g[k]
    OBVIOUS
  <2>2. Len(f) = Len(rloc[r].found) + 1 /\ \A k \in 1 .. Len(rloc[r].found) + 1 : f[k] = IF k = Len(rloc[r].found) + 1 THEN p ELSE rloc[r].found[k]
    BY <1>1, <2>1, Zenon DEF f
  <2> QED BY <1>1, <1>5, <1>8, <2>2
<1>10. \A k \in 1 .. Len(with.found) : with.found[k] # Active("old") => ~OldAt(Shared[k])
  <2> TAKE k \in 1 .. Len(with.found)
  <2>1. CASE k = rloc[r].i
    BY <1>1, <1>3, <1>9, <2>1, Zenon DEF OldAt
  <2>2. CASE k # rloc[r].i
    <3>1. k \in 1 .. Len(rloc[r].found) /\ with.found[k] = rloc[r].found[k]
      BY <1>1, <1>8, <1>9, <2>2
    <3> QED BY <1>1, <3>1, Zenon DEF RotOK
  <2> QED BY <2>1, <2>2, Zenon
<1>11. PICK n \in {rpc[r], l}, m \in 1 .. Len(Shared) :
          /\ Goto(r, n, [with EXCEPT !.i = m]) /\ [with EXCEPT !.i = m] \in RotationLocals
          /\ \/ with.i < Len(Shared) /\ n = rpc[r] /\ m = with.i + 1
             \/ with.i = Len(Shared) /\ n = l /\ m = 1
  BY <1>1, <1>5, <1>6, Forwards, Zenon
<1>12. RotOK(n, [with EXCEPT !.i = m], H)
  <2> DEFINE x == [with EXCEPT !.i = m]
  <2>1. /\ x \in RotationLocals /\ x.i = m /\ x.found = with.found /\ x.votes = rloc[r].votes
        /\ x.head = rloc[r].head
    BY <1>5, <1>11, Zenon DEF RotationLocals
  <2>2. /\ n \in {"classify", "reclassify", "decide", "frozen"} /\ n \in Observed
        /\ Classified(n, m) = rloc[r].i
    BY <1>1, <1>5, <1>7, <1>11 DEF Observed, Classified
  <2>3. \A k \in 1 .. Len(Shared) : IsPrefix(rloc[r].head, wit[Shared[k]].head)
    BY <1>1, <1>7, Zenon DEF RotOK
  <2> HIDE DEF x
  <2>4. RotOK(n, x, H)
    BY <1>8, <1>9, <1>10, <2>1, <2>2, <2>3, Zenon DEF RotOK
  <2> QED BY <2>4, Zenon DEF x
<1> QED BY <1>7, <1>11, <1>12, QuietRotator, Zenon

\* When none was classified as OLD, none is.
LEMMA NoneOld ==
  ASSUME NEW H, RInv(H), NEW r \in Rotators, rpc[r] \in {"decide", "frozen"},
         ~(Found(r, Active("old")) > 0)
  PROVE  \A w \in Kept : ~OldAt(w)
<1>1. RotOK(rpc[r], rloc[r], H) /\ rloc[r].found \in Seq(PolicyState)
  BY RotatorKnows, Zenon
<1>2. Len(rloc[r].found) = Len(Shared) /\ DOMAIN rloc[r].found = 1 .. Len(Shared) /\ Len(Shared) \in Nat
  BY <1>1, SharedFacts DEF RotOK, Classified
<1> DEFINE S == {k \in DOMAIN rloc[r].found : rloc[r].found[k] = Active("old")}
<1>3. S \in SUBSET (1 .. Len(Shared)) /\ IsFiniteSet(1 .. Len(Shared))
  BY <1>2, FS_Interval
<1>4. IsFiniteSet(S) /\ Cardinality(S) = Found(r, Active("old"))
  <2>1. IsFiniteSet(S)
    <3> HIDE DEF S
    <3> QED BY <1>3, FS_Subset, Zenon
  <2> QED BY <2>1, Zenon DEF Found
<1>5. S = {}
  <2> HIDE DEF S
  <2>1. Cardinality(S) \in Nat
    BY <1>4, FS_CardinalityType, Zenon
  <2>2. Cardinality(S) = 0
    BY <1>4, <2>1
  <2> QED BY <1>4, <2>2, FS_EmptySet, Zenon
<1>6. \A k \in 1 .. Len(Shared) : rloc[r].found[k] # Active("old")
  BY <1>2, <1>5, Zenon
<1>7. \A k \in 1 .. Len(Shared) : ~OldAt(Shared[k])
  BY <1>1, <1>2, <1>6, Zenon DEF RotOK
<1> QED BY <1>7, SharedFacts, Zenon

\* Decide and Frozen: an execution goes on to activate when no shared witness is OLD.
LEMMA DecideInd ==
  ASSUME NEW H, RInv(H), NEW r \in Rotators, Decide(r) \/ Frozen(r)
  PROVE  RInv(H)'
<1>1. RotOK(rpc[r], rloc[r], H) /\ rloc[r] \in RotationLocals
  BY RotatorKnows, Zenon
<1> DEFINE x == [rloc[r] EXCEPT !.found = <<>>]
<1>2. /\ x \in RotationLocals /\ x.i = rloc[r].i /\ x.found = <<>> /\ Len(x.found) = 0
      /\ x.votes = rloc[r].votes /\ x.head = rloc[r].head
  <2>1. <<>> \in Seq(PolicyState) /\ Len(<<>>) = 0
    OBVIOUS
  <2> QED BY <1>1, <2>1, FoundSet, Zenon
<1>3. /\ rpc[r] \in {"decide", "frozen"} /\ UNCHANGED <<vars, rlate, rotated>> /\ rpc[r] \in Observed
  BY Zenon DEF Decide, Frozen, Observed
<1>4. PICK l \in {"oldload", "freeze", "activate"} :
          Goto(r, l, x) /\ (l = "activate" => ~(Found(r, Active("old")) > 0))
  <2>1. Found(r, Active("old")) = 0 => ~(Found(r, Active("old")) > 0)
    OBVIOUS
  <2> QED BY <2>1, Zenon DEF Decide, Frozen
<1>5. l = "activate" => \A w \in Kept : ~OldAt(w)
  BY <1>3, <1>4, NoneOld, Zenon
<1>6. rloc[r].votes = {} /\ \A k \in 1 .. Len(Shared) : IsPrefix(rloc[r].head, wit[Shared[k]].head)
  BY <1>1, <1>3, Zenon DEF RotOK
<1>7. l \in Observed /\ Classified(l, rloc[r].i) = 0
  BY Zenon DEF Observed, Classified
<1> HIDE DEF x
<1>8. RotOK(l, x, H)
  BY <1>2, <1>5, <1>6, <1>7 DEF RotOK
<1> QED BY <1>3, <1>4, <1>8, QuietRotator, Zenon

\* A witness of the new policy vouches for the head it is read at.
LEMMA NewVouch ==
  ASSUME NEW H, WitInv(H), NEW w \in Members["new"], Readable(w, "new"), NEW h \in Journal, wit[w].head = h
  PROVE  Vouches("new", w, h, H)
<1>1. IsPrefix(h, wit[w].head)
  BY PrefixSelf, Zenon
<1>2. NewAt(w) /\ ~OldAt(w)
  BY DEF Readable, NewAt, OldAt, Active
<1>3. w \in Kept => IsPrefix(H, h)
  BY <1>2, Zenon DEF WitInv
<1> QED BY <1>1, <1>2, <1>3, Zenon DEF Vouches

\* Only the votes change.
LEMMA VotesSet ==
  ASSUME NEW y \in RotationLocals, NEW V \in SUBSET Witnesses
  PROVE  /\ [y EXCEPT !.votes = V] \in RotationLocals /\ [y EXCEPT !.votes = V].i = y.i
         /\ [y EXCEPT !.votes = V].found = y.found /\ [y EXCEPT !.votes = V].votes = V
         /\ [y EXCEPT !.votes = V].head = y.head
BY Zenon DEF RotationLocals

\* As many votes as the threshold of the new policy uphold the head.
LEMMA VotesUphold ==
  ASSUME NEW H, NEW h, NEW V \in SUBSET Witnesses, \A w \in V : Vouches("new", w, h, H),
         ~(Cardinality(V) < Threshold["new"])
  PROVE  Upheld("new", h, H)
<1>1. IsFiniteSet(V) /\ "new" \in Policies
  BY QuorumAssumption, FS_Subset, Zenon DEF Policies
<1>2. Cardinality(V) \in Nat /\ Threshold["new"] \in Nat
  BY <1>1, FS_CardinalityType, SharedFacts, Zenon
<1>3. Cardinality(V) >= Threshold["new"]
  BY <1>2
<1>4. V \in SUBSET Members["new"]
  BY Zenon DEF Vouches
<1> QED BY <1>3, <1>4, Zenon DEF Upheld

\* The labels at which an execution collects votes, and those it goes on to.
LEMMA Votes ==
  ASSUME NEW H, NEW y \in RotationLocals, NEW l \in {"oldload", "newload", "after"}, RotOK(l, y, H),
         NEW V \in SUBSET Witnesses, NEW n \in {"oldload", "newload", "after", "freeze"},
         l = "oldload" => n \in {"oldload", "freeze"}, n = "freeze" => V = {},
         n \in {"newload", "after"} => \A h \in {y.head} : \A w \in V : Vouches("new", w, h, H)
  PROVE  RotOK(n, [y EXCEPT !.votes = V], H)
<1> DEFINE x == [y EXCEPT !.votes = V]
<1>1. x \in RotationLocals /\ x.i = y.i /\ x.found = y.found /\ x.votes = V /\ x.head = y.head
  BY VotesSet, Zenon
<1>2. /\ n \in Observed /\ l \in Observed /\ Classified(n, y.i) = 0 /\ Classified(l, y.i) = 0
      /\ (l # "oldload" => l \in {"activate", "newload", "after"})
  BY Zenon DEF Observed, Classified
<1>3. /\ \A k \in 1 .. Len(Shared) : IsPrefix(y.head, wit[Shared[k]].head)
      /\ Len(y.found) = 0 /\ (l # "oldload" => \A w \in Kept : ~OldAt(w))
  BY <1>2, Zenon DEF RotOK
<1> HIDE DEF x
<1>4. RotOK(n, x, H)
  BY <1>1, <1>2, <1>3, Zenon DEF RotOK
<1> QED BY <1>4, Zenon DEF x

\* QuorumAnswers: the new quorum's answer is upheld.
LEMMA QuorumAnswersInd ==
  ASSUME NEW H, RInv(H), NEW r \in Rotators, NEW w \in Witnesses, QuorumAnswers(r, w)
  PROVE  RInv(H)'
<1>1. /\ WitInv(H) /\ RotOK(rpc[r], rloc[r], H) /\ rloc[r] \in RotationLocals
      /\ rloc[r].head \in Journal /\ rloc[r].votes \in SUBSET Witnesses
      /\ rpc \in [Rotators -> {"idle", "before", "observe"} \cup Observed]
  BY RotatorKnows, Zenon DEF RInv, RotatorsInv
<1> DEFINE p == IF rpc[r] = "oldload" THEN "old" ELSE "new"
           votes == rloc[r].votes \cup {w}
           V == IF Cardinality(votes) < Threshold[p] THEN votes ELSE {}
           with == [rloc[r] EXCEPT !.votes = V]
<1>2. /\ rpc[r] \in {"oldload", "newload"} /\ w \in Members[p] /\ Readable(w, p) /\ wit[w].head = rloc[r].head
      /\ UNCHANGED <<vars, rlate>>
      /\ rotated' = IF rpc'[r] = "idle" THEN rotated \cup {rloc[r].head} ELSE rotated
  BY Zenon DEF QuorumAnswers
<1>3. IF Cardinality(votes) < Threshold[p] THEN Goto(r, rpc[r], with)
      ELSE IF p = "old" THEN Goto(r, "freeze", with)
      ELSE IF rloc[r].before # <<>> THEN Goto(r, "after", with)
      ELSE Goto(r, "idle", NoRotation)
  BY Zenon DEF QuorumAnswers
<1>4. V \in SUBSET Witnesses /\ votes \in SUBSET Witnesses
  BY <1>1, Zenon
<1>5. rpc[r] = "newload" => \A h \in {rloc[r].head} : \A v \in votes : Vouches("new", v, h, H)
  <2> SUFFICES ASSUME rpc[r] = "newload", NEW h \in {rloc[r].head}, NEW v \in votes
               PROVE  Vouches("new", v, h, H)
    BY Zenon
  <2>1. CASE v = w
    BY <1>1, <1>2, <2>1, NewVouch, Zenon
  <2>2. CASE v \in rloc[r].votes
    BY <1>1, <2>2, Zenon DEF RotOK
  <2> QED BY <2>1, <2>2, Zenon
<1>6. rpc[r] = "newload" => \A h \in {rloc[r].head} : \A v \in V : Vouches("new", v, h, H)
  BY <1>5, Zenon
<1>7. /\ p = "old" <=> rpc[r] = "oldload"
      /\ p # "old" => p = "new" /\ rpc[r] = "newload"
      /\ ~(Cardinality(votes) < Threshold[p]) => V = {}
  BY <1>2, ZenonT(30)
<1> HIDE DEF p, votes, V
<1>8. WitMoves(H) /\ WitInv(H)' /\ UNCHANGED <<wit, pc, loc, late, settled>>
  BY <1>1, <1>2, StillMoves, Zenon DEF vars
<1>9. ASSUME NEW n \in {"oldload", "newload", "after", "freeze"}, Goto(r, n, with),
             rpc[r] = "oldload" => n \in {"oldload", "freeze"}, n = "freeze" => V = {},
             n \in {"newload", "after"} => rpc[r] = "newload"
      PROVE  RInv(H)'
  <2>1. RotOK(n, with, H)
    <3>1. rpc[r] \in {"oldload", "newload", "after"}
      BY <1>2, Zenon
    <3>2. RotOK(rpc[r], rloc[r], H) /\ rloc[r] \in RotationLocals /\ V \in SUBSET Witnesses
      BY <1>1, <1>4, Zenon
    <3>3. n \in {"newload", "after"} => \A h \in {rloc[r].head} : \A v \in V : Vouches("new", v, h, H)
      BY <1>6, <1>9, Zenon
    <3>4. /\ n \in {"oldload", "newload", "after", "freeze"}
          /\ rpc[r] = "oldload" => n \in {"oldload", "freeze"}
          /\ n = "freeze" => V = {}
      BY <1>9, Zenon
    <3>5. \A y \in RotationLocals, l \in {"oldload", "newload", "after"} :
              /\ RotOK(l, y, H) /\ (l = "oldload" => n \in {"oldload", "freeze"})
              /\ n \in {"newload", "after"} => \A h \in {y.head} : \A v \in V : Vouches("new", v, h, H)
              => RotOK(n, [y EXCEPT !.votes = V], H)
      BY <3>2, <3>4, Votes, Zenon
    <3> QED BY <3>1, <3>2, <3>3, <3>4, <3>5, Zenon
  <2>2. rpc'[r] # "idle"
    BY <1>1, <1>9, Zenon DEF Goto
  <2>3. UNCHANGED <<vars, rlate, rotated>>
    BY <1>2, <2>2, Zenon
  <2> HIDE DEF with
  <2> QED BY <1>9, <2>1, <2>3, QuietRotator, Zenon
<1>10. CASE Cardinality(votes) < Threshold[p]
  BY <1>2, <1>3, <1>9, <1>10, Zenon
<1>11. CASE ~(Cardinality(votes) < Threshold[p]) /\ p = "old"
  BY <1>3, <1>7, <1>9, <1>11, Zenon
<1>12. CASE ~(Cardinality(votes) < Threshold[p]) /\ p # "old" /\ rloc[r].before # <<>>
  BY <1>3, <1>7, <1>9, <1>12, Zenon
<1>13. CASE ~(Cardinality(votes) < Threshold[p]) /\ p # "old" /\ rloc[r].before = <<>>
  <2>1. Goto(r, "idle", NoRotation)
    BY <1>3, <1>13, Zenon
  <2>2. RotOK("idle", NoRotation, H)
    BY Fresh, Zenon
  <2>3. Upheld("new", rloc[r].head, H)
    BY <1>4, <1>5, <1>7, <1>13, VotesUphold, Zenon
  <2>4. \A h \in rotated' : h \in rotated \/ (h \in Journal /\ Upheld("new", h, H))
    BY <1>1, <1>2, <2>3, Zenon
  <2>5. \A t \in rlate' : t \in rlate \/ TransitionInv(t)
    BY <1>2, Zenon
  <2>6. rpc' = [rpc EXCEPT ![r] = "idle"] /\ rloc' = [rloc EXCEPT ![r] = NoRotation]
    BY <2>1, Zenon DEF Goto
  <2> QED BY <1>8, <2>2, <2>4, <2>5, <2>6, RotatorMoves, Zenon
<1> QED BY <1>10, <1>11, <1>12, <1>13, Zenon

\* SuccessionAnswers: so is the answer a succession returns with.
LEMMA SuccessionAnswersInd ==
  ASSUME NEW H, RInv(H), NEW r \in Rotators, NEW w \in Witnesses, SuccessionAnswers(r, w)
  PROVE  RInv(H)'
<1>1. /\ WitInv(H) /\ RotOK(rpc[r], rloc[r], H) /\ rloc[r] \in RotationLocals
      /\ rloc[r].head \in Journal /\ rloc[r].votes \in SUBSET Witnesses
  BY RotatorKnows, Zenon
<1> DEFINE V == rloc[r].votes \cup {w}
<1>2. /\ rpc[r] = "after" /\ w \in Members["new"] /\ Readable(w, "new") /\ wit[w].head = rloc[r].head
      /\ UNCHANGED <<vars, rlate>>
      /\ IF Cardinality(V) < Threshold["new"]
         THEN Goto(r, "after", [rloc[r] EXCEPT !.votes = V]) /\ UNCHANGED rotated
         ELSE Goto(r, "idle", NoRotation) /\ rotated' = rotated \cup {rloc[r].head}
  BY Zenon DEF SuccessionAnswers
<1>3. V \in SUBSET Witnesses
  BY <1>1, Zenon
<1>4. \A h \in {rloc[r].head} : \A v \in V : Vouches("new", v, h, H)
  <2> SUFFICES ASSUME NEW h \in {rloc[r].head}, NEW v \in V
               PROVE  Vouches("new", v, h, H)
    BY Zenon
  <2>1. CASE v = w
    BY <1>1, <1>2, <2>1, NewVouch, Zenon
  <2>2. CASE v \in rloc[r].votes
    BY <1>1, <1>2, <2>2, Zenon DEF RotOK
  <2> QED BY <2>1, <2>2, Zenon
<1> HIDE DEF V
<1>5. CASE Cardinality(V) < Threshold["new"]
  <2>1. RotOK("after", rloc[r], H) /\ rloc[r] \in RotationLocals
    BY <1>1, <1>2, Zenon
  <2>2. RotOK("after", [rloc[r] EXCEPT !.votes = V], H)
    <3>1. \A y \in RotationLocals :
              RotOK("after", y, H) /\ (\A h \in {y.head} : \A v \in V : Vouches("new", v, h, H))
              => RotOK("after", [y EXCEPT !.votes = V], H)
      BY <1>3, Votes, Zenon
    <3> QED BY <1>4, <2>1, <3>1, Zenon
  <2>3. Goto(r, "after", [rloc[r] EXCEPT !.votes = V]) /\ UNCHANGED <<vars, rlate, rotated>>
    BY <1>2, <1>5, Zenon
  <2> QED BY <2>2, <2>3, QuietRotator, Zenon
<1>6. CASE ~(Cardinality(V) < Threshold["new"])
  <2>1. /\ rpc' = [rpc EXCEPT ![r] = "idle"] /\ rloc' = [rloc EXCEPT ![r] = NoRotation]
        /\ rotated' = rotated \cup {rloc[r].head}
    BY <1>2, <1>6, Zenon DEF Goto
  <2>2. RotOK("idle", NoRotation, H)
    BY Fresh, Zenon
  <2>3. Upheld("new", rloc[r].head, H)
    BY <1>3, <1>4, <1>6, VotesUphold, Zenon
  <2>4. \A h \in rotated' : h \in rotated \/ (h \in Journal /\ Upheld("new", h, H))
    BY <1>1, <2>1, <2>3, Zenon
  <2>5. \A t \in rlate' : t \in rlate \/ TransitionInv(t)
    BY <1>2, Zenon
  <2>6. WitMoves(H) /\ WitInv(H)' /\ UNCHANGED <<wit, pc, loc, late, settled>>
    BY <1>1, <1>2, StillMoves, Zenon DEF vars
  <2> QED BY <2>1, <2>2, <2>4, <2>5, <2>6, RotatorMoves, Zenon
<1> QED BY <1>5, <1>6, Zenon

\* Every shared witness has the head an execution freezes at.
LEMMA FreezeHead ==
  ASSUME NEW H, RInv(H), NEW r \in Rotators, rpc[r] \in Observed
  PROVE  \A v \in Kept : IsPrefix(rloc[r].head, wit[v].head)
<1>1. \A k \in 1 .. Len(Shared) : IsPrefix(rloc[r].head, wit[Shared[k]].head)
  BY RotatorKnows, Zenon DEF RotOK
<1> QED BY <1>1, SharedFacts, Zenon

\* Stop: the transition an execution was at is one that it could have made.
LEMMA StopInd ==
  ASSUME NEW H, RInv(H), NEW r \in Rotators, Stop(r)
  PROVE  RInv(H)'
<1>1. /\ WitInv(H) /\ RotOK(rpc[r], rloc[r], H) /\ rloc[r].head \in Journal
      /\ Current(r) \in Kept /\ Current(r) \in Witnesses /\ wit[Current(r)] \in Witness
  BY RotatorKnows, Zenon
<1>2. wit[Current(r)].ver \in Nat /\ {Active("old"), Active("new"), Joint(rloc[r].head)} \subseteq PolicyState
  BY <1>1, Zenon DEF Witness, PolicyState
<1>3. ASSUME rpc[r] = "freeze"
      PROVE  TransitionInv(Transition(r, Current(r), Active("old"), Joint(rloc[r].head)))
  <2> DEFINE t == Transition(r, Current(r), Active("old"), Joint(rloc[r].head))
  <2>1. /\ t \in PolicyRequest /\ t.wit = Current(r) /\ t.head = rloc[r].head
        /\ t.from = Active("old") /\ t.to = Joint(rloc[r].head)
    BY <1>1, <1>2, Zenon DEF Transition, PolicyRequest
  <2>2. \A v \in Kept : IsPrefix(rloc[r].head, wit[v].head)
    BY <1>3, FreezeHead, Zenon DEF Observed
  <2> HIDE DEF t
  <2>3. TransitionInv(t)
    BY <1>1, <2>1, <2>2, Zenon DEF TransitionInv
  <2> QED BY <2>3, Zenon DEF t
<1>4. ASSUME rpc[r] = "activate"
      PROVE  TransitionInv(Transition(r, Current(r), Joint(rloc[r].head), Active("new")))
  <2> DEFINE t == Transition(r, Current(r), Joint(rloc[r].head), Active("new"))
  <2>1. /\ t \in PolicyRequest /\ t.wit = Current(r) /\ t.head = rloc[r].head
        /\ t.from = Joint(rloc[r].head) /\ t.to = Active("new")
    BY <1>1, <1>2, Zenon DEF Transition, PolicyRequest
  <2>2. \A v \in Kept : ~OldAt(v)
    BY <1>1, <1>4, Zenon DEF RotOK
  <2> HIDE DEF t
  <2>3. TransitionInv(t)
    BY <1>1, <2>1, <2>2, Zenon DEF TransitionInv
  <2> QED BY <2>3, Zenon DEF t
<1>5. \A t \in rlate' : t \in rlate \/ TransitionInv(t)
  BY <1>3, <1>4, Zenon DEF Stop
<1>6. /\ rpc' = [rpc EXCEPT ![r] = "idle"] /\ rloc' = [rloc EXCEPT ![r] = NoRotation]
      /\ UNCHANGED <<wit, pc, loc, late, settled>> /\ rotated' = rotated
  BY Zenon DEF Stop, Goto, vars
<1>7. WitMoves(H) /\ WitInv(H)'
  BY <1>1, <1>6, StillMoves, Zenon
<1>8. RotOK("idle", NoRotation, H)
  BY Fresh, Zenon
<1> QED BY <1>5, <1>6, <1>7, <1>8, RotatorMoves, Zenon

-----------------------------------------------------------------------------
(* The policies of the shared witnesses.                                   *)

\* The three policies a shared witness goes through differ.
LEMMA PoliciesDiffer ==
  /\ Active("old") # Active("new")
  /\ \A h : Joint(h) # Active("old") /\ Joint(h) # Active("new")
  /\ \A g, h : Joint(g) = Joint(h) => g = h
BY Zenon DEF Active, Joint

\* As long as every shared witness is OLD, nothing depends on H.
LEMMA Rebase ==
  ASSUME NEW H, RInv(H), \A w \in Kept : OldAt(w), NEW G \in Journal
  PROVE  RInv(G)
<1>1. \A w \in Kept : ~NewAt(w)
  BY PoliciesDiffer, Zenon DEF OldAt, NewAt
<1>2. \A p, w, h : Vouches(p, w, h, H) => Vouches(p, w, h, G)
  BY <1>1, Zenon DEF Vouches
<1>3. WitInv(G)
  BY <1>1, Zenon DEF RInv, WitInv
<1>4. ClientsInv(G)
  BY <1>2, Zenon DEF RInv, ClientsInv, ClientInv
<1>5. \A p, h : Upheld(p, h, H) => Upheld(p, h, G)
  BY <1>2, Zenon DEF Upheld
<1>6. \A s \in settled : SettledInv(s, G)
  BY <1>5, Zenon DEF RInv, SettledInv
<1>7. \A l, x : RotOK(l, x, H) => RotOK(l, x, G)
  BY <1>2, Zenon DEF RotOK
<1>8. RotatorsInv(G)
  BY <1>7, Zenon DEF RInv, RotatorsInv, RotInv
<1> QED BY <1>3, <1>4, <1>5, <1>6, <1>8, Zenon DEF RInv

\* A head that every shared witness has, and at which an OLD one is, is the only
\* one at which any of them can be frozen.
LEMMA FreezeAt ==
  ASSUME NEW H, RInv(H), NEW w \in Kept, OldAt(w), NEW h \in Journal, wit[w].head = h,
         \A v \in Kept : IsPrefix(h, wit[v].head)
  PROVE  RInv(h)
<1>1. WitInv(H) /\ H \in Journal
  BY Zenon DEF RInv, WitInv
<1>2. CASE \A v \in Kept : OldAt(v)
  BY <1>2, Rebase, Zenon
<1>3. ASSUME NEW v \in Kept, ~OldAt(v) PROVE h = H
  <2>1. ~NewAt(v)
    BY <1>1, <1>3, Zenon DEF WitInv
  <2>2. wit[v].head = H /\ IsPrefix(H, wit[w].head)
    BY <1>1, <1>3, <2>1, Zenon DEF WitInv
  <2>3. IsPrefix(h, H) /\ IsPrefix(H, h)
    BY <2>2, <1>3, Zenon
  <2> QED BY <1>1, <2>3, PrefixSame, Zenon
<1> QED BY <1>2, <1>3, Zenon

\* A shared witness changes its policy and keeps its head.
LEMMA PolicySaved ==
  ASSUME NEW H, WitInv(H), NEW w \in Kept, NEW p \in PolicyState, wit' = Saved(w, p, wit[w].head)
  PROVE  /\ wit' \in [Witnesses -> Witness] /\ wit'[w].policy = p
         /\ \A v \in Witnesses : wit'[v].head = wit[v].head /\ IsPrefix(wit[v].head, wit'[v].head)
         /\ \A v \in Witnesses \ {w} : wit'[v] = wit[v]
<1>1. wit \in [Witnesses -> Witness] /\ w \in Witnesses
  BY SharedFacts, Zenon DEF WitInv
<1>2. wit[w] \in Witness /\ \A v \in Witnesses : wit[v].head \in Journal
  BY <1>1, Zenon DEF Witness
<1>3. [policy |-> p, head |-> wit[w].head, ver |-> wit[w].ver + 1] \in Witness
  BY <1>2 DEF Witness
<1>4. wit' \in [Witnesses -> Witness]
  BY <1>1, <1>3, Zenon DEF Saved
<1>5. /\ wit'[w].policy = p /\ wit'[w].head = wit[w].head
      /\ \A v \in Witnesses \ {w} : wit'[v] = wit[v]
  BY <1>1, Zenon DEF Saved
<1>6. \A v \in Witnesses : wit'[v].head = wit[v].head
  BY <1>5, Zenon
<1>7. \A v \in Witnesses : IsPrefix(wit[v].head, wit'[v].head)
  BY <1>2, <1>6, PrefixSelf, Zenon
<1> QED BY <1>4, <1>5, <1>6, <1>7, Zenon

\* OLD to JOINT.
LEMMA FreezeMoves ==
  ASSUME NEW h, WitInv(h), NEW w \in Kept, OldAt(w), wit[w].head = h,
         \A v \in Kept : IsPrefix(h, wit[v].head), wit' = Saved(w, Joint(h), wit[w].head)
  PROVE  WitMoves(h) /\ WitInv(h)'
<1>1. h \in Journal /\ Joint(h) \in PolicyState /\ Kept \subseteq Witnesses
  BY SharedFacts, Zenon DEF WitInv, PolicyState
<1>2. /\ wit' \in [Witnesses -> Witness] /\ wit'[w].policy = Joint(h)
      /\ \A v \in Witnesses : wit'[v].head = wit[v].head /\ IsPrefix(wit[v].head, wit'[v].head)
      /\ \A v \in Witnesses \ {w} : wit'[v] = wit[v]
  BY <1>1, PolicySaved, Zenon
<1>3. ~OldAt(w)' /\ ~NewAt(w)' /\ ~NewAt(w)
  BY <1>2, PoliciesDiffer, Zenon DEF OldAt, NewAt
<1>4. \A v \in Kept \ {w} : (OldAt(v)' <=> OldAt(v)) /\ (NewAt(v)' <=> NewAt(v))
  BY <1>1, <1>2, Zenon DEF OldAt, NewAt
<1>5. \A v \in Kept : ~NewAt(v)
  BY Zenon DEF WitInv
<1>6. WitMoves(h)
  BY <1>1, <1>2, <1>3, <1>4, Zenon DEF WitMoves
<1>7. \A v \in Kept : ~OldAt(v)' /\ ~NewAt(v)' => wit'[v].policy = Joint(h) /\ wit'[v].head = h
  <2> TAKE v \in Kept
  <2>1. CASE v = w
    BY <1>1, <1>2, <2>1, Zenon
  <2>2. CASE v # w
    <3>1. v \in Kept \ {w} /\ wit'[v] = wit[v]
      BY <1>1, <1>2, <2>2, Zenon
    <3> QED BY <1>4, <3>1, Zenon DEF WitInv
  <2> QED BY <2>1, <2>2, Zenon
<1>8. \A v \in Kept : IsPrefix(h, wit'[v].head)
  BY <1>1, <1>2, Zenon
<1>9. \A v \in Kept : ~NewAt(v)'
  BY <1>3, <1>4, <1>5, Zenon
<1>10. WitInv(h)'
  BY <1>1, <1>2, <1>7, <1>8, <1>9, Zenon DEF WitInv
<1> QED BY <1>6, <1>10, Zenon

\* JOINT to NEW.
LEMMA ActivateMoves ==
  ASSUME NEW H, WitInv(H), NEW w \in Kept, \A v \in Kept : ~OldAt(v),
         wit' = Saved(w, Active("new"), wit[w].head)
  PROVE  WitMoves(H) /\ WitInv(H)'
<1>1. H \in Journal /\ Active("new") \in PolicyState /\ Kept \subseteq Witnesses
  BY SharedFacts, Zenon DEF WitInv, PolicyState
<1>2. /\ wit' \in [Witnesses -> Witness] /\ wit'[w].policy = Active("new")
      /\ \A v \in Witnesses : wit'[v].head = wit[v].head /\ IsPrefix(wit[v].head, wit'[v].head)
      /\ \A v \in Witnesses \ {w} : wit'[v] = wit[v]
  BY <1>1, PolicySaved, Zenon
<1>3. NewAt(w)' /\ ~OldAt(w)'
  BY <1>2, PoliciesDiffer, Zenon DEF OldAt, NewAt
<1>4. \A v \in Kept \ {w} : (OldAt(v)' <=> OldAt(v)) /\ (NewAt(v)' <=> NewAt(v))
  BY <1>1, <1>2, Zenon DEF OldAt, NewAt
<1>5. \A v \in Kept : ~OldAt(v)' /\ (NewAt(v) => NewAt(v)')
  BY <1>3, <1>4, Zenon
<1>6. WitMoves(H)
  BY <1>2, <1>5, Zenon DEF WitMoves
<1>7. \A v \in Kept : ~OldAt(v)' /\ ~NewAt(v)' => wit'[v].policy = Joint(H) /\ wit'[v].head = H
  <2> TAKE v \in Kept
  <2>1. CASE v = w
    BY <1>3, <2>1, Zenon
  <2>2. CASE v # w
    <3>1. v \in Kept \ {w} /\ wit'[v] = wit[v]
      BY <1>1, <1>2, <2>2, Zenon
    <3> QED BY <1>4, <3>1, Zenon DEF WitInv
  <2> QED BY <2>1, <2>2, Zenon
<1>8. \A v \in Kept : IsPrefix(H, wit'[v].head)
  BY <1>1, <1>2, Zenon DEF WitInv
<1>9. WitInv(H)'
  BY <1>1, <1>2, <1>5, <1>7, <1>8, Zenon DEF WitInv
<1> QED BY <1>6, <1>9, Zenon

\* Where an execution is once a shared witness is frozen, or activated.
LEMMA Onwards ==
  ASSUME NEW H, RInv(H), NEW r \in Rotators, NEW l,
         (rpc[r] = "freeze" /\ l = "reclassify") \/ (rpc[r] = "activate" /\ l = "newload"),
         Forward(r, l, rloc[r])
  PROVE  \E n, x : Goto(r, n, x) /\ RotOK(n, x, H)
<1>1. RotOK(rpc[r], rloc[r], H) /\ rloc[r] \in RotationLocals /\ rloc[r].i \in 1 .. Len(Shared)
  BY RotatorKnows, Zenon
<1>2. PICK n \in {rpc[r], l}, m \in 1 .. Len(Shared) :
          /\ Goto(r, n, [rloc[r] EXCEPT !.i = m]) /\ [rloc[r] EXCEPT !.i = m] \in RotationLocals
          /\ n = l => m = 1
  <2>1. \E n \in {rpc[r], l}, m \in 1 .. Len(Shared) :
          /\ Goto(r, n, [rloc[r] EXCEPT !.i = m]) /\ [rloc[r] EXCEPT !.i = m] \in RotationLocals
          /\ \/ rloc[r].i < Len(Shared) /\ n = rpc[r] /\ m = rloc[r].i + 1
             \/ rloc[r].i = Len(Shared) /\ n = l /\ m = 1
    BY <1>1, Forwards, Zenon
  <2>2. rpc[r] # l
    BY Zenon
  <2> QED BY <2>1, <2>2, Zenon
<1> DEFINE x == [rloc[r] EXCEPT !.i = m]
<1>3. /\ x \in RotationLocals /\ x.i = m /\ x.found = rloc[r].found /\ x.votes = rloc[r].votes
      /\ x.head = rloc[r].head
  BY <1>1, <1>2, Zenon DEF RotationLocals
<1>4. /\ n \in {"freeze", "reclassify", "activate", "newload"} /\ n \in Observed /\ rpc[r] \in Observed
      /\ Classified(n, m) = 0 /\ Classified(rpc[r], rloc[r].i) = 0
      /\ (n \in {"activate", "newload", "after"} => rpc[r] = "activate")
  BY <1>2 DEF Observed, Classified
<1>5. /\ Len(rloc[r].found) = 0 /\ rloc[r].votes = {} /\ (rpc[r] = "activate" => \A w \in Kept : ~OldAt(w))
      /\ \A k \in 1 .. Len(Shared) : IsPrefix(rloc[r].head, wit[Shared[k]].head)
  BY <1>1, <1>4, Zenon DEF RotOK
<1> HIDE DEF x
<1>6. RotOK(n, x, H)
  BY <1>3, <1>4, <1>5 DEF RotOK
<1> QED BY <1>2, <1>6, Zenon DEF x

\* A step of execution r at a shared witness.
LEMMA Steps ==
  ASSUME NEW H, RInv(H), WitMoves(H), WitInv(H)', NEW r \in Rotators, NEW n, NEW x,
         Goto(r, n, x), RotOK(n, x, H), UNCHANGED <<pc, loc, late, settled, calls, rlate, rotated, runs>>
  PROVE  IndInv'
<1>1. /\ rpc' = [rpc EXCEPT ![r] = n] /\ rloc' = [rloc EXCEPT ![r] = x]
      /\ UNCHANGED <<pc, loc, late, settled>> /\ rlate' = rlate /\ rotated' = rotated
  BY Zenon DEF Goto
<1>2. RInv(H)'
  BY <1>1, RotatorMoves, Zenon
<1>3. H \in Journal
  BY Zenon DEF RInv, WitInv
<1> QED BY <1>2, <1>3, Zenon DEF IndInv

\* Freeze: the shared witnesses are frozen at one head.
LEMMA FreezeInd ==
  ASSUME NEW H, RInv(H), NEW r \in Rotators, Freeze(r)
  PROVE  IndInv'
<1>1. WitInv(H) /\ rloc[r].head \in Journal /\ Current(r) \in Kept
  BY RotatorKnows, Zenon
<1>2. /\ rpc[r] = "freeze" /\ Forward(r, "reclassify", rloc[r])
      /\ UNCHANGED <<pc, loc, late, settled, calls, rlate, rotated, runs>>
  BY Zenon DEF Freeze
<1>3. CASE wit' = wit
  <2>1. PICK n, x : Goto(r, n, x) /\ RotOK(n, x, H)
    BY <1>2, Onwards, Zenon
  <2>2. WitMoves(H) /\ WitInv(H)'
    BY <1>1, <1>3, StillMoves, Zenon
  <2> QED BY <1>2, <2>1, <2>2, Steps, Zenon
<1>4. CASE wit' # wit
  <2>1. PICK h \in Journal : h = rloc[r].head
    BY <1>1, Zenon
  <2>2. PICK w \in Kept : w = Current(r)
    BY <1>1, Zenon
  <2>3. Transitions(Transition(r, w, Active("old"), Joint(h))) /\ wit' = Saved(w, Joint(h), wit[w].head)
    BY <1>4, <2>1, <2>2, Zenon DEF Freeze
  <2>4. OldAt(w) /\ wit[w].head = h
    BY <2>1, <2>3 DEF Transitions, Transition, OldAt
  <2>5. \A v \in Kept : IsPrefix(h, wit[v].head)
    BY <1>2, <2>1, FreezeHead, Zenon DEF Observed
  <2>6. RInv(h)
    BY <2>4, <2>5, FreezeAt, Zenon
  <2>7. WitInv(h)
    BY <2>6, Zenon DEF RInv
  <2>8. WitMoves(h) /\ WitInv(h)'
    BY <2>3, <2>4, <2>5, <2>7, FreezeMoves, Zenon
  <2>9. PICK n, x : Goto(r, n, x) /\ RotOK(n, x, h)
    BY <1>2, <2>6, Onwards, Zenon
  <2> QED BY <1>2, <2>6, <2>8, <2>9, Steps, Zenon
<1> QED BY <1>3, <1>4, Zenon

\* Activate: none of them is OLD any more.
LEMMA ActivateInd ==
  ASSUME NEW H, RInv(H), NEW r \in Rotators, Activate(r)
  PROVE  IndInv'
<1>1. WitInv(H) /\ RotOK(rpc[r], rloc[r], H) /\ Current(r) \in Kept
  BY RotatorKnows, Zenon
<1>2. /\ rpc[r] = "activate" /\ Forward(r, "newload", rloc[r])
      /\ UNCHANGED <<pc, loc, late, settled, calls, rlate, rotated, runs>>
  BY Zenon DEF Activate
<1>3. PICK n, x : Goto(r, n, x) /\ RotOK(n, x, H)
  BY <1>2, Onwards, ZenonT(30)
<1>4. \A v \in Kept : ~OldAt(v)
  BY <1>1, <1>2, Zenon DEF RotOK
<1>5. wit' = wit \/ wit' = Saved(Current(r), Active("new"), wit[Current(r)].head)
  BY Zenon DEF Activate
<1>6. WitMoves(H) /\ WitInv(H)'
  BY <1>1, <1>4, <1>5, StillMoves, ActivateMoves, Zenon
<1> QED BY <1>2, <1>3, <1>6, Steps, Zenon

\* TransitionArrives: so does a transition whose execution has gone.
LEMMA TransitionArrivesInd ==
  ASSUME NEW H, RInv(H), NEW t \in rlate, TransitionArrives(t)
  PROVE  IndInv'
<1>1. /\ UNCHANGED <<pc, loc, late, settled, rpc, rloc, rotated>> /\ rlate' = rlate \ {t}
      /\ wit' = IF Transitions(t) THEN Saved(t.wit, t.to, wit[t.wit].head) ELSE wit
  BY Zenon DEF TransitionArrives
<1>2. WitInv(H) /\ H \in Journal /\ TransitionInv(t)
  BY Zenon DEF RInv, WitInv
<1>3. ASSUME NEW G, RInv(G), WitMoves(G), WitInv(G)' PROVE IndInv'
  <2>1. ClientsInv(G) /\ RotatorsInv(G) /\ LateOK /\ WitInv(G) /\ G \in Journal
    BY <1>3, Zenon DEF RInv, LateOK, WitInv
  <2>2. ClientsInv(G)' /\ RotatorsInv(G)'
    BY <1>1, <1>3, <2>1, NoClient, NoRotator, Zenon
  <2>3. LateOK'
    BY <1>1, <2>1, Zenon DEF LateOK, LateInv
  <2>4. \A u \in rlate' : u \in rlate
    BY <1>1, Zenon
  <2>5. RInv(G)'
    BY <1>1, <1>3, <2>2, <2>3, <2>4, Together, Zenon
  <2> QED BY <2>1, <2>5, Zenon DEF IndInv
<1>4. CASE ~Transitions(t)
  <2>1. WitMoves(H) /\ WitInv(H)'
    BY <1>1, <1>2, <1>4, StillMoves, Zenon
  <2> QED BY <1>3, <2>1, Zenon
<1>5. PICK w \in Kept, h \in Journal : w = t.wit /\ h = t.head
  BY <1>2, Zenon DEF TransitionInv, PolicyRequest
<1>6. CASE Transitions(t) /\ t.from = Active("old") /\ t.to = Joint(t.head) /\ \A v \in Kept : IsPrefix(t.head, wit[v].head)
  <2>1. OldAt(w) /\ wit[w].head = h /\ wit' = Saved(w, Joint(h), wit[w].head)
    BY <1>1, <1>5, <1>6, Zenon DEF Transitions, OldAt
  <2>2. \A v \in Kept : IsPrefix(h, wit[v].head)
    BY <1>5, <1>6, Zenon
  <2>3. RInv(h)
    BY <2>1, <2>2, FreezeAt, Zenon
  <2>4. WitInv(h)
    BY <2>3, Zenon DEF RInv
  <2>5. WitMoves(h) /\ WitInv(h)'
    BY <2>1, <2>2, <2>4, FreezeMoves, Zenon
  <2> QED BY <1>3, <2>3, <2>5, Zenon
<1>7. CASE Transitions(t) /\ t.to = Active("new") /\ \A v \in Kept : ~OldAt(v)
  <2>1. wit' = Saved(w, Active("new"), wit[w].head)
    BY <1>1, <1>5, <1>7, Zenon
  <2>2. WitMoves(H) /\ WitInv(H)'
    BY <1>2, <1>7, <2>1, ActivateMoves, Zenon
  <2> QED BY <1>3, <2>2, Zenon
<1> QED BY <1>2, <1>4, <1>6, <1>7, Zenon DEF TransitionInv

-----------------------------------------------------------------------------
(* Init and Next.                                                          *)

\* At first every shared witness is under the old policy.
LEMMA InitInv == RInit => IndInv
<1> SUFFICES ASSUME RInit PROVE RInv(<<>>)
  BY KnownHeads, Zenon DEF IndInv
<1>1. <<>> \in Journal /\ Enrolled \in Journal /\ NoLocals \in ClientLocals
  BY KnownHeads, Zenon
<1>2. Kept \subseteq Witnesses /\ Kept \subseteq Members["old"]
  BY SharedFacts, Zenon DEF Policies
<1>3. wit = [w \in Witnesses |->
                 IF w \in Members["old"]
                 THEN [policy |-> Active("old"), head |-> Enrolled, ver |-> 0]
                 ELSE [policy |-> Active("new"), head |-> <<>>, ver |-> 0]]
  BY Zenon DEF RInit, Init
<1>4. \A w \in Kept : OldAt(w)
  BY <1>2, <1>3, Zenon DEF OldAt
<1>5. \A w \in Kept : ~NewAt(w)
  BY <1>4, PoliciesDiffer, Zenon DEF OldAt, NewAt
<1>6. wit \in [Witnesses -> Witness]
  <2>1. /\ [policy |-> Active("old"), head |-> Enrolled, ver |-> 0] \in Witness
        /\ [policy |-> Active("new"), head |-> <<>>, ver |-> 0] \in Witness
    BY <1>1, Zenon DEF Witness, PolicyState
  <2> QED BY <1>3, <2>1, Zenon
<1>7. WitInv(<<>>)
  BY <1>1, <1>4, <1>5, <1>6, Zenon DEF WitInv
<1>8. ClientsInv(<<>>)
  <2>1. pc = [c \in Clients |-> "idle"] /\ loc = [c \in Clients |-> NoLocals]
    BY Zenon DEF RInit, Init
  <2>2. NoLocals.seen = {} /\ NoLocals.ok = {} /\ NoLocals.prev = <<>> /\ NoLocals.next = <<>>
    BY Zenon DEF NoLocals
  <2>3. IsPrefix(<<>>, <<>>)
    BY <1>1, PrefixSelf, Zenon
  <2>4. ASSUME NEW c \in Clients PROVE ClientInv(c, <<>>)
    <3>1. pc[c] = "idle" /\ loc[c] = NoLocals
      BY <2>1, Zenon
    <3> QED BY <1>1, <2>2, <2>3, <3>1, Zenon DEF ClientInv
  <2> QED BY <1>1, <2>1, <2>4, Zenon DEF ClientsInv
<1>9. RotatorsInv(<<>>)
  <2>1. rpc = [r \in Rotators |-> "idle"] /\ rloc = [r \in Rotators |-> NoRotation]
    BY Zenon DEF RInit, RotatorInit
  <2>2. RotOK("idle", NoRotation, <<>>)
    BY Fresh, Zenon
  <2>3. NoRotation \in RotationLocals
    BY <2>2, Zenon DEF RotOK
  <2>4. ASSUME NEW r \in Rotators PROVE RotInv(r, <<>>)
    <3>1. rpc[r] = "idle" /\ rloc[r] = NoRotation
      BY <2>1, Zenon
    <3> QED BY <2>2, <3>1, Zenon DEF RotInv
  <2> QED BY <2>1, <2>3, <2>4, Zenon DEF RotatorsInv
<1>10. IsFiniteSet(late) /\ Cardinality(late) <= MaxLate
  <2>1. late = {}
    BY Zenon DEF RInit, Init
  <2> QED BY <2>1, FS_EmptySet, JournalAssumption
<1>11. late = {} /\ settled = {} /\ rlate = {} /\ rotated = {}
  BY Zenon DEF RInit, Init, RotatorInit
<1> QED BY <1>7, <1>8, <1>9, <1>10, <1>11, Zenon DEF RInv

\* Nothing changes when nobody moves.
LEMMA StutterInd == IndInv /\ UNCHANGED allvars => IndInv'
<1> SUFFICES ASSUME NEW H \in Journal, RInv(H), UNCHANGED allvars PROVE RInv(H)'
  BY Zenon DEF IndInv
<1>1. UNCHANGED <<wit, pc, loc, late, settled, rpc, rloc, rlate, rotated>>
  BY Zenon DEF allvars, vars, rvars
<1>2. WitInv(H) /\ ClientsInv(H) /\ RotatorsInv(H) /\ LateOK
  BY Zenon DEF RInv, LateOK
<1>3. WitMoves(H) /\ WitInv(H)'
  BY <1>1, <1>2, StillMoves, Zenon
<1>4. ClientsInv(H)' /\ RotatorsInv(H)'
  BY <1>1, <1>2, <1>3, NoClient, NoRotator, Zenon
<1>5. LateOK'
  BY <1>1, <1>2, Zenon DEF LateOK, LateInv
<1> QED BY <1>1, <1>3, <1>4, <1>5, Together, Zenon

\* Every step keeps the invariant, at the same head H or at the one it freezes at.
LEMMA NextInd == IndInv /\ [RNext]_allvars => IndInv'
<1> SUFFICES ASSUME NEW H \in Journal, RInv(H), RNext PROVE IndInv'
  BY StutterInd, Zenon DEF IndInv
<1>1. ASSUME RInv(H)' PROVE IndInv'
  BY <1>1, Zenon DEF IndInv
<1>2. CASE Next /\ UNCHANGED rvars
  BY <1>1, <1>2, ClientsInd, Zenon
<1>3. ASSUME NEW r \in Rotators, Start(r) \/ Execute(r) \/ Stop(r) PROVE IndInv'
  <2>1. CASE Start(r)
    BY <1>1, <2>1, StartInd, Zenon
  <2>2. CASE Stop(r)
    BY <1>1, <2>2, StopInd, ZenonT(30)
  <2>3. CASE ObserveBefore(r)
    BY <1>1, <2>3, ObserveBeforeInd, Zenon
  <2>4. CASE ObserveShared(r)
    BY <1>1, <2>4, ObserveSharedInd, Zenon
  <2>5. CASE Classify(r)
    BY <1>1, <2>5, ClassifyInd, Zenon
  <2>6. CASE Decide(r) \/ Frozen(r)
    BY <1>1, <2>6, DecideInd, Zenon
  <2>7. CASE Freeze(r)
    BY <2>7, FreezeInd, Zenon
  <2>8. CASE Activate(r)
    BY <2>8, ActivateInd, Zenon
  <2>9. ASSUME NEW w \in Witnesses, QuorumAnswers(r, w) \/ SuccessionAnswers(r, w) PROVE IndInv'
    BY <1>1, <2>9, QuorumAnswersInd, SuccessionAnswersInd, Zenon
  <2> QED BY <1>3, <2>1, <2>2, <2>3, <2>4, <2>5, <2>6, <2>7, <2>8, <2>9, Zenon DEF Execute
<1>4. ASSUME NEW t \in rlate, TransitionArrives(t) PROVE IndInv'
  BY <1>4, TransitionArrivesInd, Zenon
<1> QED BY <1>2, <1>3, <1>4, Zenon DEF RNext

\* A witness takes only heads that continue its own, and keeps its head otherwise.
LEMMA HeadsGrow ==
  ASSUME IndInv, RNext, NEW v \in Witnesses
  PROVE  IsPrefix(wit[v].head, wit'[v].head)
<1>1. PICK H \in Journal : RInv(H)
  BY Zenon DEF IndInv
<1>2. WitInv(H) /\ ClientsInv(H) /\ wit \in [Witnesses -> Witness]
  BY <1>1, Zenon DEF RInv, WitInv
<1>3. \A w \in Witnesses : wit[w].head \in Journal
  BY <1>2 DEF Witness
<1>4. CASE wit' = wit
  BY <1>3, <1>4, PrefixSelf, Zenon
<1>5. ASSUME NEW w \in Witnesses, NEW p, NEW n \in Journal, IsPrefix(wit[w].head, n), wit' = Saved(w, p, n)
      PROVE  IsPrefix(wit[v].head, wit'[v].head)
  <2>1. wit'[w].head = n /\ (v # w => wit'[v] = wit[v])
    BY <1>2, <1>5, Zenon DEF Saved
  <2> QED BY <1>3, <1>5, <2>1, PrefixSelf, Zenon
<1>6. ASSUME NEW c \in Clients, NEW o \in loc[c].seen, Advance(c, o)
      PROVE  IsPrefix(wit[v].head, wit'[v].head)
  <2>1. ClientInv(c, H) /\ Launched(c) /\ o \in ToAdvance(c)
    BY <1>2, <1>6, Zenon DEF ClientsInv, Advance
  <2>2. o \in Observation /\ LateInv(Request(c, o))
    BY <2>1, RequestOK, Zenon
  <2>3. /\ o.wit \in Witnesses /\ Request(c, o).head = o.head
        /\ Request(c, o).next \in Journal /\ IsPrefix(o.head, Request(c, o).next)
    BY <2>2, Zenon DEF Observation, LateInv, HeadRequest, Request
  <2>4. CASE Accepts(o.wit, Request(c, o))
    BY <1>5, <1>6, <2>3, <2>4, Zenon DEF Advance, Accepts
  <2>5. CASE ~Accepts(o.wit, Request(c, o))
    BY <1>4, <1>6, <2>5, Zenon DEF Advance
  <2> QED BY <2>4, <2>5, Zenon
<1>7. ASSUME NEW q \in late, LateArrives(q)
      PROVE  IsPrefix(wit[v].head, wit'[v].head)
  <2>1. LateInv(q)
    BY <1>1, Zenon DEF RInv
  <2>2. q.wit \in Witnesses /\ q.next \in Journal /\ IsPrefix(q.head, q.next)
    BY <2>1, Zenon DEF LateInv, HeadRequest
  <2>3. CASE Accepts(q.wit, q)
    BY <1>5, <1>7, <2>2, <2>3, Zenon DEF LateArrives, Accepts
  <2>4. CASE ~Accepts(q.wit, q)
    BY <1>4, <1>7, <2>4, Zenon DEF LateArrives
  <2> QED BY <2>3, <2>4, Zenon
<1>8. ASSUME NEW w \in Witnesses, NEW p, wit' = Saved(w, p, wit[w].head)
      PROVE  IsPrefix(wit[v].head, wit'[v].head)
  BY <1>3, <1>5, <1>8, PrefixSelf, Zenon
<1>9. ASSUME NEW r \in Rotators, Freeze(r) \/ Activate(r)
      PROVE  IsPrefix(wit[v].head, wit'[v].head)
  <2>1. Current(r) \in Witnesses
    BY <1>1, RotatorKnows, Zenon
  <2> QED BY <1>4, <1>8, <1>9, <2>1, Zenon DEF Freeze, Activate
<1>10. ASSUME NEW t \in rlate, TransitionArrives(t)
       PROVE  IsPrefix(wit[v].head, wit'[v].head)
  <2>1. t.wit \in Witnesses
    BY <1>1, SharedFacts, Zenon DEF RInv, TransitionInv
  <2> QED BY <1>4, <1>8, <1>10, <2>1, Zenon DEF TransitionArrives
<1>11. ASSUME NEW c \in Clients, ClientStep(c)
       PROVE  IsPrefix(wit[v].head, wit'[v].head)
  BY <1>4, <1>6, <1>11, Zenon DEF ClientStep, Begin, Ask, LoadReturns, AdvanceReturns, Abandon
<1>12. ASSUME NEW r \in Rotators, Start(r) \/ Execute(r) \/ Stop(r)
       PROVE  IsPrefix(wit[v].head, wit'[v].head)
  <2>1. CASE Freeze(r) \/ Activate(r)
    BY <1>9, <2>1, Zenon
  <2>2. CASE ~(Freeze(r) \/ Activate(r))
    <3>1. wit' = wit
      BY <1>12, <2>2, Zenon DEF Execute, Start, Stop, ObserveBefore, ObserveShared, Classify, Decide, Frozen,
                                QuorumAnswers, SuccessionAnswers, vars
    <3> QED BY <1>4, <3>1, Zenon
  <2> QED BY <2>1, <2>2, Zenon
<1> QED BY <1>7, <1>10, <1>11, <1>12, Zenon DEF RNext, Next

-----------------------------------------------------------------------------
(* What follows.                                                           *)

\* Two heads a policy upholds are of one journal: some witness has both.
LEMMA SamePolicy ==
  ASSUME NEW H, WitInv(H), NEW p \in Policies, NEW g \in Journal, NEW h \in Journal,
         Upheld(p, g, H), Upheld(p, h, H)
  PROVE  IsPrefix(g, h) \/ IsPrefix(h, g)
<1>1. PICK Q \in SUBSET Members[p] : Cardinality(Q) >= Threshold[p] /\ \A w \in Q : Vouches(p, w, g, H)
  BY Zenon DEF Upheld
<1>2. PICK R \in SUBSET Members[p] : Cardinality(R) >= Threshold[p] /\ \A w \in R : Vouches(p, w, h, H)
  BY Zenon DEF Upheld
<1>3. Q \cap R # {}
  BY <1>1, <1>2, Quorums, Zenon
<1>4. PICK w \in Members[p] : IsPrefix(g, wit[w].head) /\ IsPrefix(h, wit[w].head)
  BY <1>1, <1>2, <1>3, Zenon DEF Vouches
<1>5. w \in Witnesses
  BY SharedFacts, Zenon
<1>6. wit[w].head \in Journal
  BY <1>5, Zenon DEF WitInv, Witness
<1> QED BY <1>4, <1>6, PrefixChain, Zenon

\* When the new policy upholds a head, a shared witness is NEW and none is OLD.
LEMMA NewUpheld ==
  ASSUME NEW H, WitInv(H), NEW h, Upheld("new", h, H)
  PROVE  IsPrefix(H, h) /\ \A v \in Kept : ~OldAt(v)
<1>1. PICK Q \in SUBSET Members["new"] :
          Cardinality(Q) >= Threshold["new"] /\ \A w \in Q : Vouches("new", w, h, H)
  BY Zenon DEF Upheld
<1>2. "new" \in Policies /\ "new" # "old"
  BY Zenon DEF Policies
<1>3. Q \cap Kept # {}
  BY <1>1, <1>2, Quorums, Zenon
<1>4. PICK w \in Kept : NewAt(w) /\ IsPrefix(H, h)
  BY <1>1, <1>2, <1>3, Zenon DEF Vouches
<1> QED BY <1>4, Zenon DEF WitInv

\* A head of the new policy continues every head of the old one.
LEMMA AcrossPolicies ==
  ASSUME NEW H, WitInv(H), NEW g \in Journal, NEW h \in Journal,
         Upheld("old", g, H), Upheld("new", h, H)
  PROVE  IsPrefix(g, h)
<1>1. IsPrefix(H, h) /\ \A v \in Kept : ~OldAt(v)
  BY NewUpheld, Zenon
<1>2. PICK Q \in SUBSET Members["old"] :
          Cardinality(Q) >= Threshold["old"] /\ \A w \in Q : Vouches("old", w, g, H)
  BY Zenon DEF Upheld
<1>3. "old" \in Policies
  BY Zenon DEF Policies
<1>4. Q \cap Kept # {}
  BY <1>2, <1>3, Quorums, Zenon
<1>5. IsPrefix(g, H)
  BY <1>1, <1>2, <1>4, Zenon DEF Vouches
<1>6. H \in Journal
  BY Zenon DEF WitInv
<1> QED BY <1>1, <1>5, <1>6, PrefixTrans, Zenon

\* Without a shared witness under the old policy its quorum is gone.
LEMMA OldRetired ==
  ASSUME \A v \in Kept : ~OldAt(v)
  PROVE  ~Lives("old")
<1> DEFINE Q == {w \in Members["old"] : Readable(w, "old")}
<1>1. Q \in SUBSET Members["old"] /\ Q \cap Kept = {}
  BY Zenon DEF Readable, OldAt
<1>2. "old" \in Policies
  BY Zenon DEF Policies
<1>3. ~(Cardinality(Q) >= Threshold["old"])
  <2> HIDE DEF Q
  <2> QED BY <1>1, <1>2, Quorums, Zenon
<1> QED BY <1>3, Zenon DEF Lives

\* A quorum of the new policy has a shared witness, so none is OLD.
LEMMA IndOneQuorum == IndInv => OneQuorumLives
<1> SUFFICES ASSUME NEW H, RInv(H), Lives("new") PROVE ~Lives("old")
  BY Zenon DEF IndInv, OneQuorumLives
<1> DEFINE Q == {w \in Members["new"] : Readable(w, "new")}
<1>1. Q \in SUBSET Members["new"] /\ Cardinality(Q) >= Threshold["new"]
  BY Zenon DEF Lives
<1>2. "new" \in Policies
  BY Zenon DEF Policies
<1>3. Q \cap Kept # {}
  <2> HIDE DEF Q
  <2> QED BY <1>1, <1>2, Quorums, Zenon
<1>4. PICK w \in Kept : NewAt(w)
  BY <1>3, Zenon DEF Readable, NewAt
<1>5. \A v \in Kept : ~OldAt(v)
  BY <1>4, Zenon DEF RInv, WitInv
<1> QED BY <1>5, OldRetired, Zenon

\* The shapes the model states.
LEMMA IndTypes == IndInv => TypeOK /\ RTypeOK
<1> SUFFICES ASSUME NEW H, RInv(H) PROVE TypeOK /\ RTypeOK
  BY Zenon DEF IndInv
<1>1. \A w \in Witnesses : wit[w].ver \in Nat /\ Len(wit[w].head) <= MaxLength
  BY Zenon DEF RInv, WitInv, Witness, Journal
<1>2. \A s \in settled : s.policy \in Policies /\ Len(s.head) \in 1 .. MaxLength
  <2> TAKE s \in settled
  <2>1. s.policy \in Policies /\ s.head \in Journal /\ s.head # <<>>
    BY Zenon DEF RInv, SettledInv
  <2>2. \A h \in Journal : h # <<>> => Len(h) \in 1 .. MaxLength
    BY JournalAssumption DEF Journal
  <2> QED BY <2>1, <2>2, Zenon
<1>3. TypeOK
  BY <1>1, <1>2, Zenon DEF TypeOK, RInv
<1>4. RTypeOK
  <2> SUFFICES ASSUME NEW r \in Rotators
               PROVE  /\ rloc[r].i \in 1 .. Len(Shared) /\ Len(rloc[r].found) <= Len(Shared)
                      /\ rloc[r].votes \subseteq Witnesses
    BY Zenon DEF RTypeOK
  <2>1. RotOK(rpc[r], rloc[r], H) /\ rloc[r].i \in 1 .. Len(Shared) /\ rloc[r].votes \in SUBSET Witnesses
    BY RotatorKnows, Zenon
  <2>2. Len(rloc[r].found) = Classified(rpc[r], rloc[r].i)
    BY <2>1, Zenon DEF RotOK
  <2>3. Len(rloc[r].found) <= Len(Shared)
    BY <2>1, <2>2, SharedFacts DEF Classified
  <2> QED BY <2>1, <2>3, Zenon
<1> QED BY <1>3, <1>4, Zenon

\* What the invariant says of settled and rotated heads.
LEMMA IndSettled == IndInv => NoFork /\ SettledIsKept /\ NothingLost /\ RotatedIsFinal
<1> SUFFICES ASSUME NEW H, RInv(H) PROVE NoFork /\ SettledIsKept /\ NothingLost /\ RotatedIsFinal
  BY Zenon DEF IndInv
<1>1. WitInv(H) /\ \A s \in settled : /\ s.head \in Journal /\ s.policy \in Policies
                                     /\ Upheld(s.policy, s.head, H)
  BY Zenon DEF RInv, SettledInv
<1>2. \A p \in Policies : p = "old" \/ p = "new"
  BY Zenon DEF Policies
<1>3. \A s, t \in settled : s.policy = "old" /\ t.policy = "new" => IsPrefix(s.head, t.head)
  BY <1>1, AcrossPolicies, Zenon
<1>4. \A s, t \in settled : s.policy = t.policy => IsPrefix(s.head, t.head) \/ IsPrefix(t.head, s.head)
  BY <1>1, SamePolicy, Zenon
<1>5. \A s, t \in settled : IsPrefix(s.head, t.head) \/ IsPrefix(t.head, s.head)
  <2> TAKE s, t \in settled
  <2>1. s.policy \in Policies /\ t.policy \in Policies
    BY <1>1, Zenon
  <2>2. CASE s.policy = t.policy
    BY <1>4, <2>2, Zenon
  <2>3. CASE s.policy = "old" /\ t.policy = "new"
    BY <1>3, <2>3, Zenon
  <2>4. CASE s.policy = "new" /\ t.policy = "old"
    BY <1>3, <2>4, Zenon
  <2> QED BY <1>2, <2>1, <2>2, <2>3, <2>4, Zenon
<1>6. NoFork
  BY <1>5, Zenon DEF NoFork, Heads
<1>7. NothingLost
  BY <1>3, Zenon DEF NothingLost
<1>8. SettledIsKept
  <2> SUFFICES ASSUME NEW s \in settled
               PROVE  Cardinality({w \in Members[s.policy] :
                                       Readable(w, s.policy) /\ ~IsPrefix(s.head, wit[w].head)})
                          < Threshold[s.policy]
    BY Zenon DEF SettledIsKept
  <2> DEFINE R == {w \in Members[s.policy] : Readable(w, s.policy) /\ ~IsPrefix(s.head, wit[w].head)}
  <2>1. s.policy \in Policies /\ Upheld(s.policy, s.head, H)
    BY <1>1, Zenon
  <2>2. PICK Q \in SUBSET Members[s.policy] :
            Cardinality(Q) >= Threshold[s.policy] /\ \A w \in Q : Vouches(s.policy, w, s.head, H)
    BY <2>1, Zenon DEF Upheld
  <2>3. R \in SUBSET Members[s.policy] /\ Q \cap R = {}
    BY <2>2, Zenon DEF Vouches
  <2> HIDE DEF R
  <2>4. Cardinality(R) < Threshold[s.policy]
    BY <2>1, <2>2, <2>3, Quorums, Zenon
  <2> QED BY <2>4, Zenon DEF R
<1>9. RotatedIsFinal
  <2> SUFFICES ASSUME NEW h \in rotated
               PROVE  /\ ~Lives("old")
                      /\ \A s \in settled : IsPrefix(s.head, h) \/ (s.policy = "new" /\ IsPrefix(h, s.head))
    BY Zenon DEF RotatedIsFinal
  <2>1. h \in Journal /\ Upheld("new", h, H)
    BY Zenon DEF RInv
  <2>2. ~Lives("old")
    BY <1>1, <2>1, NewUpheld, OldRetired, Zenon
  <2>3. ASSUME NEW s \in settled PROVE IsPrefix(s.head, h) \/ (s.policy = "new" /\ IsPrefix(h, s.head))
    <3>1. s.head \in Journal /\ s.policy \in Policies /\ Upheld(s.policy, s.head, H)
      BY <1>1, Zenon
    <3>2. CASE s.policy = "old"
      BY <1>1, <2>1, <3>1, <3>2, AcrossPolicies, Zenon
    <3>3. CASE s.policy = "new"
      BY <1>1, <2>1, <3>1, <3>3, SamePolicy, Zenon
    <3> QED BY <1>2, <3>1, <3>2, <3>3, Zenon
  <2> QED BY <2>2, <2>3, Zenon
<1> QED BY <1>6, <1>7, <1>8, <1>9, Zenon

\* The inductive invariant holds throughout.
LEMMA Invariant == RSpec => []IndInv
<1> QED BY InitInv, NextInd, PTL DEF RSpec

\* At no moment, whoever runs the rotation, wherever it stops and whatever arrives
\* late, could the old and the new quorum both decide (quorum_rotation.go:289-290).
THEOREM OneQuorum == RSpec => []OneQuorumLives
BY Invariant, IndOneQuorum, PTL

\* The heads that callers are given as a quorum's are one journal growing, under one
\* policy and across a rotation; no quorum can form that has not heard of one of
\* them; a rotation that returned success has retired the old quorum at a head that
\* continues all it settled; and no witness gives up a head
\* (quorum_head_store.go:173-344, quorum_rotation.go:273-432).
THEOREM NothingSettledIsLost == RSpec => SettledStays
<1>1. IndInv /\ [RNext]_allvars => [\A w \in Witnesses : IsPrefix(wit[w].head, wit'[w].head)]_vars
  <2>1. UNCHANGED allvars => UNCHANGED vars
    BY Zenon DEF allvars
  <2> QED BY <2>1, HeadsGrow, Zenon
<1>2. RSpec => []IndInv /\ [][RNext]_allvars
  BY Invariant, PTL DEF RSpec
<1>3. IndInv => TypeOK /\ RTypeOK /\ NoFork /\ SettledIsKept /\ NothingLost /\ RotatedIsFinal
  BY IndTypes, IndSettled, Zenon
<1> QED BY <1>1, <1>2, <1>3, PTL DEF SettledStays, WitnessForward
=============================================================================
