-------------------- MODULE KubernetesReplayGuardProofs --------------------
(***************************************************************************)
(* Proofs about KubernetesReplayGuard for any number of callers, any set   *)
(* of details and any number of calls.                                     *)
(***************************************************************************)
EXTENDS KubernetesReplayGuard, TLAPS

\* What a write of a caller is, and that it is one: no caller writes a record
\* without a state.
LEMMA WriteOfType ==
  ASSUME TypeOK, NEW c \in Callers
  PROVE  /\ WriteOf(c) \in Write
         /\ WriteOf(c).state \in {"ISSUED", "CLAIMED"} \cup Final
BY Zenon DEF TypeOK, WriteOf, Write, ConfigMap, StoredState, Detail, Final

\* Storing a legal write moves the record one legal transition forward and
\* makes every other write that was legal before stale.
LEMMA StoreLegal ==
  ASSUME TypeOK, NEW w \in Write, Accepts(w), LegalChange(cm, w), Store(w),
         cm.rv = 0 <=> cm.state = "NONE",
         cm.state \notin Final => cm.detail = NoDetail
  PROVE  /\ cm' \in ConfigMap
         /\ cm'.rv = cm.rv + 1
         /\ cm'.state = w.state
         /\ cm'.detail = w.detail
         /\ StateOf(cm') = w.state
         /\ cm.state \notin Final
         /\ cm'.state # "NONE"
         /\ cm'.state \notin Final => cm'.detail = NoDetail
         /\ Rank[StateOf(cm)] <= Rank[StateOf(cm')]
         /\ \A x \in Write : LegalIfAccepted(x) => LegalIfAccepted(x)'
<1>1. cm \in ConfigMap /\ cm.rv \in Nat /\ w.rv \in Nat
  BY Zenon DEF TypeOK, ConfigMap, Write
<1>2. cm' = [rv |-> cm.rv + 1, state |-> w.state, detail |-> w.detail]
  BY Zenon DEF Store
<1>3. cm' \in ConfigMap
  BY <1>1, <1>2 DEF ConfigMap, Write
<1>4. /\ w.state \in {"ISSUED", "CLAIMED"} \cup Final
      /\ cm.state \notin Final
      /\ w.state \notin Final => w.detail = NoDetail
  BY Zenon DEF LegalChange, StateOf, Final
<1>5. StateOf(cm') = w.state /\ cm'.state # "NONE"
  BY <1>2, <1>4, Zenon DEF StateOf, Final
<1>6. Rank[StateOf(cm)] <= Rank[StateOf(cm')]
  BY <1>4, <1>5 DEF Rank, StoredState, LegalChange, Final, StateOf
<1>7. ASSUME NEW x \in Write, LegalIfAccepted(x)
      PROVE  LegalIfAccepted(x)'
  <2>1. x.rv \in Nat /\ x.rv <= cm.rv /\ cm'.rv = cm.rv + 1
    BY <1>2, <1>7, Zenon DEF Write, LegalIfAccepted
  <2>2. x.rv <= cm'.rv /\ cm'.rv # x.rv
    BY <2>1, <1>1
  <2> QED
    BY <2>2, Zenon DEF LegalIfAccepted, Accepts
<1> QED
  BY <1>2, <1>3, <1>4, <1>5, <1>6, <1>7, Zenon

\* The invariant holds of an absent record and of a legacy one.
LEMMA InitInd == Init => IndInv
<1> SUFFICES ASSUME Init PROVE IndInv
  BY Zenon
<1>1. TypeOK
  BY MaxCallsAssumption DEF Init, TypeOK, Absent, Legacy, ConfigMap, StoredState, Detail, Final
<1>2. WritesStayLegal
  BY Zenon DEF Init, WritesStayLegal, Writing
<1>3. /\ cm.rv = 0 <=> cm.state = "NONE"
      /\ cm.state \notin Final => cm.detail = NoDetail
  BY DEF Init, Absent, Legacy
<1>4. ClaimAtMostOnce /\ FinalizationAgreement /\ granted # 1
  BY DEF Init, ClaimAtMostOnce, FinalizationAgreement
<1>5. \A c \in Callers : Rank[observed[c]] <= Rank[StateOf(cm)]
  <2>1. StateOf(cm) = "NONE" \/ StateOf(cm) = "CLAIMED"
    BY DEF Init, Absent, Legacy, StateOf
  <2>2. \A c \in Callers : observed[c] = "NONE"
    BY Zenon DEF Init
  <2>3. Rank["NONE"] = 0 /\ Rank["CLAIMED"] = 2
    BY Zenon DEF Rank, StoredState
  <2>4. 0 <= Rank[StateOf(cm)]
    BY <2>1, <2>3
  <2> QED
    BY <2>2, <2>3, <2>4, Zenon
<1> QED
  BY <1>1, <1>2, <1>3, <1>4, <1>5, Zenon DEF IndInv

\* The part of the invariant that speaks of the record and of what callers
\* were told, when the record is left alone.
LEMMA UnchangedRecord ==
  ASSUME IndInv, TypeOK', UNCHANGED <<cm, granted, acked, observed>>, WritesStayLegal'
  PROVE  IndInv'
BY Zenon DEF IndInv, ClaimAtMostOnce, FinalizationAgreement, StateOf, Rank

\* Nothing changes for the writes of callers that do not move.
LEMMA OthersStayLegal ==
  ASSUME WritesStayLegal, NEW c \in Callers, NEW l, TypeOK, Goto(c, l),
         UNCHANGED <<cm, orphans>>,
         seen' = seen \/ seen' = [seen EXCEPT ![c] = cm],
         \A x \in Callers \ {c} : goal'[x] = goal[x],
         l \in Writing => LegalIfAccepted(WriteOf(c))'
  PROVE  WritesStayLegal'
<1>1. ASSUME NEW x \in Callers, pc'[x] \in Writing, x # c
      PROVE  LegalIfAccepted(WriteOf(x))'
  <2>1. pc'[x] = pc[x] /\ goal'[x] = goal[x] /\ seen'[x] = seen[x]
    BY <1>1, Zenon DEF Goto, TypeOK
  <2>2. WriteOf(x)' = WriteOf(x)
    BY <2>1, Zenon DEF WriteOf
  <2>3. LegalIfAccepted(WriteOf(x))
    BY <1>1, <2>1, Zenon DEF WritesStayLegal
  <2> QED
    BY <2>2, <2>3, Zenon DEF LegalIfAccepted, Accepts, LegalChange, StateOf
<1>2. pc'[c] = l
  BY Zenon DEF Goto, TypeOK
<1>3. \A w \in orphans' : LegalIfAccepted(w)'
  BY Zenon DEF WritesStayLegal, LegalIfAccepted, Accepts, LegalChange, StateOf
<1> QED
  BY <1>1, <1>2, <1>3, Zenon DEF WritesStayLegal

\* A step of a caller that leaves the record, and what callers were told of
\* it, alone preserves the invariant.
LEMMA QuietStep ==
  ASSUME IndInv, NEW c \in Callers, NEW l \in {"idle"} \cup Reading \cup Writing,
         Goto(c, l),
         UNCHANGED <<cm, orphans, granted, acked, observed>>,
         calls' \in 0..MaxCalls,
         goal' \in [Callers -> Final \X Detail],
         seen' = seen \/ seen' = [seen EXCEPT ![c] = cm],
         \A x \in Callers \ {c} : goal'[x] = goal[x],
         l \in Writing => LegalIfAccepted(WriteOf(c))'
  PROVE  IndInv'
<1>1. TypeOK'
  BY ZenonT(30) DEF IndInv, TypeOK, Goto
<1>2. WritesStayLegal'
  BY OthersStayLegal, Zenon DEF IndInv
<1> QED
  BY <1>1, <1>2, UnchangedRecord, Zenon

\* A step of a caller that stores its write: the claim count and the
\* acknowledgements may change with it, the conditions say how.
LEMMA StoreStep ==
  ASSUME IndInv, NEW w \in Write, Accepts(w), LegalIfAccepted(w), Store(w),
         pc' \in [Callers -> {"idle"} \cup Reading \cup Writing],
         \A x \in Callers : pc'[x] \in Writing => pc'[x] = pc[x],
         orphans' \subseteq orphans,
         UNCHANGED <<goal, seen, calls, observed>>,
         \/ granted' = granted
         \/ w.state = "CLAIMED" /\ granted' = granted + 1,
         \/ acked' = acked
         \/ w.state \in Final /\ acked' = acked \cup {<<w.state, w.detail>>}
  PROVE  IndInv'
<1>1. /\ cm' \in ConfigMap
      /\ cm'.rv = cm.rv + 1
      /\ cm'.state = w.state
      /\ cm'.detail = w.detail
      /\ StateOf(cm') = w.state
      /\ cm.state \notin Final
      /\ cm'.state # "NONE"
      /\ cm'.state \notin Final => cm'.detail = NoDetail
      /\ Rank[StateOf(cm)] <= Rank[StateOf(cm')]
      /\ \A x \in Write : LegalIfAccepted(x) => LegalIfAccepted(x)'
  BY StoreLegal, Zenon DEF IndInv, LegalIfAccepted
<1>2. acked = {}
  BY <1>1 DEF IndInv, TypeOK, FinalizationAgreement
<1>3. granted = 1 => StateOf(cm) = "CLAIMED" /\ w.state \in Final
  BY Zenon DEF IndInv, LegalIfAccepted, LegalChange, StateOf, Final
<1>4. granted \in {0, 1}
  BY DEF IndInv, TypeOK, ClaimAtMostOnce
<1>5. TypeOK'
  <2>1. acked' \subseteq Final \X Detail
    BY DEF IndInv, TypeOK, Write
  <2> QED
    BY <1>1, <1>4, <2>1 DEF IndInv, TypeOK
<1>6. WritesStayLegal'
  <2>1. ASSUME NEW x \in Callers, pc'[x] \in Writing
        PROVE  LegalIfAccepted(WriteOf(x))'
    <3>1. WriteOf(x)' = WriteOf(x) /\ pc[x] \in Writing
      BY <2>1, Zenon DEF WriteOf
    <3>2. LegalIfAccepted(WriteOf(x)) /\ WriteOf(x) \in Write
      BY <3>1, WriteOfType, Zenon DEF IndInv, WritesStayLegal
    <3> DEFINE y == WriteOf(x)
    <3>3. LegalIfAccepted(y)'
      <4>1. y' = y
        BY <3>1, Zenon
      <4>2. y.rv <= cm'.rv /\ cm'.rv # y.rv
        <5>1. y.rv \in Nat /\ y.rv <= cm.rv /\ cm.rv \in Nat
          BY <3>2, Zenon DEF Write, LegalIfAccepted, IndInv, TypeOK, ConfigMap
        <5> HIDE DEF y
        <5> QED
          BY <5>1, <1>1
      <4> QED
        BY <4>1, <4>2, Zenon DEF LegalIfAccepted, Accepts
    <3> QED
      BY <3>3, Zenon
  <2>2. \A x \in orphans' : LegalIfAccepted(x)'
    BY <1>1, Zenon DEF IndInv, TypeOK, WritesStayLegal
  <2> QED
    BY <2>1, <2>2, Zenon DEF WritesStayLegal
<1>7. ClaimAtMostOnce' /\ (granted' = 1 => StateOf(cm') \in {"CLAIMED"} \cup Final)
  BY <1>1, <1>3, <1>4 DEF ClaimAtMostOnce, Final
<1>8. FinalizationAgreement'
  BY <1>1, <1>2, Zenon DEF FinalizationAgreement
<1>9. \A c \in Callers : Rank[observed'[c]] <= Rank[StateOf(cm')]
  <2>1. StateOf(cm) \in StoredState /\ StateOf(cm') \in StoredState
    BY <1>1, Zenon DEF IndInv, TypeOK, ConfigMap, StateOf, StoredState
  <2>2. \A c \in Callers : observed[c] \in StoredState
    BY Zenon DEF IndInv, TypeOK
  <2>3. \A x, y, z \in StoredState :
          Rank[x] <= Rank[y] /\ Rank[y] <= Rank[z] => Rank[x] <= Rank[z]
    <3>1. \A x \in StoredState : Rank[x] \in Nat
      BY Zenon DEF Rank
    <3> QED
      BY <3>1
  <2> QED
    BY <1>1, <2>1, <2>2, <2>3, Zenon DEF IndInv
<1>10. (cm.rv = 0 <=> cm.state = "NONE")'
  BY <1>1 DEF IndInv, TypeOK, ConfigMap
<1> QED
  BY <1>1, <1>5, <1>6, <1>7, <1>8, <1>9, <1>10, Zenon DEF IndInv

\* One step per action.
LEMMA NextInd == IndInv /\ [Next]_vars => IndInv'
<1> SUFFICES ASSUME IndInv, [Next]_vars PROVE IndInv'
  BY Zenon
<1>0. TypeOK /\ WritesStayLegal
  BY Zenon DEF IndInv
<1>1. ASSUME NEW c \in Callers, NEW l \in {"issueCreate", "claimGet", "stateGet", "finalizeGet"},
             Begin(c, l), goal' \in [Callers -> Final \X Detail],
             \A x \in Callers \ {c} : goal'[x] = goal[x]
      PROVE  IndInv'
  <2>1. calls' \in 0..MaxCalls
    BY <1>0, <1>1, MaxCallsAssumption DEF Begin, TypeOK
  <2>2. ASSUME l \in Writing PROVE LegalIfAccepted(WriteOf(c))'
    <3>1. l = "issueCreate" /\ pc'[c] = "issueCreate"
      BY <1>0, <1>1, <2>2, Zenon DEF Writing, Begin, Goto, TypeOK
    <3>2. WriteOf(c)' = [rv |-> 0, state |-> "ISSUED", detail |-> NoDetail]
      BY <3>1, Zenon DEF WriteOf
    <3>3. cm' = cm /\ cm.rv \in Nat
      BY <1>0, <1>1, Zenon DEF Begin, TypeOK, ConfigMap
    <3> QED
      BY <3>2, <3>3 DEF LegalIfAccepted, Accepts, LegalChange, StateOf, IndInv, Final
  <2>3. l \in {"idle"} \cup Reading \cup Writing
    BY Zenon DEF Reading, Writing
  <2>4. Goto(c, l) /\ UNCHANGED <<cm, seen, orphans, granted, acked, observed>>
    BY <1>1, Zenon DEF Begin
  <2> QED
    BY <1>1, <2>1, <2>2, <2>3, <2>4, QuietStep, Zenon
<1>2. ASSUME NEW c \in Callers, Issue(c) \/ Claim(c) \/ State(c) PROVE IndInv'
  BY <1>0, <1>1, <1>2, Zenon DEF Issue, Claim, State, TypeOK
<1>3. ASSUME NEW c \in Callers, NEW d \in Detail, Consume(c, d) \/ (d \in Details /\ Abort(c, d))
      PROVE  IndInv'
  <2>1. /\ Begin(c, "finalizeGet")
        /\ goal' \in [Callers -> Final \X Detail]
        /\ \A x \in Callers \ {c} : goal'[x] = goal[x]
    BY <1>0, <1>3 DEF Consume, Abort, TypeOK, Final
  <2> QED
    BY <1>1, <2>1, Zenon
<1>4. ASSUME NEW c \in Callers, UNCHANGED <<cm, goal, calls, orphans, granted, acked, observed>>,
             seen' = seen \/ seen' = [seen EXCEPT ![c] = cm],
             NEW l \in {"idle"} \cup Reading \cup Writing, Goto(c, l),
             l \in Writing => LegalIfAccepted(WriteOf(c))'
      PROVE  IndInv'
  <2>1. calls' \in 0..MaxCalls /\ goal' \in [Callers -> Final \X Detail]
    BY <1>0, <1>4, Zenon DEF TypeOK
  <2>2. \A x \in Callers \ {c} : goal'[x] = goal[x]
    BY <1>4, Zenon
  <2> QED
    BY <1>4, <2>1, <2>2, QuietStep, Zenon
<1>5. ASSUME NEW c \in Callers, IssueCreate(c) PROVE IndInv'
  <2>1. CASE Accepts(WriteOf(c)) /\ Store(WriteOf(c)) /\ Return(c)
    <3>1. /\ WriteOf(c) \in Write
          /\ LegalIfAccepted(WriteOf(c))
      BY <1>0, <1>5, WriteOfType, Zenon DEF WritesStayLegal, IssueCreate, Writing
    <3>2. /\ pc' \in [Callers -> {"idle"} \cup Reading \cup Writing]
          /\ \A x \in Callers : pc'[x] \in Writing => pc'[x] = pc[x]
      BY <1>0, <2>1, Zenon DEF Return, Goto, TypeOK, Writing
    <3> QED
      BY <1>5, <2>1, <3>1, <3>2, StoreStep, Zenon DEF IssueCreate
  <2>2. CASE Goto(c, "issueGet") /\ UNCHANGED cm
    BY <1>4, <1>5, <2>2, Zenon DEF IssueCreate, Reading, Writing
  <2> QED
    BY <1>5, <2>1, <2>2, Zenon DEF IssueCreate
<1>6. ASSUME NEW c \in Callers, IssueGet(c) \/ ReadFails(c) PROVE IndInv'
  BY <1>4, <1>6, Zenon DEF IssueGet, ReadFails, Return, Reading, Writing
<1>7. ASSUME NEW c \in Callers, ClaimGet(c) PROVE IndInv'
  <2>1. seen' = [seen EXCEPT ![c] = cm] /\ seen'[c] = cm /\ cm' = cm
    BY <1>0, <1>7, Zenon DEF ClaimGet, TypeOK
  <2>2. CASE cm.rv = 0 /\ Goto(c, "claimCreate")
    <3>1. pc'[c] = "claimCreate"
      BY <1>0, <2>2, Zenon DEF Goto, TypeOK
    <3>2. WriteOf(c)' = [rv |-> 0, state |-> "CLAIMED", detail |-> NoDetail]
      BY <3>1, Zenon DEF WriteOf
    <3>3. LegalIfAccepted(WriteOf(c))'
      BY <2>1, <2>2, <3>2 DEF LegalIfAccepted, Accepts, LegalChange, StateOf, IndInv, Final
    <3> QED
      BY <1>4, <1>7, <2>1, <2>2, <3>3, Zenon DEF ClaimGet, Writing
  <2>3. CASE cm.rv # 0 /\ StateOf(cm) = "ISSUED" /\ Goto(c, "claimUpdate")
    <3>1. pc'[c] = "claimUpdate"
      BY <1>0, <2>3, Zenon DEF Goto, TypeOK
    <3>2. WriteOf(c)' = [rv |-> cm.rv, state |-> "CLAIMED", detail |-> NoDetail]
      BY <2>1, <3>1, Zenon DEF WriteOf
    <3>3. cm.detail = NoDetail /\ cm.rv \in Nat
      BY <1>0, <2>3, Zenon DEF IndInv, StateOf, Final, TypeOK, ConfigMap
    <3>4. LegalIfAccepted(WriteOf(c))'
      BY <2>1, <2>3, <3>2, <3>3 DEF LegalIfAccepted, Accepts, LegalChange, StateOf
    <3> QED
      BY <1>4, <1>7, <2>1, <2>3, <3>4, Zenon DEF ClaimGet, Writing
  <2>4. CASE Return(c)
    BY <1>4, <1>7, <2>1, <2>4, Zenon DEF ClaimGet, Return, Writing
  <2> QED
    BY <1>7, <2>2, <2>3, <2>4, Zenon DEF ClaimGet
<1>8. ASSUME NEW c \in Callers, ClaimWrite(c) PROVE IndInv'
  <2>1. CASE Accepts(WriteOf(c)) /\ Store(WriteOf(c)) /\ granted' = granted + 1
    <3>1. /\ WriteOf(c) \in Write
          /\ LegalIfAccepted(WriteOf(c))
          /\ WriteOf(c).state = "CLAIMED"
      BY <1>0, <1>8, WriteOfType, Zenon DEF WritesStayLegal, ClaimWrite, Writing, WriteOf
    <3>2. /\ pc' \in [Callers -> {"idle"} \cup Reading \cup Writing]
          /\ \A x \in Callers : pc'[x] \in Writing => pc'[x] = pc[x]
      BY <1>0, <1>8, Zenon DEF ClaimWrite, Return, Goto, TypeOK, Writing
    <3> QED
      BY <1>8, <2>1, <3>1, <3>2, StoreStep, Zenon DEF ClaimWrite
  <2>2. CASE UNCHANGED <<cm, granted>>
    BY <1>4, <1>8, <2>2, Zenon DEF ClaimWrite, Return, Writing
  <2> QED
    BY <1>8, <2>1, <2>2, Zenon DEF ClaimWrite
\* A caller that finds its own goal on record is told so; nothing else changes.
<1>9. ASSUME NEW c \in Callers, AlreadyFinal(c), Acknowledge(c), Return(c),
             UNCHANGED <<cm, goal, calls, orphans, granted, observed>>,
             seen' = seen \/ seen' = [seen EXCEPT ![c] = cm]
      PROVE  IndInv'
  <2>1. goal[c] \in Final \X Detail /\ goal[c] = <<cm.state, cm.detail>>
    BY <1>0, <1>9 DEF AlreadyFinal, TypeOK, StateOf, Final
  <2>2. TypeOK'
    BY <1>0, <1>9, <2>1, Zenon DEF TypeOK, Acknowledge, Return, Goto
  <2>3. FinalizationAgreement'
    BY <1>9, <2>1, Zenon DEF IndInv, FinalizationAgreement, Acknowledge
  <2>4. WritesStayLegal'
    BY <1>0, <1>9, OthersStayLegal, Zenon DEF Return, Writing
  <2> QED
    BY <1>9, <2>2, <2>3, <2>4, Zenon DEF IndInv, ClaimAtMostOnce, StateOf
<1>10. ASSUME NEW c \in Callers, FinalizeGet(c) PROVE IndInv'
  <2>1. seen' = [seen EXCEPT ![c] = cm] /\ seen'[c] = cm /\ cm' = cm
    BY <1>0, <1>10, Zenon DEF FinalizeGet, TypeOK
  <2>2. CASE StateOf(cm) = "CLAIMED" /\ Goto(c, "finalizeUpdate") /\ UNCHANGED acked
    <3>1. pc'[c] = "finalizeUpdate" /\ goal' = goal /\ goal[c] \in Final \X Detail
      BY <1>0, <1>10, <2>2, Zenon DEF Goto, TypeOK, FinalizeGet
    <3>2. WriteOf(c)' = [rv |-> cm.rv, state |-> goal[c][1], detail |-> goal[c][2]]
      BY <2>1, <3>1, Zenon DEF WriteOf
    <3>3. cm.rv \in Nat /\ goal[c][1] \in Final
      BY <1>0, <3>1, Zenon DEF TypeOK, ConfigMap
    <3>4. LegalIfAccepted(WriteOf(c))'
      BY <2>1, <2>2, <3>2, <3>3 DEF LegalIfAccepted, Accepts, LegalChange, StateOf
    <3> QED
      BY <1>4, <1>10, <2>1, <2>2, <3>4, Zenon DEF FinalizeGet, Writing
  <2>3. CASE AlreadyFinal(c) /\ Acknowledge(c) /\ Return(c)
    BY <1>9, <1>10, <2>1, <2>3, Zenon DEF FinalizeGet
  <2>4. CASE Return(c) /\ UNCHANGED acked
    BY <1>4, <1>10, <2>1, <2>4, Zenon DEF FinalizeGet, Return, Writing
  <2> QED
    BY <1>10, <2>2, <2>3, <2>4, Zenon DEF FinalizeGet
<1>11. ASSUME NEW c \in Callers, FinalizeUpdate(c) PROVE IndInv'
  <2>1. CASE Accepts(WriteOf(c)) /\ Store(WriteOf(c)) /\ Acknowledge(c) /\ Return(c)
    <3>1. /\ WriteOf(c) \in Write
          /\ LegalIfAccepted(WriteOf(c))
      BY <1>0, <1>11, WriteOfType, Zenon DEF WritesStayLegal, FinalizeUpdate, Writing
    <3>2. /\ WriteOf(c).state \in Final
          /\ <<WriteOf(c).state, WriteOf(c).detail>> = goal[c]
      BY <1>0, <1>11 DEF FinalizeUpdate, WriteOf, TypeOK
    <3>3. /\ pc' \in [Callers -> {"idle"} \cup Reading \cup Writing]
          /\ \A x \in Callers : pc'[x] \in Writing => pc'[x] = pc[x]
      BY <1>0, <2>1, Zenon DEF Return, Goto, TypeOK, Writing
    <3> QED
      BY <1>11, <2>1, <3>1, <3>2, <3>3, StoreStep, Zenon DEF FinalizeUpdate, Acknowledge
  <2>2. CASE Goto(c, "resolveGet") /\ UNCHANGED <<cm, acked>>
    BY <1>4, <1>11, <2>2, Zenon DEF FinalizeUpdate, Reading, Writing
  <2> QED
    BY <1>11, <2>1, <2>2, Zenon DEF FinalizeUpdate
<1>12. ASSUME NEW c \in Callers, ResolveGet(c) PROVE IndInv'
  <2>1. CASE AlreadyFinal(c) /\ Acknowledge(c)
    BY <1>9, <1>12, <2>1, Zenon DEF ResolveGet
  <2>2. CASE UNCHANGED acked
    BY <1>4, <1>12, <2>2, Zenon DEF ResolveGet, Return, Writing
  <2> QED
    BY <1>12, <2>1, <2>2, Zenon DEF ResolveGet
<1>13. ASSUME NEW c \in Callers, StateGet(c) PROVE IndInv'
  <2>1. StateOf(cm) \in StoredState \ {"LEGACY"}
    BY <1>0, Zenon DEF TypeOK, ConfigMap, StateOf, StoredState
  <2>2. TypeOK'
    BY <1>0, <1>13, <2>1, Zenon DEF TypeOK, StateGet, Return, Goto
  <2>3. WritesStayLegal'
    BY <1>0, <1>13, OthersStayLegal, Zenon DEF StateGet, Return, Writing
  <2>4. Rank[StateOf(cm)] <= Rank[StateOf(cm)]
    BY <2>1 DEF Rank
  <2>5. \A x \in Callers : Rank[observed'[x]] <= Rank[StateOf(cm)]
    BY <1>0, <1>13, <2>1, <2>4, Zenon DEF StateGet, IndInv, TypeOK
  <2>6. StateOf(cm') = StateOf(cm)
    BY <1>13, Zenon DEF StateGet
  <2> QED
    BY <1>13, <2>2, <2>3, <2>5, <2>6, Zenon DEF StateGet, IndInv, ClaimAtMostOnce, FinalizationAgreement
<1>14. ASSUME NEW c \in Callers, WriteFails(c) PROVE IndInv'
  <2>1. WriteOf(c) \in Write /\ LegalIfAccepted(WriteOf(c))
    BY <1>0, <1>14, WriteOfType, Zenon DEF WriteFails, WritesStayLegal
  <2>2. TypeOK'
    BY <1>0, <1>14, <2>1, Zenon DEF TypeOK, WriteFails, Return, Goto
  <2>3. \A w \in orphans' : LegalIfAccepted(w)'
    BY <1>0, <1>14, <2>1, Zenon DEF WriteFails, WritesStayLegal, LegalIfAccepted, Accepts, LegalChange, StateOf
  <2>4. ASSUME NEW x \in Callers, pc'[x] \in Writing PROVE LegalIfAccepted(WriteOf(x))'
    <3>1. pc'[x] = pc[x] /\ goal' = goal /\ seen' = seen /\ cm' = cm
      BY <1>0, <1>14, <2>4, Zenon DEF WriteFails, Return, Goto, TypeOK, Writing
    <3>2. WriteOf(x)' = WriteOf(x) /\ LegalIfAccepted(WriteOf(x))
      BY <1>0, <2>4, <3>1, Zenon DEF WriteOf, WritesStayLegal
    <3> QED
      BY <3>1, <3>2, Zenon DEF LegalIfAccepted, Accepts, LegalChange, StateOf
  <2>5. WritesStayLegal'
    BY <2>3, <2>4, Zenon DEF WritesStayLegal
  <2> QED
    BY <1>14, <2>2, <2>5, UnchangedRecord, Zenon DEF WriteFails
<1>15. ASSUME NEW w \in orphans, OrphanArrives(w) PROVE IndInv'
  <2>1. w \in Write /\ LegalIfAccepted(w)
    BY <1>0, <1>15, Zenon DEF TypeOK, WritesStayLegal
  <2>2. CASE Accepts(w) /\ Store(w)
    <3>1. pc' \in [Callers -> {"idle"} \cup Reading \cup Writing]
      BY <1>0, <1>15, Zenon DEF OrphanArrives, TypeOK
    <3> QED
      BY <1>15, <2>1, <2>2, <3>1, StoreStep, Zenon DEF OrphanArrives
  <2>3. CASE UNCHANGED cm
    <3>1. TypeOK'
      BY <1>0, <1>15, <2>3, Zenon DEF OrphanArrives, TypeOK
    <3>2. WritesStayLegal'
      BY <1>0, <1>15, <2>3
      DEF OrphanArrives, WritesStayLegal, WriteOf, LegalIfAccepted, Accepts, LegalChange, StateOf
    <3> QED
      BY <1>15, <2>3, <3>1, <3>2, UnchangedRecord, Zenon DEF OrphanArrives
  <2> QED
    BY <1>15, <2>2, <2>3, Zenon DEF OrphanArrives
<1>16. CASE UNCHANGED vars
  <2>1. TypeOK'
    BY <1>0, <1>16, Zenon DEF vars, TypeOK
  <2>2. WritesStayLegal'
    BY <1>0, <1>16
    DEF vars, WritesStayLegal, WriteOf, LegalIfAccepted, Accepts, LegalChange, StateOf
  <2> QED
    BY <1>16, <2>1, <2>2, UnchangedRecord, Zenon DEF vars
<1> QED
  BY <1>2, <1>3, <1>5, <1>6, <1>7, <1>8, <1>10, <1>11, <1>12, <1>13, <1>14, <1>15, <1>16, Zenon
  DEF Next, Step, Detail

\* The invariant holds in every reachable state.
THEOREM Invariance == Spec => []IndInv
BY InitInd, NextInd, PTL DEF Spec

\* The state keeps its shape.
THEOREM TypeCorrect == Spec => []TypeOK
<1>1. IndInv => TypeOK
  BY Zenon DEF IndInv
<1> QED
  BY <1>1, Invariance, PTL

\* Claim returns nil at most once for an authorization, for any number of
\* racing replicas and any writes lost or delayed.
THEOREM ClaimSafety == Spec => []ClaimAtMostOnce
<1>1. IndInv => ClaimAtMostOnce
  BY Zenon DEF IndInv
<1> QED
  BY <1>1, Invariance, PTL

\* What a Consume or Abort that returned nil wrote is on record for ever.
THEOREM FinalizationSafety == Spec => []FinalizationAgreement
<1>1. IndInv => FinalizationAgreement
  BY Zenon DEF IndInv
<1> QED
  BY <1>1, Invariance, PTL

\* A write in flight, accepted, is always a legal transition.
THEOREM WriteSafety == Spec => []WritesStayLegal
<1>1. IndInv => WritesStayLegal
  BY Zenon DEF IndInv
<1> QED
  BY <1>1, Invariance, PTL

\* In a step, the ConfigMap either stays or takes a legal write; and the
\* claim is granted, and a finalization acknowledged, only as the abstract
\* lifecycle has it.
LEMMA RecordStep ==
  ASSUME IndInv, Next
  PROVE  \/ UNCHANGED <<cm, granted, acked>>
         \/ /\ \E w \in Write : /\ Accepts(w) /\ LegalChange(cm, w) /\ Store(w)
                                 /\ \/ UNCHANGED <<granted, acked>>
                                    \/ /\ w.state = "CLAIMED"
                                       /\ granted' = granted + 1
                                       /\ acked' = acked
                                    \/ /\ w.state \in Final
                                       /\ granted' = granted
                                       /\ acked' = acked \cup {<<w.state, w.detail>>}
         \/ /\ UNCHANGED <<cm, granted>>
            /\ cm.state \in Final
            /\ acked' = acked \cup {<<cm.state, cm.detail>>}
<1>0. TypeOK /\ WritesStayLegal
  BY Zenon DEF IndInv
<1>1. ASSUME NEW c \in Callers, pc[c] \in Writing
      PROVE  WriteOf(c) \in Write /\ (Accepts(WriteOf(c)) => LegalChange(cm, WriteOf(c)))
  BY <1>0, <1>1, WriteOfType, Zenon DEF WritesStayLegal, LegalIfAccepted
<1>2. ASSUME NEW c \in Callers, IssueCreate(c) \/ ClaimWrite(c) \/ FinalizeUpdate(c)
      PROVE  \/ UNCHANGED <<cm, granted, acked>>
             \/ /\ Accepts(WriteOf(c)) /\ LegalChange(cm, WriteOf(c)) /\ Store(WriteOf(c))
                /\ WriteOf(c) \in Write
                /\ \/ UNCHANGED <<granted, acked>>
                   \/ /\ WriteOf(c).state = "CLAIMED"
                      /\ granted' = granted + 1
                      /\ acked' = acked
                   \/ /\ WriteOf(c).state \in Final
                      /\ granted' = granted
                      /\ acked' = acked \cup {<<WriteOf(c).state, WriteOf(c).detail>>}
  <2>1. CASE IssueCreate(c)
    BY <1>1, <2>1, Zenon DEF IssueCreate, Writing
  <2>2. CASE ClaimWrite(c)
    <3>1. WriteOf(c).state = "CLAIMED"
      BY <2>2, Zenon DEF ClaimWrite, WriteOf
    <3> QED
      BY <1>1, <2>2, <3>1, Zenon DEF ClaimWrite, Writing
  <2>3. CASE FinalizeUpdate(c)
    <3>1. WriteOf(c).state \in Final /\ <<WriteOf(c).state, WriteOf(c).detail>> = goal[c]
      BY <1>0, <2>3 DEF FinalizeUpdate, WriteOf, TypeOK
    <3> QED
      BY <1>1, <2>3, <3>1, Zenon DEF FinalizeUpdate, Writing, Acknowledge
  <2> QED
    BY <1>2, <2>1, <2>2, <2>3, Zenon
<1>3. ASSUME NEW c \in Callers, FinalizeGet(c) \/ ResolveGet(c)
      PROVE  \/ UNCHANGED <<cm, granted, acked>>
             \/ /\ UNCHANGED <<cm, granted>>
                /\ cm.state \in Final
                /\ acked' = acked \cup {<<cm.state, cm.detail>>}
  <2>1. AlreadyFinal(c) => cm.state \in Final /\ goal[c] = <<cm.state, cm.detail>>
    BY <1>0 DEF AlreadyFinal, TypeOK, StateOf, Final
  <2> QED
    BY <1>3, <2>1, Zenon DEF FinalizeGet, ResolveGet, Acknowledge
<1>4. ASSUME NEW w \in orphans, OrphanArrives(w)
      PROVE  \/ UNCHANGED <<cm, granted, acked>>
             \/ /\ w \in Write /\ Accepts(w) /\ LegalChange(cm, w) /\ Store(w)
                /\ UNCHANGED <<granted, acked>>
  BY <1>0, <1>4, Zenon DEF OrphanArrives, WritesStayLegal, LegalIfAccepted, TypeOK
<1>5. ASSUME NEW c \in Callers, NEW d,
             \/ Issue(c) \/ Claim(c) \/ State(c) \/ Consume(c, d) \/ Abort(c, d)
             \/ IssueGet(c) \/ ClaimGet(c) \/ StateGet(c) \/ ReadFails(c) \/ WriteFails(c)
      PROVE  UNCHANGED <<cm, granted, acked>>
  BY <1>5, Zenon DEF Issue, Claim, State, Consume, Abort, Begin,
              IssueGet, ClaimGet, StateGet, ReadFails, WriteFails
<1> QED
  BY <1>2, <1>3, <1>4, <1>5, Zenon DEF Next, Step

\* The record moves forward only and a final one is never written again.
THEOREM OneWay == Spec => ForwardOnly
<1> DEFINE Fwd == /\ Rank[StateOf(cm)] <= Rank[StateOf(cm')]
                  /\ cm.state \in Final => cm' = cm
<1>1. IndInv /\ [Next]_vars => [Fwd]_vars
  <2> SUFFICES ASSUME IndInv, Next PROVE Fwd
    BY Zenon DEF vars
  <2>1. CASE cm' = cm
    <3>1. StateOf(cm) \in StoredState
      BY Zenon DEF IndInv, TypeOK, ConfigMap, StateOf, StoredState
    <3>2. Rank[StateOf(cm)] \in Nat
      BY <3>1, Zenon DEF Rank
    <3>3. Rank[StateOf(cm)] <= Rank[StateOf(cm)]
      BY ONLY <3>2, SMT
    <3>4. Rank[StateOf(cm)] <= Rank[StateOf(cm')]
      BY ONLY <2>1, <3>3, Zenon
    <3> QED
      BY ONLY <2>1, <3>4, Zenon DEF Fwd
  <2>2. ASSUME NEW w \in Write, Accepts(w), LegalChange(cm, w), Store(w) PROVE Fwd
    BY <2>2, StoreLegal, Zenon DEF IndInv
  <2> QED
    BY <2>1, <2>2, RecordStep, Zenon
<1> QED
  BY <1>1, Invariance, PTL DEF Spec, ForwardOnly

\* Successive State calls of one caller never see the capability go back.
THEOREM ReadsAreMonotone == Spec => MonotoneReads
<1> DEFINE Mono == \A c \in Callers : Rank[observed[c]] <= Rank[observed'[c]]
<1>1. IndInv /\ [Next]_vars => [Mono]_vars
  <2> SUFFICES ASSUME IndInv, Next, NEW x \in Callers
               PROVE  Rank[observed[x]] <= Rank[observed'[x]]
    BY Zenon DEF vars
  <2>1. CASE observed'[x] = observed[x]
    <3>1. Rank[observed[x]] \in Nat
      BY Zenon DEF IndInv, TypeOK, Rank
    <3> QED
      BY <2>1, <3>1
  <2>2. ASSUME NEW c \in Callers, StateGet(c) PROVE Rank[observed[x]] <= Rank[observed'[x]]
    <3>1. observed'[x] = observed[x] \/ observed'[x] = StateOf(cm)
      BY <2>2, Zenon DEF StateGet, IndInv, TypeOK
    <3> QED
      BY <2>1, <3>1, Zenon DEF IndInv
  <2>3. observed' = observed \/ \E c \in Callers : StateGet(c)
    BY Zenon DEF Next, Step, Issue, Claim, State, Consume, Abort, Begin, IssueCreate, IssueGet, ClaimGet,
           ClaimWrite, FinalizeGet, FinalizeUpdate, ResolveGet, ReadFails, WriteFails, OrphanArrives
  <2> QED
    BY <2>1, <2>2, <2>3, Zenon
<1> QED
  BY <1>1, Invariance, PTL DEF Spec, MonotoneReads

\* The ConfigMap guard implements the abstract claim lifecycle: StateOf(cm) is
\* the state on record, and a granted count above zero the granted claim.
THEOREM Refinement == Spec => ImplementsLifecycle
<1>1. Init => Lifecycle!ClaimInit
  BY DEF Init, Absent, Legacy, StateOf, Lifecycle!ClaimInit
<1>2. IndInv /\ [Next]_vars => [Lifecycle!ClaimNext]_(Lifecycle!claimVars)
  <2> SUFFICES ASSUME IndInv, [Next]_vars
               PROVE  Lifecycle!ClaimNext \/ UNCHANGED Lifecycle!claimVars
    BY Zenon
  <2>1. CASE UNCHANGED <<cm, granted, acked>>
    BY <2>1, Zenon DEF Lifecycle!claimVars, StateOf
  <2>2. ASSUME NEW w \in Write, Accepts(w), LegalChange(cm, w), Store(w),
               \/ UNCHANGED <<granted, acked>>
               \/ w.state = "CLAIMED" /\ granted' = granted + 1 /\ acked' = acked
               \/ /\ w.state \in Final
                  /\ granted' = granted
                  /\ acked' = acked \cup {<<w.state, w.detail>>}
        PROVE  Lifecycle!ClaimNext
    <3>1. /\ StateOf(cm') = w.state
          /\ cm'.detail = w.detail
      BY <2>2, StoreLegal, Zenon DEF IndInv
    <3>2. w.detail \in Details \cup {NoDetail} /\ granted \in Nat
      BY Zenon DEF Write, Detail, IndInv, TypeOK
    <3>3. CASE StateOf(cm) = "NONE" /\ w.state = "ISSUED" /\ w.detail = cm.detail
      <4>1. Lifecycle!Issued
        BY <2>2, <3>1, <3>3, Zenon DEF Lifecycle!Issued, Final
      <4> QED
        BY <4>1, Zenon DEF Lifecycle!ClaimNext
    <3>4. CASE StateOf(cm) \in {"NONE", "ISSUED"} /\ w.state = "CLAIMED" /\ w.detail = cm.detail
      <4>1. granted' = granted \/ granted' > 0
        BY <2>2, <3>2
      <4>2. acked' = acked
        BY <2>2, <3>4, Zenon DEF Final
      <4>3. Lifecycle!Claimed
        BY <3>1, <3>4, <4>1, <4>2, Zenon DEF Lifecycle!Claimed
      <4> QED
        BY <4>3, Zenon DEF Lifecycle!ClaimNext
    <3>5. CASE StateOf(cm) = "CLAIMED" /\ w.state \in Final
      <4>1. granted' = granted /\ acked' \in {acked, acked \cup {<<w.state, w.detail>>}}
        BY <2>2, <3>5, Zenon DEF Final
      <4>2. Lifecycle!Finalized(w.state, w.detail)
        BY <3>1, <3>5, <4>1, Zenon DEF Lifecycle!Finalized
      <4> QED
        BY <3>2, <3>5, <4>2, Zenon DEF Lifecycle!ClaimNext, Lifecycle!Final, Final
    <3> QED
      BY <2>2, <3>3, <3>4, <3>5, Zenon DEF LegalChange
  <2>3. CASE /\ UNCHANGED <<cm, granted>>
             /\ cm.state \in Final
             /\ acked' = acked \cup {<<cm.state, cm.detail>>}
    <3>1. StateOf(cm) = cm.state /\ StateOf(cm') = StateOf(cm)
      BY <2>3, Zenon DEF StateOf, Final
    <3>2. Lifecycle!Acknowledged
      BY <2>3, <3>1, Zenon DEF Lifecycle!Acknowledged, Lifecycle!Final, Final
    <3> QED
      BY <3>2, Zenon DEF Lifecycle!ClaimNext
  <2> QED
    BY <2>1, <2>2, <2>3, RecordStep, Zenon DEF vars
<1> QED
  BY <1>1, <1>2, Invariance, PTL DEF Spec, ImplementsLifecycle, Lifecycle!ClaimSpec
=============================================================================
