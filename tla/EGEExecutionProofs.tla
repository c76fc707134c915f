------------------------- MODULE EGEExecutionProofs -------------------------
(***************************************************************************)
(* The properties of EGEExecution for any number of handlers and requests, *)
(* any mix of replicas with and without fencing and any bounds.            *)
(***************************************************************************)
EXTENDS EGEExecution, TLAPS

-----------------------------------------------------------------------------
(* Types, the initial states and what the steps have in common.            *)

\* The idle request is a request.
LEMMA NoRequestType == NoRequest \in Request
BY InstantsAssumption, BoundsAssumption DEF NoRequest, NoPermit, Request, Permit

\* The labels and records a reply leaves behind are well typed.
LEMMA ReplyType ==
  ASSUME TypeOK, NEW h \in Handlers, Reply(h)
  PROVE  pc' \in [Handlers -> Labels] /\ req' \in [Handlers -> Request]
BY NoRequestType, Zenon DEF TypeOK, Reply, Labels

\* A write of the record is well typed, whether or not its caller learns of it.
LEMMA WriteType ==
  ASSUME TypeOK, NEW p \in Permit, NEW from \in SUBSET ClaimState, NEW to \in ClaimState,
         Writes(p, from, to) \/ Errs(p, from, to)
  PROVE  claim' \in [Permit -> ClaimState] /\ late' \subseteq LateType
<1>1. CASE Writes(p, from, to)
  BY <1>1, Zenon DEF TypeOK, Writes
<1>2. CASE Errs(p, from, to)
  <2>. DEFINE w == [permit |-> p, from |-> from, to |-> to]
  <2>1. w \in LateType
    BY Zenon DEF LateType
  <2>. QED
    BY <1>2, <2>1, Zenon DEF TypeOK, Errs, Writes
<1>. QED
  BY <1>1, <1>2, Zenon

\* Every step keeps every variable in its type.
LEMMA TypeInd == TypeOK /\ [Next]_vars => TypeOK'
<1>. SUFFICES ASSUME TypeOK, [Next]_vars PROVE TypeOK'
  BY Zenon
<1>. USE FencedAssumption, BoundsAssumption
<1>1. ASSUME NEW h \in Handlers, PrepareCompose(h) PROVE TypeOK'
  BY <1>1, ReplyType, WriteType, SMTT(30) DEF TypeOK, PrepareCompose, Goto, At, Request, Permit, Labels, store, environment, history
<1>2. ASSUME NEW h \in Handlers, IssueFence(h) PROVE TypeOK'
  <2>1. authority' \in 0..MaxEpoch
    BY <1>2, Zenon DEF IssueFence
  <2>2. CASE authority' = 0
    BY <1>2, <2>1, <2>2, ReplyType, Zenon DEF TypeOK, IssueFence, store, history
  <2>3. CASE authority' # 0
    <3>. DEFINE q == [req[h].permit EXCEPT !.fence = authority']
                r == [req[h] EXCEPT !.permit = q]
    <3>0. q \in Permit
      BY <2>1, <2>3 DEF TypeOK, Request, Permit
    <3>1. r \in Request
      BY <3>0, Zenon DEF TypeOK, Request
    <3>2. req' = [req EXCEPT ![h] = r]
      BY <1>2, <2>3, Zenon DEF IssueFence
    <3>3. req' \in [Handlers -> Request]
      BY <3>1, <3>2, Zenon DEF TypeOK
    <3>. QED
      BY <1>2, <2>1, <2>3, <3>3, Zenon DEF TypeOK, IssueFence, Goto, Labels, store, history
  <2>. QED
    BY <2>2, <2>3, Zenon
<1>3. ASSUME NEW h \in Handlers, IssueClaim(h) PROVE TypeOK'
  <2>1. req[h].permit \in Permit /\ {"NONE"} \in SUBSET ClaimState /\ "ISSUED" \in ClaimState
    BY Zenon DEF TypeOK, Request, ClaimState
  <2>2. claim' \in [Permit -> ClaimState] /\ late' \subseteq LateType
    BY <1>3, <2>1, WriteType, Zenon DEF IssueClaim, store, TypeOK
  <2>3. pc' \in [Handlers -> Labels] /\ req' \in [Handlers -> Request]
    BY <1>3, ReplyType, Zenon DEF IssueClaim, Goto, Labels, TypeOK
  <2>. QED
    BY <1>3, <2>1, <2>2, <2>3, Zenon DEF TypeOK, IssueClaim, environment, history
<1>4. ASSUME NEW h \in Handlers, Respond(h) PROVE TypeOK'
  BY <1>4, ReplyType, WriteType, Zenon DEF TypeOK, Respond, Goto, At, Request, Permit, Labels, store, environment, history
<1>5. ASSUME NEW h \in Handlers, NEW p \in delivered, ExecuteStart(h, p) PROVE TypeOK'
  <2>. DEFINE r == [permit |-> p, id |-> executes + 1, seen |-> 0, stale |-> Superseded(p)]
  <2>1. r \in Request
    BY DEF TypeOK, Request, Superseded
  <2>2. req' \in [Handlers -> Request]
    BY <1>5, <2>1, Zenon DEF TypeOK, ExecuteStart
  <2>. QED
    BY <1>5, <2>2 DEF TypeOK, ExecuteStart, Goto, Labels, store, environment, history
<1>6. ASSUME NEW h \in Handlers, ReadAuthority(h) PROVE TypeOK'
  <2>1. [req[h] EXCEPT !.seen = authority] \in Request
    BY DEF TypeOK, Request
  <2>2. req' \in [Handlers -> Request]
    BY <1>6, <2>1, Zenon DEF TypeOK, ReadAuthority
  <2>. QED
    BY <1>6, <2>2, Zenon DEF TypeOK, ReadAuthority, Goto, Labels, store, environment, history
<1>7. ASSUME NEW h \in Handlers, RevalidateFence(h) PROVE TypeOK'
  BY <1>7, ReplyType, WriteType, Zenon DEF TypeOK, RevalidateFence, Goto, At, Request, Permit, Labels, store, environment, history
<1>8. ASSUME NEW h \in Handlers, Claim(h) PROVE TypeOK'
  <2>1. req[h].permit \in Permit /\ {"NONE", "ISSUED"} \in SUBSET ClaimState /\ "CLAIMED" \in ClaimState
    BY Zenon DEF TypeOK, Request, ClaimState
  <2>2. claim' \in [Permit -> ClaimState] /\ late' \subseteq LateType
    BY <1>8, <2>1, WriteType, Zenon DEF Claim, store, TypeOK
  <2>3. pc' \in [Handlers -> Labels] /\ req' \in [Handlers -> Request]
    BY <1>8, ReplyType, Zenon DEF Claim, Goto, Labels, TypeOK
  <2>. QED
    BY <1>8, <2>1, <2>2, <2>3, Zenon DEF TypeOK, Claim, environment, history
<1>9. ASSUME NEW h \in Handlers, ContextEnded(h) PROVE TypeOK'
  BY <1>9, ReplyType, WriteType, Zenon DEF TypeOK, ContextEnded, Goto, At, Request, Permit, Labels, store, environment, history
<1>10. ASSUME NEW h \in Handlers, EnterController(h) PROVE TypeOK'
  <2>. DEFINE e == [permit |-> req[h].permit, id |-> req[h].id, fenced |-> h \in Fenced,
                    stale |-> req[h].stale, overtaken |-> Superseded(req[h].permit)]
  <2>1. e \in Entry
    BY DEF TypeOK, Entry, Request, Superseded
  <2>2. entered' \subseteq Entry
    BY <1>10, <2>1, Zenon DEF TypeOK, EnterController
  <2>. QED
    BY <1>10, <2>2, Zenon DEF TypeOK, EnterController, Goto, Labels, store, environment
<1>11. ASSUME NEW h \in Handlers, Mutate(h) PROVE TypeOK'
  BY <1>11, ReplyType, WriteType DEF TypeOK, Mutate, Goto, At, Request, Permit, Labels, store, environment, history
<1>12. ASSUME NEW h \in Handlers, ControllerFails(h) PROVE TypeOK'
  BY <1>12, ReplyType, WriteType, Zenon DEF TypeOK, ControllerFails, Goto, At, Request, Permit, Labels, store, environment, history
<1>13. ASSUME NEW h \in Handlers, ControllerReturns(h) PROVE TypeOK'
  BY <1>13, ReplyType, WriteType, Zenon DEF TypeOK, ControllerReturns, Goto, At, Request, Permit, Labels, store, environment, history
<1>14. ASSUME NEW h \in Handlers, Consume(h) PROVE TypeOK'
  <2>1. req[h].permit \in Permit /\ {"CLAIMED"} \in SUBSET ClaimState /\ "CONSUMED" \in ClaimState
    BY Zenon DEF TypeOK, Request, ClaimState
  <2>2. claim' \in [Permit -> ClaimState] /\ late' \subseteq LateType
    BY <1>14, <2>1, WriteType, Zenon DEF Consume, store, TypeOK
  <2>3. pc' \in [Handlers -> Labels] /\ req' \in [Handlers -> Request]
    BY <1>14, ReplyType, Zenon DEF Consume, Goto, Labels, TypeOK
  <2>. QED
    BY <1>14, <2>1, <2>2, <2>3, Zenon DEF TypeOK, Consume, environment
<1>15. ASSUME NEW h \in Handlers, ReportState(h) PROVE TypeOK'
  BY <1>15, ReplyType, WriteType, Zenon DEF TypeOK, ReportState, Goto, At, Request, Permit, Labels, store, environment, history
<1>16. ASSUME NEW h \in Handlers, Abort(h) PROVE TypeOK'
  <2>1. req[h].permit \in Permit /\ {"CLAIMED"} \in SUBSET ClaimState /\ "ABORTED" \in ClaimState
    BY Zenon DEF TypeOK, Request, ClaimState
  <2>2. claim' \in [Permit -> ClaimState] /\ late' \subseteq LateType
    BY <1>16, <2>1, WriteType, Zenon DEF Abort, store, TypeOK
  <2>3. pc' \in [Handlers -> Labels] /\ req' \in [Handlers -> Request]
    BY <1>16, ReplyType, Zenon DEF Abort, Goto, Labels, TypeOK
  <2>. QED
    BY <1>16, <2>1, <2>2, <2>3, Zenon DEF TypeOK, Abort, environment, history
<1>17. ASSUME NEW h \in Handlers, Stops(h) PROVE TypeOK'
  BY <1>17, ReplyType, WriteType, Zenon DEF TypeOK, Stops, Goto, At, Request, Permit, Labels, store, environment, history
<1>18. CASE LateWrite
  BY <1>18, Zenon DEF TypeOK, LateWrite, LateType, store, environment, history
<1>19. CASE AuthorityAdvances
  BY <1>19 DEF TypeOK, AuthorityAdvances, LateType, store, environment, history
<1>20. CASE WorldChanges
  BY <1>20 DEF TypeOK, WorldChanges, LateType, store, environment, history
<1>21. CASE UNCHANGED vars
  BY <1>21, Zenon DEF TypeOK, vars
<1>. QED
  BY <1>1, <1>2, <1>3, <1>4, <1>5, <1>6, <1>7, <1>8, <1>9, <1>10, <1>11, <1>12, <1>13, <1>14, <1>15, <1>16, <1>17, <1>18, <1>19, <1>20, <1>21, Zenon DEF Next, Handle

\* The invariant holds when the servers start.
LEMMA InitInd == Init => IndInv
<1>. SUFFICES ASSUME Init PROVE IndInv
  BY Zenon
<1>1. TypeOK
  BY NoRequestType, BoundsAssumption DEF Init, TypeOK, Labels, ClaimState
<1>2. LateWritesAreLegal /\ OneOwner /\ BoundToThePast /\ StaleShows
  BY Zenon DEF Init, LateWritesAreLegal, OneOwner, BoundToThePast, StaleShows, Won
<1>3. /\ RecordsAgree /\ ToldConsumedIsConsumed
      /\ EnteredAtMostOnce /\ SupersededNeverEnters
  BY Zenon DEF Init, RecordsAgree, EnteredAtMostOnce, SupersededNeverEnters,
         ConsumedMeansReturned, ToldConsumedIsConsumed
<1>. QED
  BY <1>1, <1>2, <1>3, Zenon DEF IndInv

-----------------------------------------------------------------------------
(* What the steps have in common. *)

\* Nobody comes to own a permit; an owner that goes on owning it stays where it
\* is or goes from Consume to reading the record back.
NoNewOwners ==
  \A g \in Handlers : pc'[g] \in Won =>
    /\ req'[g].permit = req[g].permit
    /\ pc'[g] = pc[g] \/ (pc[g] = "consume" /\ pc'[g] = "state")

\* Nobody gets further with a PREPARE.
NoNewPrepares ==
  \A g \in Handlers : pc'[g] \in {"issueFence", "issueClaim", "respond"} =>
    pc'[g] = pc[g] /\ req'[g] = req[g]

\* Nobody gets further with an EXECUTE towards the controller.
NoNewExecutes ==
  \A g \in Handlers : pc'[g] \in {"authority", "revalidate", "claim", "context"} =>
    pc'[g] = pc[g] /\ req'[g] = req[g]

\* The record of one permit makes the move w, or none; w may still be under way.
Moves(w) ==
  /\ \/ claim' = claim
     \/ claim[w.permit] \in w.from /\ claim' = [claim EXCEPT ![w.permit] = w.to]
  /\ late' \subseteq late \cup {w}

\* Records never go back to NONE, and CONSUMED is final.
Forward ==
  \A p \in Permit : /\ claim[p] # "NONE" => claim'[p] # "NONE"
                    /\ claim[p] = "CONSUMED" => claim'[p] = "CONSUMED"

SameRuns == UNCHANGED <<entered, returned>>
SameStore == UNCHANGED <<claim, late>>

\* Without a write of a record, and without a new owner, records and
\* executions agree as before.
LEMMA QuietStep ==
  ASSUME IndInv, NoNewOwners, SameStore, SameRuns
  PROVE  LateWritesAreLegal' /\ OneOwner' /\ RecordsAgree' /\ Forward
<1>1. LateWritesAreLegal'
  BY DEF IndInv, NoNewOwners, SameStore, SameRuns, LateWritesAreLegal, Legal, Owns, Entered, Won
<1>2. OneOwner'
  BY DEF IndInv, NoNewOwners, SameStore, SameRuns, OneOwner, Entered, Won
<1>3. RecordsAgree' /\ Forward
  BY Zenon DEF IndInv, SameStore, SameRuns, RecordsAgree, Entered, ConsumedMeansReturned, Forward
<1>. QED
  BY <1>1, <1>2, <1>3, Zenon

\* A legal write of a record keeps records and executions in agreement, whether
\* or not its caller learns of it.
LEMMA StoreStep ==
  ASSUME IndInv, NoNewOwners, SameRuns, NEW w \in LateType, Legal(w)', Moves(w)
  PROVE  LateWritesAreLegal' /\ OneOwner' /\ RecordsAgree' /\ Forward
<1>1. CASE claim' = claim
  <2>1. LateWritesAreLegal'
    BY <1>1 DEF IndInv, NoNewOwners, SameRuns, LateWritesAreLegal, Legal, Owns, Entered, Won, Moves
  <2>2. OneOwner'
    BY <1>1 DEF IndInv, NoNewOwners, SameRuns, OneOwner, Entered, Won
  <2>3. RecordsAgree' /\ Forward
    BY <1>1, Zenon DEF IndInv, SameRuns, RecordsAgree, Entered, ConsumedMeansReturned, Forward
  <2>. QED
    BY <2>1, <2>2, <2>3, Zenon
<1>2. CASE claim[w.permit] \in w.from /\ claim' = [claim EXCEPT ![w.permit] = w.to]
  <2>. DEFINE q == w.permit
  <2>1. /\ q \in Permit /\ claim'[q] = w.to /\ claim[q] \in w.from
        /\ \A p \in Permit : p # q => claim'[p] = claim[p]
        /\ \A g \in Handlers : req[g].permit \in Permit
        /\ \A e \in entered : e.permit \in Permit
        /\ \A v \in late : v.permit \in Permit
        /\ returned \subseteq Permit
    BY <1>2, Zenon DEF IndInv, TypeOK, LateType, Request, Entry
  <2>2. \/ claim[q] = "NONE" /\ w.to = "ISSUED"
        \/ claim[q] \in {"NONE", "ISSUED"} /\ w.to = "CLAIMED"
        \/ /\ claim[q] = "CLAIMED" /\ w.to = "ABORTED" /\ ~Entered(q)
           /\ \A g \in Handlers : ~Owns(g, q)'
        \/ claim[q] = "CLAIMED" /\ w.to = "CONSUMED" /\ q \in returned
    BY <2>1, Zenon DEF Legal, SameRuns, Entered
  <2>. HIDE DEF q
  <2>3. LateWritesAreLegal'
    BY <2>1, <2>2 DEF IndInv, NoNewOwners, SameRuns, LateWritesAreLegal, Legal, Owns, Entered, Won, Moves
  <2>4. OneOwner'
    BY <2>1, <2>2 DEF IndInv, NoNewOwners, SameRuns, OneOwner, Owns, Entered, Won, RecordsAgree
  <2>5. RecordsAgree' /\ Forward
    BY <2>1, <2>2, Zenon DEF IndInv, SameRuns, RecordsAgree, Entered, ConsumedMeansReturned, Forward
  <2>. QED
    BY <2>3, <2>4, <2>5, Zenon
<1>. QED
  BY <1>1, <1>2, Zenon DEF Moves

\* As time passes permits stay bound to the past.
LEMMA PastStep ==
  ASSUME IndInv, TypeOK', Forward, NoNewPrepares,
         authority <= authority', world <= world', delivered' = delivered
  PROVE  BoundToThePast'
<1>1. /\ authority \in Nat /\ authority' \in Nat /\ world \in Nat /\ world' \in Nat
      /\ delivered \subseteq Permit
      /\ \A g \in Handlers : req[g].permit \in Permit
  BY BoundsAssumption DEF IndInv, TypeOK, Request
<1>2. \A p \in Permit : (p.fence = NoFence \/ p.fence \in Nat) /\ p.state \in Nat
  BY BoundsAssumption DEF Permit
<1>. QED
  BY <1>1, <1>2 DEF IndInv, BoundToThePast, Forward, NoNewPrepares

\* As time passes stale permits stay stale.
LEMMA StaleStep ==
  ASSUME IndInv, TypeOK', NoNewExecutes, authority <= authority', world <= world'
  PROVE  StaleShows'
<1>1. /\ authority \in Nat /\ authority' \in Nat /\ world \in Nat /\ world' \in Nat
      /\ \A g \in Handlers : req[g].permit \in Permit
  BY BoundsAssumption DEF IndInv, TypeOK, Request
<1>2. \A p \in Permit : (p.fence = NoFence \/ p.fence \in Nat) /\ p.state \in Nat
  BY BoundsAssumption DEF Permit
<1>. QED
  BY <1>1, <1>2, FencedAssumption DEF IndInv, StaleShows, NoNewExecutes


\* Where a reply leaves the handlers.
LEMMA ReplyFacts ==
  ASSUME TypeOK, NEW h \in Handlers, Reply(h)
  PROVE  NoNewOwners /\ NoNewPrepares /\ NoNewExecutes
BY Zenon DEF TypeOK, Reply, NoNewOwners, NoNewPrepares, NoNewExecutes, Won

-----------------------------------------------------------------------------
(* The steps, and what follows.                                            *)

\* Every step preserves the invariant.
LEMMA NextInd == IndInv /\ [Next]_vars => IndInv'
<1>. SUFFICES ASSUME IndInv, [Next]_vars PROVE IndInv'
  BY Zenon
<1>t. TypeOK /\ TypeOK'
  BY TypeInd, Zenon DEF IndInv
<1>n. authority \in Nat /\ authority' \in Nat /\ world \in Nat /\ world' \in Nat
  BY <1>t, BoundsAssumption DEF TypeOK
<1>1. ASSUME NEW h \in Handlers, PrepareCompose(h) PROVE IndInv'
  <2>1. NoNewOwners /\ NoNewExecutes
    BY <1>1, <1>t, Zenon DEF PrepareCompose, Goto, At, Won, TypeOK, NoNewOwners, NoNewExecutes
  <2>2. SameStore /\ SameRuns
    BY <1>1, Zenon DEF PrepareCompose, SameStore, SameRuns, store, environment, history
  <2>3. authority <= authority' /\ world <= world'
    BY <1>1, <1>n DEF PrepareCompose, environment
  <2>4. LateWritesAreLegal' /\ OneOwner' /\ RecordsAgree' /\ Forward
    BY <2>1, <2>2, QuietStep, Zenon
  <2>5. BoundToThePast'
    <3>1. \A q \in Permit : (q.fence = NoFence \/ q.fence \in Nat) /\ q.state \in Nat
      BY BoundsAssumption DEF Permit
    <3>2. /\ delivered \subseteq Permit
          /\ \A g \in Handlers : req[g].permit \in Permit
          /\ \A g \in Handlers : req'[g].permit \in Permit
      BY <1>t, Zenon DEF TypeOK, Request
    <3>3. /\ \A g \in Handlers : g # h => pc'[g] = pc[g] /\ req'[g] = req[g]
          /\ req'[h].permit.state = world /\ req'[h].permit.fence = NoFence
          /\ delivered' = delivered /\ authority' = authority /\ world' = world
      BY <1>1, <1>t DEF PrepareCompose, Goto, TypeOK, Request, environment
    <3>. QED
      BY <1>n, <2>4, <3>1, <3>2, <3>3 DEF IndInv, BoundToThePast, Forward
  <2>6. StaleShows'
    BY <1>t, <2>1, <2>3, StaleStep, Zenon
  <2>7. ToldConsumedIsConsumed' /\ EnteredAtMostOnce' /\ SupersededNeverEnters'
    BY <1>1, <1>t, <2>2, <2>4, Zenon DEF IndInv, PrepareCompose, TypeOK, SameRuns, Forward, history,
       ToldConsumedIsConsumed, EnteredAtMostOnce, SupersededNeverEnters
  <2>. QED
    BY <1>t, <2>4, <2>5, <2>6, <2>7, Zenon DEF IndInv
<1>2. ASSUME NEW h \in Handlers, IssueFence(h) PROVE IndInv'
  <2>1. NoNewOwners /\ NoNewExecutes
    BY <1>2, <1>t, ReplyFacts, Zenon DEF IssueFence, Goto, At, Won, TypeOK, NoNewOwners, NoNewExecutes
  <2>2. SameStore /\ SameRuns
    BY <1>2, Zenon DEF IssueFence, SameStore, SameRuns, store, environment, history
  <2>3. authority <= authority' /\ world <= world'
    BY <1>2, <1>n DEF IssueFence, environment
  <2>4. LateWritesAreLegal' /\ OneOwner' /\ RecordsAgree' /\ Forward
    BY <2>1, <2>2, QuietStep, Zenon
  <2>5. BoundToThePast'
    <3>1. \A q \in Permit : (q.fence = NoFence \/ q.fence \in Nat) /\ q.state \in Nat
      BY BoundsAssumption DEF Permit
    <3>2. /\ delivered \subseteq Permit
          /\ \A g \in Handlers : req[g].permit \in Permit
          /\ \A g \in Handlers : req'[g].permit \in Permit
      BY <1>t, Zenon DEF TypeOK, Request
    <3>3. CASE authority' = 0
      BY <1>2, <3>3, <1>t, <2>3, <2>4, PastStep, ReplyFacts, Zenon DEF IssueFence
    <3>4. CASE authority' # 0
      <4>1. /\ \A g \in Handlers : g # h => pc'[g] = pc[g] /\ req'[g] = req[g]
            /\ pc'[h] = "issueClaim"
            /\ req'[h].permit.state = req[h].permit.state /\ req'[h].permit.fence = authority'
            /\ delivered' = delivered /\ world' = world /\ pc[h] = "issueFence"
        BY <1>2, <3>4, <1>t DEF IssueFence, Goto, At, TypeOK, Request, Permit
      <4>. QED
        BY <1>n, <2>3, <2>4, <3>1, <3>2, <4>1 DEF IndInv, BoundToThePast, Forward
    <3>. QED
      BY <3>3, <3>4, Zenon
  <2>6. StaleShows'
    BY <1>t, <2>1, <2>3, StaleStep, Zenon
  <2>7. ToldConsumedIsConsumed' /\ EnteredAtMostOnce' /\ SupersededNeverEnters'
    BY <1>2, <1>t, <2>2, <2>4, Zenon DEF IndInv, IssueFence, TypeOK, SameRuns, Forward, history,
       ToldConsumedIsConsumed, EnteredAtMostOnce, SupersededNeverEnters
  <2>. QED
    BY <1>t, <2>4, <2>5, <2>6, <2>7, Zenon DEF IndInv
<1>3. ASSUME NEW h \in Handlers, IssueClaim(h) PROVE IndInv'
  <2>1. PICK p \in Permit, w \in LateType :
          p = req[h].permit /\ w = [permit |-> p, from |-> {"NONE"}, to |-> "ISSUED"]
    BY <1>t, Zenon DEF TypeOK, Request, LateType, ClaimState
  <2>2. NoNewOwners /\ NoNewExecutes
    BY <1>3, <1>t, ReplyFacts, Zenon DEF IssueClaim, Goto, Won, TypeOK, NoNewOwners, NoNewExecutes
  <2>3. SameRuns /\ authority <= authority' /\ world <= world'
    BY <1>3, <1>n DEF IssueClaim, SameRuns, environment, history
  <2>4. Legal(w)'
    BY <2>1, Zenon DEF Legal
  <2>5. Moves(w)
    BY <1>3, <2>1, Zenon DEF IssueClaim, Moves, Writes, Errs, store
  <2>6. LateWritesAreLegal' /\ OneOwner' /\ RecordsAgree' /\ Forward
    BY <2>1, <2>2, <2>3, <2>4, <2>5, StoreStep, Zenon
  <2>7. BoundToThePast'
    <3>1. CASE Reply(h)
      BY <1>3, <3>1, <1>t, <2>3, <2>6, PastStep, ReplyFacts, Zenon DEF IssueClaim
    <3>2. CASE /\ Writes(p, {"NONE"}, "ISSUED") \/ (claim[p] = "ISSUED" /\ UNCHANGED store)
               /\ Goto(h, "respond") /\ UNCHANGED req
      <4>1. /\ \A g \in Handlers : g # h => pc'[g] = pc[g]
            /\ req' = req /\ pc[h] = "issueClaim" /\ pc'[h] = "respond"
            /\ claim'[p] = "ISSUED"
            /\ delivered' = delivered /\ authority' = authority /\ world' = world
            /\ delivered \subseteq Permit
            /\ \A g \in Handlers : req[g].permit \in Permit
        BY <1>3, <3>2, <1>t, <2>1, Zenon DEF IssueClaim, At, Goto, Writes, TypeOK, Request, environment, store
      <4>. QED
        BY <1>n, <2>1, <2>6, <4>1, Zenon DEF IndInv, BoundToThePast, Forward
    <3>. QED
      BY <1>3, <2>1, <3>1, <3>2, Zenon DEF IssueClaim
  <2>8. StaleShows'
    BY <1>t, <2>2, <2>3, StaleStep, Zenon
  <2>9. ToldConsumedIsConsumed' /\ EnteredAtMostOnce' /\ SupersededNeverEnters'
    BY <1>3, <1>t, <2>3, <2>6, Zenon DEF IndInv, IssueClaim, TypeOK, SameRuns, Forward, history,
       ToldConsumedIsConsumed, EnteredAtMostOnce, SupersededNeverEnters
  <2>. QED
    BY <1>t, <2>6, <2>7, <2>8, <2>9, Zenon DEF IndInv
<1>4. ASSUME NEW h \in Handlers, Respond(h) PROVE IndInv'
  <2>1. NoNewOwners /\ NoNewExecutes
    BY <1>4, <1>t, ReplyFacts, Zenon DEF Respond
  <2>2. SameStore /\ SameRuns
    BY <1>4, Zenon DEF Respond, SameStore, SameRuns, store, environment, history
  <2>3. authority <= authority' /\ world <= world'
    BY <1>4, <1>n DEF Respond, environment
  <2>4. LateWritesAreLegal' /\ OneOwner' /\ RecordsAgree' /\ Forward
    BY <2>1, <2>2, QuietStep, Zenon
  <2>5. BoundToThePast'
    <3>1. \A q \in Permit : (q.fence = NoFence \/ q.fence \in Nat) /\ q.state \in Nat
      BY BoundsAssumption DEF Permit
    <3>2. /\ delivered \subseteq Permit
          /\ \A g \in Handlers : req[g].permit \in Permit
          /\ \A g \in Handlers : req'[g].permit \in Permit
      BY <1>t, Zenon DEF TypeOK, Request
    <3>3. /\ \A g \in Handlers : pc'[g] # "idle" => pc'[g] = pc[g] /\ req'[g] = req[g]
          /\ pc[h] = "respond"
          /\ delivered' = delivered \cup {req[h].permit} /\ authority' = authority /\ world' = world
      BY <1>4, <1>t, Zenon DEF Respond, Reply, At, TypeOK, environment
    <3>. QED
      BY <1>n, <2>4, <3>1, <3>2, <3>3 DEF IndInv, BoundToThePast, Forward
  <2>6. StaleShows'
    BY <1>t, <2>1, <2>3, StaleStep, Zenon
  <2>7. ToldConsumedIsConsumed' /\ EnteredAtMostOnce' /\ SupersededNeverEnters'
    BY <1>4, <1>t, <2>2, <2>4, Zenon DEF IndInv, Respond, TypeOK, SameRuns, Forward, history,
       ToldConsumedIsConsumed, EnteredAtMostOnce, SupersededNeverEnters
  <2>. QED
    BY <1>t, <2>4, <2>5, <2>6, <2>7, Zenon DEF IndInv
<1>5. ASSUME NEW h \in Handlers, NEW p \in delivered, ExecuteStart(h, p) PROVE IndInv'
  <2>1. NoNewOwners /\ NoNewPrepares
    BY <1>5, <1>t, Zenon DEF ExecuteStart, Goto, At, Won, TypeOK, NoNewOwners, NoNewPrepares
  <2>2. SameStore /\ SameRuns
    BY <1>5, Zenon DEF ExecuteStart, SameStore, SameRuns, store, environment, history
  <2>3. authority <= authority' /\ world <= world'
    BY <1>5, <1>n DEF ExecuteStart, environment
  <2>4. LateWritesAreLegal' /\ OneOwner' /\ RecordsAgree' /\ Forward
    BY <2>1, <2>2, QuietStep, Zenon
  <2>5. BoundToThePast'
    BY <1>5, <1>t, <2>1, <2>3, <2>4, PastStep, Zenon DEF ExecuteStart
  <2>6. StaleShows'
    <3>1. \A q \in Permit : (q.fence = NoFence \/ q.fence \in Nat) /\ q.state \in Nat
      BY BoundsAssumption DEF Permit
    <3>2. \A g \in Handlers : req[g].permit \in Permit /\ req'[g].permit \in Permit
      BY <1>t, Zenon DEF TypeOK, Request
    <3>3. /\ \A g \in Handlers : g # h => pc'[g] = pc[g] /\ req'[g] = req[g]
          /\ req'[h].permit = p /\ (req'[h].stale => p.fence # authority \/ p.state # world)
          /\ h \in Fenced => pc'[h] = "authority" /\ p.fence # NoFence
          /\ authority' = authority /\ world' = world
      BY <1>5, <1>t, Zenon DEF ExecuteStart, Goto, TypeOK, Superseded, environment
    <3>4. p \in Permit /\ p.state <= world /\ (p.fence # NoFence => p.fence <= authority)
      BY <1>t, Zenon DEF IndInv, BoundToThePast, TypeOK
    <3>. QED
      BY <1>n, <3>1, <3>2, <3>3, <3>4 DEF IndInv, StaleShows
  <2>7. ToldConsumedIsConsumed' /\ EnteredAtMostOnce' /\ SupersededNeverEnters'
    BY <1>5, <1>t, <2>2, <2>4, Zenon DEF IndInv, ExecuteStart, TypeOK, SameRuns, Forward, history,
       ToldConsumedIsConsumed, EnteredAtMostOnce, SupersededNeverEnters
  <2>. QED
    BY <1>t, <2>4, <2>5, <2>6, <2>7, Zenon DEF IndInv
<1>6. ASSUME NEW h \in Handlers, ReadAuthority(h) PROVE IndInv'
  <2>1. NoNewOwners /\ NoNewPrepares
    BY <1>6, <1>t, Zenon DEF ReadAuthority, Goto, At, Won, TypeOK, NoNewOwners, NoNewPrepares
  <2>2. SameStore /\ SameRuns
    BY <1>6, Zenon DEF ReadAuthority, SameStore, SameRuns, store, environment, history
  <2>3. authority <= authority' /\ world <= world'
    BY <1>6, <1>n DEF ReadAuthority, environment
  <2>4. LateWritesAreLegal' /\ OneOwner' /\ RecordsAgree' /\ Forward
    BY <2>1, <2>2, QuietStep, Zenon
  <2>5. BoundToThePast'
    BY <1>6, <1>t, <2>1, <2>3, <2>4, PastStep, Zenon DEF ReadAuthority
  <2>6. StaleShows'
    <3>1. \A q \in Permit : (q.fence = NoFence \/ q.fence \in Nat) /\ q.state \in Nat
      BY BoundsAssumption DEF Permit
    <3>2. \A g \in Handlers : req[g].permit \in Permit /\ req'[g].permit \in Permit
      BY <1>t, Zenon DEF TypeOK, Request
    <3>3. /\ \A g \in Handlers : g # h => pc'[g] = pc[g] /\ req'[g] = req[g]
          /\ req'[h].permit = req[h].permit /\ req'[h].stale = req[h].stale
          /\ req'[h].seen = authority
          /\ pc[h] = "authority" /\ pc'[h] = "revalidate"
          /\ authority' = authority /\ world' = world
      BY <1>6, <1>t, Zenon DEF ReadAuthority, Goto, At, TypeOK, Request, environment
    <3>. QED
      BY <1>n, <3>1, <3>2, <3>3, Zenon DEF IndInv, StaleShows
  <2>7. ToldConsumedIsConsumed' /\ EnteredAtMostOnce' /\ SupersededNeverEnters'
    BY <1>6, <1>t, <2>2, <2>4, Zenon DEF IndInv, ReadAuthority, TypeOK, SameRuns, Forward, history,
       ToldConsumedIsConsumed, EnteredAtMostOnce, SupersededNeverEnters
  <2>. QED
    BY <1>t, <2>4, <2>5, <2>6, <2>7, Zenon DEF IndInv
<1>7. ASSUME NEW h \in Handlers, RevalidateFence(h) PROVE IndInv'
  <2>1. NoNewOwners /\ NoNewPrepares
    BY <1>7, <1>t, ReplyFacts, Zenon DEF RevalidateFence, Goto, At, Won, TypeOK, NoNewOwners, NoNewPrepares
  <2>2. SameStore /\ SameRuns
    BY <1>7, Zenon DEF RevalidateFence, SameStore, SameRuns, store, environment, history
  <2>3. authority <= authority' /\ world <= world'
    BY <1>7, <1>n DEF RevalidateFence, environment
  <2>4. LateWritesAreLegal' /\ OneOwner' /\ RecordsAgree' /\ Forward
    BY <2>1, <2>2, QuietStep, Zenon
  <2>5. BoundToThePast'
    BY <1>7, <1>t, <2>1, <2>3, <2>4, PastStep, Zenon DEF RevalidateFence
  <2>6. StaleShows'
    <3>1. \A q \in Permit : (q.fence = NoFence \/ q.fence \in Nat) /\ q.state \in Nat
      BY BoundsAssumption DEF Permit
    <3>2. \A g \in Handlers : req[g].permit \in Permit /\ req'[g].permit \in Permit
      BY <1>t, Zenon DEF TypeOK, Request
    <3>3. CASE Reply(h)
      BY <3>3, <1>t, <2>3, StaleStep, ReplyFacts, Zenon
    <3>4. CASE ~Reply(h)
      <4>1. /\ \A g \in Handlers : g # h => pc'[g] = pc[g]
            /\ req' = req /\ pc[h] = "revalidate" /\ pc'[h] = "claim"
            /\ req[h].permit.fence = req[h].seen /\ req[h].permit.state = world
            /\ authority' = authority /\ world' = world
        BY <1>7, <3>4, <1>t, Zenon DEF RevalidateFence, Goto, At, TypeOK, environment
      <4>2. req[h].seen \in Nat
        BY <1>t, Zenon DEF TypeOK, Request
      <4>. QED
        BY <1>n, <3>1, <3>2, <4>1, <4>2 DEF IndInv, StaleShows
    <3>. QED
      BY <3>3, <3>4, Zenon
  <2>7. ToldConsumedIsConsumed' /\ EnteredAtMostOnce' /\ SupersededNeverEnters'
    BY <1>7, <1>t, <2>2, <2>4, Zenon DEF IndInv, RevalidateFence, TypeOK, SameRuns, Forward, history,
       ToldConsumedIsConsumed, EnteredAtMostOnce, SupersededNeverEnters
  <2>. QED
    BY <1>t, <2>4, <2>5, <2>6, <2>7, Zenon DEF IndInv
<1>8. ASSUME NEW h \in Handlers, Claim(h) PROVE IndInv'
  <2>1. PICK p \in Permit, w \in LateType :
          p = req[h].permit /\ w = [permit |-> p, from |-> {"NONE", "ISSUED"}, to |-> "CLAIMED"]
    BY <1>t, Zenon DEF TypeOK, Request, LateType, ClaimState
  <2>2. SameRuns /\ authority <= authority' /\ world <= world' /\ delivered' = delivered /\ told' = told
    BY <1>8, <1>n DEF Claim, SameRuns, environment, history
  <2>3. CASE Reply(h)
    <3>1. NoNewOwners /\ NoNewPrepares /\ NoNewExecutes
      BY <1>t, <2>3, ReplyFacts, Zenon
    <3>2. Legal(w)' /\ Moves(w)
      BY <1>8, <2>1, Zenon DEF Claim, Legal, Moves, Writes, Errs, store
    <3>3. LateWritesAreLegal' /\ OneOwner' /\ RecordsAgree' /\ Forward
      BY <2>1, <2>2, <3>1, <3>2, StoreStep, Zenon
    <3>4. BoundToThePast' /\ StaleShows'
      BY <1>t, <2>2, <3>1, <3>3, PastStep, StaleStep, Zenon
    <3>5. ToldConsumedIsConsumed' /\ EnteredAtMostOnce' /\ SupersededNeverEnters'
      BY <1>t, <2>2, <3>3, Zenon DEF IndInv, TypeOK, SameRuns, Forward,
         ToldConsumedIsConsumed, EnteredAtMostOnce, SupersededNeverEnters
    <3>. QED
      BY <1>t, <3>3, <3>4, <3>5, Zenon DEF IndInv
  <2>4. CASE Writes(p, {"NONE", "ISSUED"}, "CLAIMED") /\ Goto(h, "context") /\ UNCHANGED req
    <3>1. /\ \A g \in Handlers : g # h => pc'[g] = pc[g]
          /\ req' = req /\ pc[h] = "claim" /\ pc'[h] = "context" /\ late' = late
          /\ claim[p] \in {"NONE", "ISSUED"} /\ claim'[p] = "CLAIMED"
          /\ \A q \in Permit : q # p => claim'[q] = claim[q]
      BY <1>8, <2>1, <2>4, <1>t, Zenon DEF Claim, At, Goto, Writes, TypeOK
    <3>2. /\ \A g \in Handlers : req[g].permit \in Permit
          /\ \A e \in entered : e.permit \in Permit
          /\ \A v \in late : v.permit \in Permit
          /\ returned \subseteq Permit /\ told \subseteq Permit /\ delivered \subseteq Permit
      BY <1>t, Zenon DEF TypeOK, Request, Entry, LateType
    <3>3. Forward /\ NoNewPrepares
      BY <3>1, Zenon DEF Forward, NoNewPrepares
    <3>4. ~Entered(p) /\ ~Entered(p)' /\ p \notin returned
      BY <2>2, <3>1, Zenon DEF IndInv, RecordsAgree, Entered, SameRuns
    <3>5. LateWritesAreLegal'
      BY <2>1, <2>2, <3>1, <3>2, <3>4 DEF IndInv, LateWritesAreLegal, Legal, Owns, Entered, Won, SameRuns
    <3>6. OneOwner'
      BY <2>1, <2>2, <3>1, <3>2, <3>4 DEF IndInv, OneOwner, Entered, Won, SameRuns
    <3>7. RecordsAgree'
      BY <2>2, <3>1, <3>2, <3>4, Zenon DEF IndInv, RecordsAgree, ConsumedMeansReturned, Entered, SameRuns
    <3>8. BoundToThePast'
      BY <1>t, <2>2, <3>3, PastStep, Zenon
    <3>9. StaleShows'
      BY <1>8, <3>1, Zenon DEF IndInv, StaleShows, Claim, environment
    <3>10. ToldConsumedIsConsumed' /\ EnteredAtMostOnce' /\ SupersededNeverEnters'
      BY <1>t, <2>2, <3>2, <3>3, Zenon DEF IndInv, SameRuns, Forward,
         ToldConsumedIsConsumed, EnteredAtMostOnce, SupersededNeverEnters
    <3>. QED
      BY <1>t, <3>5, <3>6, <3>7, <3>8, <3>9, <3>10, Zenon DEF IndInv
  <2>. QED
    BY <1>8, <2>1, <2>3, <2>4, Zenon DEF Claim
<1>9. ASSUME NEW h \in Handlers, ContextEnded(h) PROVE IndInv'
  <2>1. /\ claim' = claim /\ late' = late /\ entered' = entered /\ returned' = returned
        /\ told' = told /\ delivered' = delivered /\ authority' = authority /\ world' = world
        /\ \A g \in Handlers : g # h => pc'[g] = pc[g] /\ req'[g] = req[g]
        /\ pc[h] = "context"
        /\ pc'[h] = "idle" \/ (pc'[h] = "abort" /\ req'[h] = req[h])
    BY <1>9, <1>t, Zenon DEF ContextEnded, At, Goto, Reply, TypeOK, store, environment, history
  <2>2. Forward /\ NoNewPrepares /\ NoNewExecutes
    BY <2>1, Zenon DEF Forward, NoNewPrepares, NoNewExecutes
  <2>3. LateWritesAreLegal'
    BY <2>1 DEF IndInv, LateWritesAreLegal, Legal, Owns, Entered, Won
  <2>4. OneOwner'
    BY <2>1 DEF IndInv, OneOwner, Entered, Won
  <2>5. RecordsAgree'
    BY <2>1, Zenon DEF IndInv, RecordsAgree, ConsumedMeansReturned, Entered
  <2>6. BoundToThePast' /\ StaleShows'
    BY <1>n, <1>t, <2>1, <2>2, PastStep, StaleStep
  <2>7. ToldConsumedIsConsumed' /\ EnteredAtMostOnce' /\ SupersededNeverEnters'
    BY <2>1, Zenon DEF IndInv, ToldConsumedIsConsumed, EnteredAtMostOnce, SupersededNeverEnters
  <2>. QED
    BY <1>t, <2>3, <2>4, <2>5, <2>6, <2>7, Zenon DEF IndInv
<1>10. ASSUME NEW h \in Handlers, EnterController(h) PROVE IndInv'
  <2>. DEFINE e == [permit |-> req[h].permit, id |-> req[h].id, fenced |-> h \in Fenced,
                    stale |-> req[h].stale, overtaken |-> Superseded(req[h].permit)]
  <2>1. /\ claim' = claim /\ late' = late /\ entered' = entered \cup {e} /\ returned' = returned
        /\ told' = told /\ delivered' = delivered /\ authority' = authority /\ world' = world
        /\ \A g \in Handlers : g # h => pc'[g] = pc[g]
        /\ req' = req /\ pc[h] = "context" /\ pc'[h] = "controller"
    BY <1>10, <1>t, Zenon DEF EnterController, At, Goto, TypeOK, store, environment
  <2>2. Forward /\ NoNewPrepares /\ NoNewExecutes
    BY <2>1, Zenon DEF Forward, NoNewPrepares, NoNewExecutes
  <2>3. e.permit = req[h].permit /\ (e.fenced => h \in Fenced) /\ e.stale = req[h].stale
    BY Zenon
  <2>4. ~Entered(req[h].permit) /\ claim[req[h].permit] = "CLAIMED"
    BY <2>1, Zenon DEF IndInv, OneOwner
  <2>. HIDE DEF e
  <2>5. \A q : Entered(q)' <=> Entered(q) \/ q = req[h].permit
    BY <2>1, <2>3, Zenon DEF Entered
  <2>6. LateWritesAreLegal'
    BY <2>1, <2>5 DEF IndInv, LateWritesAreLegal, Legal, Owns, Won
  <2>7. OneOwner'
    BY <2>1, <2>5 DEF IndInv, OneOwner, Won
  <2>8. RecordsAgree'
    BY <2>1, <2>3, <2>4, <2>5, Zenon DEF IndInv, RecordsAgree, ConsumedMeansReturned
  <2>9. BoundToThePast' /\ StaleShows'
    BY <1>n, <1>t, <2>1, <2>2, PastStep, StaleStep
  <2>10. EnteredAtMostOnce'
    BY <2>1, <2>3, <2>4 DEF IndInv, EnteredAtMostOnce, Entered
  <2>11. SupersededNeverEnters' /\ ToldConsumedIsConsumed'
    BY <2>1, <2>3, Zenon DEF IndInv, SupersededNeverEnters, ToldConsumedIsConsumed, StaleShows
  <2>. QED
    BY <1>t, <2>6, <2>7, <2>8, <2>9, <2>10, <2>11, Zenon DEF IndInv
<1>11. ASSUME NEW h \in Handlers, Mutate(h) PROVE IndInv'
  <2>1. NoNewOwners /\ NoNewPrepares /\ NoNewExecutes
    BY <1>11, <1>t, Zenon DEF Mutate, At, Won, TypeOK, NoNewOwners, NoNewPrepares, NoNewExecutes
  <2>2. SameStore /\ SameRuns
    BY <1>11, Zenon DEF Mutate, SameStore, SameRuns, store, environment, history
  <2>3. authority <= authority' /\ world <= world'
    BY <1>11, <1>n DEF Mutate, environment
  <2>4. LateWritesAreLegal' /\ OneOwner' /\ RecordsAgree' /\ Forward
    BY <2>1, <2>2, QuietStep, Zenon
  <2>5. BoundToThePast'
    BY <1>11, <1>t, <2>1, <2>3, <2>4, PastStep, Zenon DEF Mutate
  <2>6. StaleShows'
    BY <1>t, <2>1, <2>3, StaleStep, Zenon
  <2>7. ToldConsumedIsConsumed' /\ EnteredAtMostOnce' /\ SupersededNeverEnters'
    BY <1>11, <1>t, <2>2, <2>4, Zenon DEF IndInv, Mutate, TypeOK, SameRuns, Forward, history,
       ToldConsumedIsConsumed, EnteredAtMostOnce, SupersededNeverEnters
  <2>. QED
    BY <1>t, <2>4, <2>5, <2>6, <2>7, Zenon DEF IndInv
<1>12. ASSUME NEW h \in Handlers, ControllerFails(h) PROVE IndInv'
  <2>1. NoNewOwners /\ NoNewPrepares /\ NoNewExecutes
    BY <1>12, <1>t, ReplyFacts, Zenon DEF ControllerFails
  <2>2. SameStore /\ SameRuns
    BY <1>12, Zenon DEF ControllerFails, SameStore, SameRuns, store, environment, history
  <2>3. authority <= authority' /\ world <= world'
    BY <1>12, <1>n DEF ControllerFails, environment
  <2>4. LateWritesAreLegal' /\ OneOwner' /\ RecordsAgree' /\ Forward
    BY <2>1, <2>2, QuietStep, Zenon
  <2>5. BoundToThePast'
    BY <1>12, <1>t, <2>1, <2>3, <2>4, PastStep, Zenon DEF ControllerFails
  <2>6. StaleShows'
    BY <1>t, <2>1, <2>3, StaleStep, Zenon
  <2>7. ToldConsumedIsConsumed' /\ EnteredAtMostOnce' /\ SupersededNeverEnters'
    BY <1>12, <1>t, <2>2, <2>4, Zenon DEF IndInv, ControllerFails, TypeOK, SameRuns, Forward, history,
       ToldConsumedIsConsumed, EnteredAtMostOnce, SupersededNeverEnters
  <2>. QED
    BY <1>t, <2>4, <2>5, <2>6, <2>7, Zenon DEF IndInv
<1>13. ASSUME NEW h \in Handlers, ControllerReturns(h) PROVE IndInv'
  <2>1. /\ claim' = claim /\ late' = late /\ entered' = entered
        /\ returned' = returned \cup {req[h].permit}
        /\ told' = told /\ delivered' = delivered /\ authority' = authority /\ world' = world
        /\ \A g \in Handlers : g # h => pc'[g] = pc[g] /\ req'[g] = req[g]
        /\ pc[h] = "controller"
        /\ pc'[h] = "idle" \/ (pc'[h] = "consume" /\ req'[h] = req[h])
    BY <1>13, <1>t, Zenon DEF ControllerReturns, At, Goto, Reply, TypeOK, store, environment
  <2>2. Forward /\ NoNewPrepares /\ NoNewExecutes
    BY <2>1, Zenon DEF Forward, NoNewPrepares, NoNewExecutes
  <2>3. LateWritesAreLegal'
    BY <2>1 DEF IndInv, LateWritesAreLegal, Legal, Owns, Entered, Won
  <2>4. OneOwner'
    BY <2>1, SMTT(30) DEF IndInv, OneOwner, Entered, Won
  <2>5. RecordsAgree'
    BY <2>1 DEF IndInv, RecordsAgree, OneOwner, ConsumedMeansReturned, Entered
  <2>6. BoundToThePast' /\ StaleShows'
    BY <1>n, <1>t, <2>1, <2>2, PastStep, StaleStep
  <2>7. ToldConsumedIsConsumed' /\ EnteredAtMostOnce' /\ SupersededNeverEnters'
    BY <2>1, Zenon DEF IndInv, ToldConsumedIsConsumed, EnteredAtMostOnce, SupersededNeverEnters
  <2>. QED
    BY <1>t, <2>3, <2>4, <2>5, <2>6, <2>7, Zenon DEF IndInv
<1>14. ASSUME NEW h \in Handlers, Consume(h) PROVE IndInv'
  <2>1. PICK p \in Permit, w \in LateType :
          p = req[h].permit /\ w = [permit |-> p, from |-> {"CLAIMED"}, to |-> "CONSUMED"]
    BY <1>t, Zenon DEF TypeOK, Request, LateType, ClaimState
  <2>2. NoNewOwners /\ NoNewPrepares /\ NoNewExecutes
    BY <1>14, <1>t, ReplyFacts, Zenon DEF Consume, At, Goto, Won, TypeOK, NoNewOwners, NoNewPrepares, NoNewExecutes
  <2>3. SameRuns /\ authority <= authority' /\ world <= world' /\ delivered' = delivered
    BY <1>14, <1>n DEF Consume, SameRuns, environment
  <2>4. p \in returned /\ p \in returned'
    BY <1>14, <2>1, <2>3, Zenon DEF Consume, At, IndInv, OneOwner, SameRuns
  <2>5. Legal(w)'
    BY <2>1, <2>4, Zenon DEF Legal
  <2>6. Moves(w)
    BY <1>14, <2>1, Zenon DEF Consume, Moves, Writes, Errs
  <2>7. LateWritesAreLegal' /\ OneOwner' /\ RecordsAgree' /\ Forward
    BY <2>1, <2>2, <2>3, <2>5, <2>6, StoreStep, Zenon
  <2>8. BoundToThePast' /\ StaleShows'
    BY <1>t, <2>2, <2>3, <2>7, PastStep, StaleStep, Zenon
  <2>9. EnteredAtMostOnce' /\ SupersededNeverEnters'
    BY <2>3, Zenon DEF IndInv, SameRuns, EnteredAtMostOnce, SupersededNeverEnters
  <2>10. ToldConsumedIsConsumed'
    <3>1. told' = told \/ (told' = told \cup {p} /\ claim'[p] = "CONSUMED")
      BY <1>14, <2>1, <1>t, Zenon DEF Consume, Writes, TypeOK
    <3>. QED
      BY <1>t, <2>7, <3>1, Zenon DEF IndInv, TypeOK, Forward, ToldConsumedIsConsumed
  <2>. QED
    BY <1>t, <2>7, <2>8, <2>9, <2>10, Zenon DEF IndInv
<1>15. ASSUME NEW h \in Handlers, ReportState(h) PROVE IndInv'
  <2>1. NoNewOwners /\ NoNewPrepares /\ NoNewExecutes
    BY <1>15, <1>t, ReplyFacts, Zenon DEF ReportState
  <2>2. SameStore /\ SameRuns
    BY <1>15, Zenon DEF ReportState, SameStore, SameRuns, store, environment, history
  <2>3. authority <= authority' /\ world <= world'
    BY <1>15, <1>n DEF ReportState, environment
  <2>4. LateWritesAreLegal' /\ OneOwner' /\ RecordsAgree' /\ Forward
    BY <2>1, <2>2, QuietStep, SMTT(30)
  <2>5. BoundToThePast'
    BY <1>15, <1>t, <2>1, <2>3, <2>4, PastStep, Zenon DEF ReportState
  <2>6. StaleShows'
    BY <1>t, <2>1, <2>3, StaleStep, Zenon
  <2>7. ToldConsumedIsConsumed' /\ EnteredAtMostOnce' /\ SupersededNeverEnters'
    BY <1>15, <1>t, <2>2, <2>4, Zenon DEF IndInv, ReportState, TypeOK, SameRuns, Forward, history,
       ToldConsumedIsConsumed, EnteredAtMostOnce, SupersededNeverEnters
  <2>. QED
    BY <1>t, <2>4, <2>5, <2>6, <2>7, Zenon DEF IndInv
<1>16. ASSUME NEW h \in Handlers, Abort(h) PROVE IndInv'
  <2>1. PICK p \in Permit, w \in LateType :
          p = req[h].permit /\ w = [permit |-> p, from |-> {"CLAIMED"}, to |-> "ABORTED"]
    BY <1>t, Zenon DEF TypeOK, Request, LateType, ClaimState
  <2>2. NoNewOwners /\ NoNewPrepares /\ NoNewExecutes
    BY <1>16, <1>t, ReplyFacts, Zenon DEF Abort
  <2>3. SameRuns /\ authority <= authority' /\ world <= world' /\ delivered' = delivered /\ told' = told
    BY <1>16, <1>n, SMTT(30) DEF Abort, SameRuns, environment, history
  <2>4. claim[p] = "CLAIMED" /\ ~Entered(p) /\ ~Entered(p)'
    BY <1>16, <2>1, <2>3, Zenon DEF Abort, At, IndInv, OneOwner, SameRuns, Entered
  <2>5. Moves(w)
    BY <1>16, <2>1, Zenon DEF Abort, Moves, Writes, Errs
  <2>6. claim'[p] \notin {"NONE", "ISSUED"}
    BY <1>t, <2>1, <2>4, <2>5, Zenon DEF Moves, TypeOK
  <2>7. \A g \in Handlers : ~Owns(g, p)'
    <3>0. Reply(h) /\ pc[h] = "abort"
      BY <1>16, Zenon DEF Abort, At
    <3>1. pc'[h] = "idle" /\ pc[h] = "abort"
      BY <1>t, <3>0, Zenon DEF Reply, TypeOK
    <3>2. \A g \in Handlers : g # h => pc'[g] = pc[g] /\ req'[g] = req[g]
      BY <1>t, <3>0, SMTT(30) DEF Reply, TypeOK
    <3>3. \A g \in Handlers : g # h => ~(pc[g] \in Won /\ req[g].permit = p)
      BY <2>1, <3>1, Zenon DEF IndInv, OneOwner, Won
    <3>. QED
      BY <3>1, <3>2, <3>3, Zenon DEF Owns, Won
  <2>8. Legal(w)'
    BY <2>1, <2>4, <2>6, <2>7, Zenon DEF Legal
  <2>9. LateWritesAreLegal' /\ OneOwner' /\ RecordsAgree' /\ Forward
    BY <2>1, <2>2, <2>3, <2>5, <2>8, StoreStep, Zenon
  <2>10. BoundToThePast' /\ StaleShows'
    BY <1>t, <2>2, <2>3, <2>9, PastStep, StaleStep, SMTT(30)
  <2>11. EnteredAtMostOnce' /\ SupersededNeverEnters' /\ ToldConsumedIsConsumed'
    BY <1>t, <2>3, <2>9, Zenon DEF IndInv, TypeOK, Forward, SameRuns, EnteredAtMostOnce,
       SupersededNeverEnters, ToldConsumedIsConsumed
  <2>. QED
    BY <1>t, <2>9, <2>10, <2>11, Zenon DEF IndInv
<1>17. ASSUME NEW h \in Handlers, Stops(h) PROVE IndInv'
  <2>1. NoNewOwners /\ NoNewPrepares /\ NoNewExecutes
    BY <1>17, <1>t, ReplyFacts, Zenon DEF Stops
  <2>2. SameStore /\ SameRuns
    BY <1>17, Zenon DEF Stops, SameStore, SameRuns, store, environment, history
  <2>3. authority <= authority' /\ world <= world'
    BY <1>17, <1>n DEF Stops, environment
  <2>4. LateWritesAreLegal' /\ OneOwner' /\ RecordsAgree' /\ Forward
    BY <2>1, <2>2, QuietStep, Zenon
  <2>5. BoundToThePast'
    BY <1>17, <1>t, <2>1, <2>3, <2>4, PastStep, Zenon DEF Stops
  <2>6. StaleShows'
    BY <1>t, <2>1, <2>3, StaleStep, SMTT(30)
  <2>7. ToldConsumedIsConsumed' /\ EnteredAtMostOnce' /\ SupersededNeverEnters'
    BY <1>17, <1>t, <2>2, <2>4, Zenon DEF IndInv, Stops, TypeOK, SameRuns, Forward, history,
       ToldConsumedIsConsumed, EnteredAtMostOnce, SupersededNeverEnters
  <2>. QED
    BY <1>t, <2>4, <2>5, <2>6, <2>7, Zenon DEF IndInv
<1>18. CASE LateWrite
  <2>1. PICK w \in late :
          /\ late' = late \ {w}
          /\ claim' = IF claim[w.permit] \in w.from
                        THEN [claim EXCEPT ![w.permit] = w.to] ELSE claim
    BY <1>18, Zenon DEF LateWrite
  <2>2. /\ SameRuns /\ pc' = pc /\ req' = req /\ delivered' = delivered /\ told' = told
        /\ authority <= authority' /\ world <= world'
    BY <1>18, <1>n DEF LateWrite, SameRuns
  <2>3. NoNewOwners /\ NoNewPrepares /\ NoNewExecutes
    BY <2>2, Zenon DEF NoNewOwners, NoNewPrepares, NoNewExecutes
  <2>4. w \in LateType /\ Moves(w)
    BY <1>t, <2>1, Zenon DEF TypeOK, Moves
  <2>5. Legal(w)'
    <3>1. Legal(w)
      BY <2>1, Zenon DEF IndInv, LateWritesAreLegal
    <3>2. claim[w.permit] \notin {"NONE", "ISSUED"} /\ w.from = {"CLAIMED"} /\ w.to = "ABORTED"
            => claim'[w.permit] \notin {"NONE", "ISSUED"}
      BY <1>t, <2>1, <2>4, Zenon DEF TypeOK, LateType
    <3>. QED
      BY <2>2, <3>1, <3>2, Zenon DEF Legal, Entered, Owns, SameRuns
  <2>6. LateWritesAreLegal' /\ OneOwner' /\ RecordsAgree' /\ Forward
    BY <2>2, <2>3, <2>4, <2>5, StoreStep, Zenon
  <2>7. BoundToThePast' /\ StaleShows'
    BY <1>t, <2>2, <2>3, <2>6, PastStep, StaleStep, Zenon
  <2>8. EnteredAtMostOnce' /\ SupersededNeverEnters' /\ ToldConsumedIsConsumed'
    BY <1>t, <2>2, <2>6, Zenon DEF IndInv, TypeOK, Forward, SameRuns, EnteredAtMostOnce,
       SupersededNeverEnters, ToldConsumedIsConsumed
  <2>. QED
    BY <1>t, <2>6, <2>7, <2>8, Zenon DEF IndInv
<1>19. CASE AuthorityAdvances
  <2>1. NoNewOwners /\ NoNewPrepares /\ NoNewExecutes
    BY <1>19, Zenon DEF AuthorityAdvances, NoNewOwners, NoNewPrepares, NoNewExecutes
  <2>2. SameStore /\ SameRuns
    BY <1>19, Zenon DEF AuthorityAdvances, SameStore, SameRuns, store, environment, history
  <2>3. authority <= authority' /\ world <= world'
    BY <1>19, <1>n DEF AuthorityAdvances, environment
  <2>4. LateWritesAreLegal' /\ OneOwner' /\ RecordsAgree' /\ Forward
    BY <2>1, <2>2, QuietStep, Zenon
  <2>5. BoundToThePast'
    BY <1>19, <1>t, <2>1, <2>3, <2>4, PastStep, Zenon DEF AuthorityAdvances
  <2>6. StaleShows'
    BY <1>t, <2>1, <2>3, StaleStep, Zenon
  <2>7. ToldConsumedIsConsumed' /\ EnteredAtMostOnce' /\ SupersededNeverEnters'
    BY <1>19, <1>t, <2>2, <2>4, Zenon DEF IndInv, AuthorityAdvances, TypeOK, SameRuns, Forward, history,
       ToldConsumedIsConsumed, EnteredAtMostOnce, SupersededNeverEnters
  <2>. QED
    BY <1>t, <2>4, <2>5, <2>6, <2>7, Zenon DEF IndInv
<1>20. CASE WorldChanges
  <2>1. NoNewOwners /\ NoNewPrepares /\ NoNewExecutes
    BY <1>20, Zenon DEF WorldChanges, NoNewOwners, NoNewPrepares, NoNewExecutes
  <2>2. SameStore /\ SameRuns
    BY <1>20, Zenon DEF WorldChanges, SameStore, SameRuns, store, environment, history
  <2>3. authority <= authority' /\ world <= world'
    BY <1>20, <1>n DEF WorldChanges, environment
  <2>4. LateWritesAreLegal' /\ OneOwner' /\ RecordsAgree' /\ Forward
    BY <2>1, <2>2, QuietStep, Zenon
  <2>5. BoundToThePast'
    BY <1>20, <1>t, <2>1, <2>3, <2>4, PastStep, Zenon DEF WorldChanges
  <2>6. StaleShows'
    BY <1>t, <2>1, <2>3, StaleStep, Zenon
  <2>7. ToldConsumedIsConsumed' /\ EnteredAtMostOnce' /\ SupersededNeverEnters'
    BY <1>20, <1>t, <2>2, <2>4, Zenon DEF IndInv, WorldChanges, TypeOK, SameRuns, Forward, history,
       ToldConsumedIsConsumed, EnteredAtMostOnce, SupersededNeverEnters
  <2>. QED
    BY <1>t, <2>4, <2>5, <2>6, <2>7, Zenon DEF IndInv
<1>21. CASE UNCHANGED vars
  <2>1. /\ NoNewOwners /\ NoNewPrepares /\ NoNewExecutes /\ SameStore /\ SameRuns
        /\ delivered' = delivered /\ told' = told /\ authority <= authority' /\ world <= world'
    BY <1>21, <1>n DEF vars, NoNewOwners, NoNewPrepares, NoNewExecutes, SameStore, SameRuns
  <2>2. LateWritesAreLegal' /\ OneOwner' /\ RecordsAgree' /\ Forward
    BY <2>1, QuietStep, Zenon
  <2>3. BoundToThePast' /\ StaleShows'
    BY <1>t, <2>1, <2>2, PastStep, StaleStep, Zenon
  <2>4. EnteredAtMostOnce' /\ SupersededNeverEnters' /\ ToldConsumedIsConsumed'
    BY <1>t, <2>1, <2>2, Zenon DEF IndInv, TypeOK, Forward, SameRuns, EnteredAtMostOnce,
       SupersededNeverEnters, ToldConsumedIsConsumed
  <2>. QED
    BY <1>t, <2>2, <2>3, <2>4, Zenon DEF IndInv
<1>. QED
  BY <1>1, <1>2, <1>3, <1>4, <1>5, <1>6, <1>7, <1>8, <1>9, <1>10, <1>11, <1>12, <1>13, <1>14, <1>15, <1>16, <1>17, <1>18, <1>19, <1>20, <1>21, Zenon DEF Next, Handle

-----------------------------------------------------------------------------
\* The inductive invariant holds in every reachable state.
THEOREM Invariance == Spec => []IndInv
BY InitInd, NextInd, PTL DEF Spec

\* Every variable keeps its type; no permit is bound to incomplete coordinates.
THEOREM TypeCorrect == Spec => []TypeOK
<1>1. IndInv => TypeOK
  BY Zenon DEF IndInv
<1>. QED
  BY <1>1, Invariance, PTL

\* The mutation controller is entered at most once for each permit, for any
\* number of handlers, replicas, retries and late writes.
THEOREM SingleEntry == Spec => []EnteredAtMostOnce
<1>1. IndInv => EnteredAtMostOnce
  BY Zenon DEF IndInv
<1>. QED
  BY <1>1, Invariance, PTL

\* A capability recorded as ABORTED never reached the controller.
THEOREM AbortIsSafe == Spec => []AbortedNeverEntered
<1>1. IndInv => AbortedNeverEntered
  BY Zenon DEF IndInv, RecordsAgree, AbortedNeverEntered
<1>. QED
  BY <1>1, Invariance, PTL

\* A capability recorded, or reported, as CONSUMED has a returned execution.
THEOREM ConsumeIsTruthful == Spec => [](ConsumedMeansReturned /\ ToldConsumedIsConsumed)
<1>1. IndInv => ConsumedMeansReturned /\ ToldConsumedIsConsumed
  BY Zenon DEF IndInv, RecordsAgree
<1>. QED
  BY <1>1, Invariance, PTL

\* No fenced permit is handed out before its claim record exists.
THEOREM RecordFirst == Spec => []DeliveredIsOnRecord
<1>1. IndInv => DeliveredIsOnRecord
  BY Zenon DEF IndInv, BoundToThePast, DeliveredIsOnRecord
<1>. QED
  BY <1>1, Invariance, PTL

\* A permit superseded or revoked before the request arrived never enters the
\* controller of a replica with fencing.
THEOREM SupersededStaysOut == Spec => []SupersededNeverEnters
<1>1. IndInv => SupersededNeverEnters
  BY Zenon DEF IndInv
<1>. QED
  BY <1>1, Invariance, PTL
=============================================================================
