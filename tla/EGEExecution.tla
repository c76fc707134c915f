---------------------------- MODULE EGEExecution ----------------------------
(***************************************************************************)
(* PREPARE and EXECUTE (internal/server/ege.go, capability_fence.go,       *)
(* capability_claim.go and the legacy routes of server.go): how a permit   *)
(* comes to exist, and what has to happen before its one execution may     *)
(* enter the mutation controller.                                          *)
(*                                                                         *)
(* Every handler serves one request at a time, on a replica that requires  *)
(* capability fencing (Fenced) or on one that does not.  The claim record  *)
(* of a permit is the lifecycle ExecutionClaim specifies, which both       *)
(* replay guards keep; a call to the store may fail before, after or LONG  *)
(* after it took effect.  Three comparisons are all the handlers make of   *)
(* the data, so the data is numbers: the coordinates of the fence          *)
(* authority (term, decision and revocation epoch; 0 is an incomplete      *)
(* snapshot), the state of the target (identity, resource version, plan)   *)
(* and the instant a preparation observed, which separates two otherwise   *)
(* equal permits.                                                          *)
(***************************************************************************)
EXTENDS Naturals, FiniteSets

CONSTANTS Handlers,     \* the request handlers of all replicas
          Fenced,       \* those on replicas with RequireCapabilityFencing
          NoFence,      \* a permit without capability fence
          Instants,     \* observation times of a preparation
          MaxEpoch,     \* bound on the authority coordinates
          MaxWorld,     \* bound on the states of the target
          MaxPrepares,  \* bound on PREPARE requests
          MaxExecutes   \* bound on EXECUTE requests

ASSUME FencedAssumption == Fenced \subseteq Handlers
ASSUME NoFenceAssumption == NoFence \notin Nat
ASSUME InstantsAssumption == Instants # {}
ASSUME BoundsAssumption ==
  /\ MaxEpoch \in Nat
  /\ MaxWorld \in Nat \ {0}
  /\ MaxPrepares \in Nat
  /\ MaxExecutes \in Nat

VARIABLES authority,  \* current coordinates of the fence authority
          world,      \* current state of the target
          claim,      \* the claim record of every permit
          late,       \* writes of the record whose caller has given up
          delivered,  \* permits some PREPARE response carried
          pc,         \* where each handler is
          req,        \* the local variables of each handler
          prepares,   \* PREPARE requests so far
          executes,   \* EXECUTE requests so far
          entered,    \* history: entries into the mutation controller
          returned,   \* history: permits whose controller returned a report
          told        \* history: permits reported CONSUMED to the client

vars == <<authority, world, claim, late, delivered, pc, req, prepares,
          executes, entered, returned, told>>

Permit == [fence : {NoFence} \cup 1..MaxEpoch, state : 1..MaxWorld, at : Instants]

\* A handler without a request.
NoPermit == [fence |-> NoFence, state |-> 1, at |-> CHOOSE i \in Instants : TRUE]
NoRequest == [permit |-> NoPermit, id |-> 0, seen |-> 0, stale |-> FALSE]

Init ==
  /\ authority \in 0..MaxEpoch
  /\ world = 1
  /\ claim = [p \in Permit |-> "NONE"]
  /\ late = {}
  /\ delivered = {}
  /\ pc = [h \in Handlers |-> "idle"]
  /\ req = [h \in Handlers |-> NoRequest]
  /\ prepares = 0
  /\ executes = 0
  /\ entered = {}
  /\ returned = {}
  /\ told = {}

-----------------------------------------------------------------------------
(* The claim store, as the handlers use it. *)

At(h, l) == pc[h] = l
Goto(h, l) == pc' = [pc EXCEPT ![h] = l]

\* The request is over: a response was written, or nobody is left to write it.
Reply(h) ==
  /\ pc' = [pc EXCEPT ![h] = "idle"]
  /\ req' = [req EXCEPT ![h] = NoRequest]

\* A conditional write: it takes effect only on the record it was based on,
\* and no record is twice in the same state.
Writes(p, from, to) ==
  /\ claim[p] \in from
  /\ claim' = [claim EXCEPT ![p] = to]
  /\ UNCHANGED late

\* The call returned an error: the write may have been lost, have taken effect,
\* or still be on its way.
Errs(p, from, to) ==
  \/ UNCHANGED <<claim, late>>
  \/ Writes(p, from, to)
  \/ /\ late' = late \cup {[permit |-> p, from |-> from, to |-> to]}
     /\ UNCHANGED claim

\* A write whose caller has given up arrives.
LateWrite ==
  \E w \in late :
    /\ late' = late \ {w}
    /\ claim' = IF claim[w.permit] \in w.from
                  THEN [claim EXCEPT ![w.permit] = w.to] ELSE claim
    /\ UNCHANGED <<authority, world, delivered, pc, req, prepares, executes,
                   entered, returned, told>>

-----------------------------------------------------------------------------
(* PREPARE. *)

store == <<claim, late>>
environment == <<authority, world>>
history == <<entered, returned, told>>

\* The evidence is composed from the live target; without an ALLOW there is no
\* permit binding and the response carries no permit (Stops).
PrepareCompose(h) ==
  /\ At(h, "idle")
  /\ prepares < MaxPrepares
  /\ prepares' = prepares + 1
  /\ \E i \in Instants :
       req' = [req EXCEPT ![h].permit = [fence |-> NoFence, state |-> world, at |-> i]]
  /\ Goto(h, IF h \in Fenced THEN "issueFence" ELSE "respond")
  /\ UNCHANGED <<environment, store, delivered, executes, history>>

\* The authority issues coordinates, which may supersede the earlier ones; the
\* permit is bound to them if they are complete.
IssueFence(h) ==
  /\ At(h, "issueFence")
  /\ authority' \in {authority, authority + 1} \cap (0..MaxEpoch)
  /\ IF authority' = 0
       THEN Reply(h)
       ELSE /\ req' = [req EXCEPT ![h].permit.fence = authority']
            /\ Goto(h, "issueClaim")
  /\ UNCHANGED <<world, store, delivered, prepares, executes, history>>

\* The permit is signed and its claim record created; a record that is still
\* ISSUED will do, any other, or an error, ends the request without a permit.
IssueClaim(h) ==
  /\ At(h, "issueClaim")
  /\ LET p == req[h].permit IN
       \/ Writes(p, {"NONE"}, "ISSUED") /\ Goto(h, "respond") /\ UNCHANGED req
       \/ claim[p] = "ISSUED" /\ UNCHANGED store /\ Goto(h, "respond") /\ UNCHANGED req
       \/ claim[p] \notin {"NONE", "ISSUED"} /\ UNCHANGED store /\ Reply(h)
       \/ Errs(p, {"NONE"}, "ISSUED") /\ Reply(h)
  /\ UNCHANGED <<environment, delivered, prepares, executes, history>>

\* The response reaches the client.
Respond(h) ==
  /\ At(h, "respond")
  /\ delivered' = delivered \cup {req[h].permit}
  /\ Reply(h)
  /\ UNCHANGED <<environment, store, prepares, executes, history>>

-----------------------------------------------------------------------------
(* EXECUTE. *)

\* Has the fence of p been superseded, or its target changed, by now?
Superseded(p) == p.fence # authority \/ p.state # world

\* A client presents a permit it was given: the signature, the intent and the
\* conformance and admission checks pass, and a replica with fencing insists on
\* a fence.  A request that fails one of these changes nothing.  The legacy
\* route serves permits without fence, on replicas without fencing.
ExecuteStart(h, p) ==
  /\ At(h, "idle")
  /\ p \in delivered
  /\ executes < MaxExecutes
  /\ h \in Fenced => p.fence # NoFence
  /\ executes' = executes + 1
  /\ req' = [req EXCEPT ![h] = [permit |-> p, id |-> executes + 1, seen |-> 0,
                                stale |-> Superseded(p)]]
  /\ Goto(h, IF h \in Fenced THEN "authority" ELSE "claim")
  /\ UNCHANGED <<environment, store, delivered, prepares, history>>

\* The current coordinates are read first ...
ReadAuthority(h) ==
  /\ At(h, "authority")
  /\ req' = [req EXCEPT ![h].seen = authority]
  /\ Goto(h, "revalidate")
  /\ UNCHANGED <<environment, store, delivered, prepares, executes, history>>

\* The coordinates the permit carries are trusted (mutant).
RevalidateState(h) ==
  /\ At(h, "revalidate")
  /\ IF req[h].permit.state = world
       THEN Goto(h, "claim") /\ UNCHANGED req
       ELSE Reply(h)
  /\ UNCHANGED <<environment, store, delivered, prepares, executes, history>>

\* ... then the evidence is composed afresh, and the fence has to match both.
RevalidateFence(h) ==
  /\ At(h, "revalidate")
  /\ IF /\ req[h].seen # 0
        /\ req[h].permit.fence = req[h].seen
        /\ req[h].permit.state = world
       THEN Goto(h, "claim") /\ UNCHANGED req
       ELSE Reply(h)
  /\ UNCHANGED <<environment, store, delivered, prepares, executes, history>>

\* A claim whose answer was lost is taken for granted (mutant).
ClaimOptimistic(h) ==
  /\ At(h, "claim")
  /\ \/ Writes(req[h].permit, {"NONE", "ISSUED"}, "CLAIMED")
     \/ Errs(req[h].permit, {"NONE", "ISSUED"}, "CLAIMED")
  /\ Goto(h, "context")
  /\ UNCHANGED <<environment, delivered, req, prepares, executes, history>>

\* ReplayGuard.Claim: granted, refused as a replay, or unavailable.
Claim(h) ==
  /\ At(h, "claim")
  /\ LET p == req[h].permit IN
       \/ Writes(p, {"NONE", "ISSUED"}, "CLAIMED") /\ Goto(h, "context") /\ UNCHANGED req
       \/ claim[p] \notin {"NONE", "ISSUED"} /\ UNCHANGED store /\ Reply(h)
       \/ Errs(p, {"NONE", "ISSUED"}, "CLAIMED") /\ Reply(h)
  /\ UNCHANGED <<environment, delivered, prepares, executes, history>>

\* The request's context ended between the claim and the controller.
ContextEnded(h) ==
  /\ At(h, "context")
  /\ IF h \in Fenced THEN Goto(h, "abort") /\ UNCHANGED req ELSE Reply(h)
  /\ UNCHANGED <<environment, store, delivered, prepares, executes, history>>

\* adapter.Execute is called: the mutation controller is entered.
EnterController(h) ==
  /\ At(h, "context")
  /\ entered' = entered \cup {[permit |-> req[h].permit, id |-> req[h].id,
                               fenced |-> h \in Fenced, stale |-> req[h].stale,
                               overtaken |-> Superseded(req[h].permit)]}
  /\ Goto(h, "controller")
  /\ UNCHANGED <<environment, store, delivered, req, prepares, executes, returned, told>>

\* The controller mutates the target (module NodeDrain).
Mutate(h) ==
  /\ At(h, "controller")
  /\ world < MaxWorld
  /\ world' = world + 1
  /\ UNCHANGED <<authority, store, delivered, pc, req, prepares, executes, history>>

\* An error of the controller releases the capability as never used (mutant).
ControllerFailsAborting(h) ==
  /\ At(h, "controller")
  /\ Goto(h, "abort")
  /\ UNCHANGED <<environment, store, delivered, req, prepares, executes, history>>

\* The controller returned an error: it may stand for an ambiguous write, so the
\* record is left CLAIMED.
ControllerFails(h) ==
  /\ At(h, "controller")
  /\ Reply(h)
  /\ UNCHANGED <<environment, store, delivered, prepares, executes, history>>

\* The controller returned a report, whatever its decision.
ControllerReturns(h) ==
  /\ At(h, "controller")
  /\ returned' = returned \cup {req[h].permit}
  /\ IF h \in Fenced THEN Goto(h, "consume") /\ UNCHANGED req ELSE Reply(h)
  /\ UNCHANGED <<environment, store, delivered, prepares, executes, entered, told>>

\* The response says CONSUMED whatever the store answered (mutant).
ConsumeUnchecked(h) ==
  /\ At(h, "consume")
  /\ \/ Writes(req[h].permit, {"CLAIMED"}, "CONSUMED")
     \/ Errs(req[h].permit, {"CLAIMED"}, "CONSUMED")
  /\ told' = told \cup {req[h].permit}
  /\ Reply(h)
  /\ UNCHANGED <<environment, delivered, prepares, executes, entered, returned>>

\* The capability is consumed under a context of its own; if that fails the
\* record is read back for the response.
Consume(h) ==
  /\ At(h, "consume")
  /\ LET p == req[h].permit IN
       \/ /\ Writes(p, {"CLAIMED"}, "CONSUMED")
          /\ told' = told \cup {p}
          /\ Reply(h)
       \/ /\ Errs(p, {"CLAIMED"}, "CONSUMED")
          /\ Goto(h, "state")
          /\ UNCHANGED <<req, told>>
  /\ UNCHANGED <<environment, delivered, prepares, executes, entered, returned>>

\* The response carries the state the record has now.
ReportState(h) ==
  /\ At(h, "state")
  /\ told' = IF claim[req[h].permit] = "CONSUMED" THEN told \cup {req[h].permit} ELSE told
  /\ Reply(h)
  /\ UNCHANGED <<environment, store, delivered, prepares, executes, entered, returned>>

\* The capability is aborted: the controller was never entered.
Abort(h) ==
  /\ At(h, "abort")
  /\ \/ Writes(req[h].permit, {"CLAIMED"}, "ABORTED")
     \/ Errs(req[h].permit, {"CLAIMED"}, "ABORTED")
  /\ Reply(h)
  /\ UNCHANGED <<environment, delivered, prepares, executes, history>>

-----------------------------------------------------------------------------
\* A request ends early: a check or a call fails and an error is written, the
\* client is gone, or the process dies.
Stops(h) ==
  /\ pc[h] \notin {"idle", "controller"}
  /\ Reply(h)
  /\ UNCHANGED <<environment, store, delivered, prepares, executes, history>>

\* The authority fails over, supersedes a decision or revokes; epochs only grow.
AuthorityAdvances ==
  /\ authority < MaxEpoch
  /\ authority' = authority + 1
  /\ UNCHANGED <<world, store, delivered, pc, req, prepares, executes, history>>

\* Somebody else changes the target; resource versions do not come back.
WorldChanges ==
  /\ world < MaxWorld
  /\ world' = world + 1
  /\ UNCHANGED <<authority, store, delivered, pc, req, prepares, executes, history>>

Handle(h) ==
  \/ PrepareCompose(h) \/ IssueFence(h) \/ IssueClaim(h) \/ Respond(h)
  \/ \E p \in delivered : ExecuteStart(h, p)
  \/ ReadAuthority(h) \/ RevalidateFence(h) \/ Claim(h)
  \/ ContextEnded(h) \/ EnterController(h) \/ Mutate(h)
  \/ ControllerFails(h) \/ ControllerReturns(h)
  \/ Consume(h) \/ ReportState(h) \/ Abort(h)
  \/ Stops(h)

Next ==
  \/ \E h \in Handlers : Handle(h)
  \/ LateWrite \/ AuthorityAdvances \/ WorldChanges

Spec == Init /\ [][Next]_vars

-----------------------------------------------------------------------------
(* Properties. *)

Labels == {"idle", "issueFence", "issueClaim", "respond", "authority",
           "revalidate", "claim", "context", "abort", "controller", "consume",
           "state"}
ClaimState == {"NONE", "ISSUED", "CLAIMED", "CONSUMED", "ABORTED"}
Request == [permit : Permit, id : Nat, seen : Nat, stale : BOOLEAN]
Entry == [permit : Permit, id : Nat, fenced : BOOLEAN, stale : BOOLEAN,
          overtaken : BOOLEAN]
LateType == [permit : Permit, from : SUBSET ClaimState, to : ClaimState]

\* Every variable has its type: in particular no permit is ever bound to
\* incomplete coordinates (ValidateCapabilityFenceClaims, capability.go:73-90).
TypeOK ==
  /\ authority \in 0..MaxEpoch
  /\ world \in 1..MaxWorld
  /\ claim \in [Permit -> ClaimState]
  /\ late \subseteq LateType
  /\ delivered \subseteq Permit
  /\ pc \in [Handlers -> Labels]
  /\ req \in [Handlers -> Request]
  /\ prepares \in Nat
  /\ executes \in Nat
  /\ entered \subseteq Entry
  /\ returned \subseteq Permit
  /\ told \subseteq Permit

\* However many requests, on however many replicas, present the same permit, and
\* whichever of their store calls fail or arrive late, the mutation controller is
\* entered at most once for it (ege.go:401-422; legacy server.go:459-467).
EnteredAtMostOnce ==
  \A a, b \in entered : a.permit = b.permit => a.id = b.id

\* ABORTED on record means that the controller was never entered for the permit,
\* and never will be (ege.go:411-419).
AbortedNeverEntered ==
  \A e \in entered : claim[e.permit] # "ABORTED"

\* CONSUMED on record means that the controller returned a report; an entry that
\* failed, or whose replica died, leaves CLAIMED behind for ever (ege.go:423-452).
ConsumedMeansReturned ==
  \A p \in Permit : claim[p] = "CONSUMED" => p \in returned

\* A client that reads CONSUMED in a response may rely on the record
\* (ege.go:452-473).
ToldConsumedIsConsumed ==
  \A p \in told : claim[p] = "CONSUMED"

\* A permit with a fence reaches a client only when its claim record exists, so
\* that a lost record can be told from an unclaimed one (ege.go:190-200).
DeliveredIsOnRecord ==
  \A p \in delivered : p.fence # NoFence => claim[p] # "NONE"

\* On a replica with fencing, a permit that was superseded or revoked, or whose
\* target had changed, before the request arrived never enters the controller,
\* although the handler checks coordinates and target at two different moments
\* (capability_fence.go:106-147).
SupersededNeverEnters ==
  \A e \in entered : e.fenced => ~e.stale

\* docs/execution-capability-fencing.md:138: a fenced execution cannot enter the
\* mutation controller when its coordinates or target binding no longer match.
FencedEntersCurrent ==
  \A e \in entered : e.fenced => ~e.overtaken

-----------------------------------------------------------------------------
(* The inductive invariant behind them. *)

\* A handler whose Claim was granted, until it replies.
Won == {"context", "abort", "controller", "consume", "state"}
Owns(h, p) == pc[h] \in Won /\ req[h].permit = p
Entered(p) == \E e \in entered : e.permit = p

\* What a write that has been given up may still do to the record.
Legal(w) ==
  \/ w.from = {"NONE"} /\ w.to = "ISSUED"
  \/ w.from = {"NONE", "ISSUED"} /\ w.to = "CLAIMED"
  \/ /\ w.from = {"CLAIMED"} /\ w.to = "ABORTED"
     /\ claim[w.permit] \notin {"NONE", "ISSUED"}
     /\ ~Entered(w.permit)
     /\ \A h \in Handlers : ~Owns(h, w.permit)
  \/ w.from = {"CLAIMED"} /\ w.to = "CONSUMED" /\ w.permit \in returned

LateWritesAreLegal == \A w \in late : Legal(w)

\* One handler owns a claimed permit; until it enters the controller nobody has.
OneOwner ==
  /\ \A g, h \in Handlers :
       pc[g] \in Won /\ pc[h] \in Won /\ req[g].permit = req[h].permit => g = h
  /\ \A h \in Handlers :
       /\ pc[h] \in Won => claim[req[h].permit] \notin {"NONE", "ISSUED"}
       /\ pc[h] \in {"context", "abort"} =>
            ~Entered(req[h].permit) /\ claim[req[h].permit] = "CLAIMED"
       /\ pc[h] = "controller" => Entered(req[h].permit)
       /\ pc[h] \in {"consume", "state"} => req[h].permit \in returned

\* The record of a permit and the history of its execution agree.
RecordsAgree ==
  /\ \A e \in entered : claim[e.permit] \in {"CLAIMED", "CONSUMED"}
  /\ \A p \in returned : Entered(p)
  /\ ConsumedMeansReturned

\* Permits are bound to the past: what they carry has been current.
BoundToThePast ==
  /\ \A p \in delivered : p.fence # NoFence => p.fence <= authority /\ claim[p] # "NONE"
  /\ \A p \in delivered : p.state <= world
  /\ \A h \in Handlers : pc[h] \in {"issueFence", "issueClaim", "respond"} =>
       req[h].permit.state <= world
  /\ \A h \in Handlers : pc[h] \in {"issueClaim", "respond"} /\ req[h].permit.fence # NoFence =>
       /\ req[h].permit.fence <= authority
       /\ pc[h] = "respond" => claim[req[h].permit] # "NONE"
  /\ \A h \in Handlers : pc[h] = "issueFence" => req[h].permit.fence = NoFence

\* Between arrival and claim a stale permit stays visibly stale.
StaleShows ==
  \A h \in Handlers : h \in Fenced =>
    /\ pc[h] \in {"authority", "revalidate"} => req[h].permit.fence # NoFence
    /\ pc[h] = "authority" /\ req[h].stale =>
         req[h].permit.fence < authority \/ req[h].permit.state < world
    /\ pc[h] = "revalidate" /\ req[h].stale =>
         req[h].permit.fence < req[h].seen \/ req[h].permit.state < world
    /\ pc[h] \in {"claim", "context"} => ~req[h].stale

IndInv ==
  /\ TypeOK
  /\ LateWritesAreLegal
  /\ OneOwner
  /\ RecordsAgree
  /\ ToldConsumedIsConsumed
  /\ BoundToThePast
  /\ StaleShows
  /\ EnteredAtMostOnce
  /\ SupersededNeverEnters
=============================================================================
