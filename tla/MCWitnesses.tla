---------------------------- MODULE MCWitnesses -----------------------------
(***************************************************************************)
(* The witnesses of a journal's head: the protocol of one remote witness   *)
(* (RemoteWitness), the quorum of several (WitnessQuorum), its replacement *)
(* by another quorum (QuorumRotation, of which the quorum alone is a part) *)
(* and the transition between two governance authorities                   *)
(* (SuccessorGovernance). A behaviour moves one of them and leaves the     *)
(* others in their initial state.                                          *)
(***************************************************************************)
EXTENDS QuorumRotation, TLC

CONSTANTS Parts, w1, w2, w3, w4, v1, v2, cOld, cNew, r1, j1, j2, e1, e2, t1, t2, None

VARIABLE part   \* the component this behaviour moves

\* Two of three witnesses are a quorum, and two are kept by the rotation.
MCMembers == [p \in Policies |-> IF p = "old" THEN {w1, w2, w3} ELSE {w1, w2, w4}]
MCThreshold == [p \in Policies |-> 2]
MCBound == [c \in Clients |-> IF c = cNew THEN "new" ELSE "old"]
MCShared == <<w1, w2>>
MCEntry == [c \in Clients |-> IF c = cNew THEN {v2} ELSE {v1}]
MCEnrolled == <<v1>>

\* The quorum by itself: both clients are bound to it and nothing is enrolled.
Alone == INSTANCE WitnessQuorum WITH
    Bound <- [c \in Clients |-> "old"], Enrolled <- <<>>, Ops <- {"load", "advance", "converge"}

\* RemoteWitness.
VARIABLES w_state, w_requests, w_taken, w_busy, w_answers, w_pc, w_loc, w_saved,
          w_accepted, w_hist
remoteVars == <<w_state, w_requests, w_taken, w_busy, w_answers, w_pc, w_loc, w_saved,
                w_accepted, w_hist>>
Remote == INSTANCE RemoteWitness WITH
    Journals <- {j1, j2}, Clients <- {cOld, cNew}, MaxSeq <- 2, MaxEpoch <- 2,
    MaxCalls <- 3, MaxBusy <- 2, MaxTwice <- 1, state <- w_state,
    requests <- w_requests, taken <- w_taken, busy <- w_busy, answers <- w_answers,
    pc <- w_pc, loc <- w_loc, saved <- w_saved, accepted <- w_accepted, hist <- w_hist

\* SuccessorGovernance.
VARIABLES g_wit, g_pc, g_loc, g_expired, g_frozen, g_completed, g_runs
governanceVars == <<g_wit, g_pc, g_loc, g_expired, g_frozen, g_completed, g_runs>>
Governance == INSTANCE SuccessorGovernance WITH
    Members <- MCMembers, Threshold <- MCThreshold, Rotations <- {t1, t2},
    Executors <- {e1, e2}, MaxRuns <- 3, MayExpire <- TRUE,
    Provisioned <- FALSE, None <- None, wit <- g_wit, pc <- g_pc, loc <- g_loc,
    expired <- g_expired, frozen <- g_frozen, completed <- g_completed, runs <- g_runs

SuiteVars == <<part, allvars, remoteVars, governanceVars>>

QuorumNext ==
  \/ part = "rotation" /\ RNext
  \/ part = "quorum" /\ Alone!Next /\ UNCHANGED rvars

\* Three requests about one journal, or two about two.
RemoteNext ==
  /\ part \in {"requests", "journals"}
  /\ Remote!Next
  /\ part = "journals" => Cardinality(DOMAIN w_requests') <= 2
  /\ part = "requests" => \A n \in DOMAIN w_requests' : w_requests'[n].journal = j1

SuiteInit ==
  /\ part \in Parts
  /\ IF part = "quorum" THEN Alone!Init /\ RotatorInit ELSE RInit
  /\ Remote!Init
  /\ part # "journals" => w_state.heads[j2] = 0
  /\ part \notin {"requests", "journals"} => w_state.heads[j1] = 0 /\ w_state.policy.epoch = 1
  /\ Governance!Init

SuiteNext ==
  /\ UNCHANGED part
  /\ \/ QuorumNext /\ UNCHANGED <<remoteVars, governanceVars>>
     \/ RemoteNext /\ UNCHANGED <<allvars, governanceVars>>
     \/ part = "governance" /\ Governance!Next /\ UNCHANGED <<allvars, remoteVars>>

SuiteSpec == SuiteInit /\ [][SuiteNext]_SuiteVars

-----------------------------------------------------------------------------
\* What a call to a remote witness accepts was its state at a moment within the
\* call, however old or repeated the answers in the network are, and no request is
\* carried out twice; its handlers, which load and write side by side, still are
\* a register that changes one head or the policy at a time, each forward.
RemoteIsRegister ==
  [](Remote!TypeOK /\ Remote!Fresh /\ Remote!CarriedOutOnce) /\ Remote!IsRegister

\* The two governance authorities are never current at the same moment; once a
\* caller is told that a transition is frozen, the old authority is never current
\* again and no other transition is frozen or completed.  The new authority, once
\* current, stays so.
AuthoritiesExclude ==
  /\ [](Governance!TypeOK /\ Governance!NeverBothCurrent /\ Governance!FrozenIsExclusive)
  /\ Governance!ActivatedForGood
=============================================================================
