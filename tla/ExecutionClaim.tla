--------------------------- MODULE ExecutionClaim ---------------------------
(***************************************************************************)
(* What a CapabilityClaimLifecycle (internal/server/replay.go:53-59)       *)
(* promises about ONE authorization, whatever store keeps the record: the  *)
(* capability moves ISSUED -> CLAIMED -> CONSUMED or ABORTED, forward only;*)
(* the claim is granted (Claim returns nil) to at most one caller; and a   *)
(* finalization is acknowledged (Consume or Abort returns nil) only when   *)
(* it is the one on record.  Authorizations have distinct replay keys and  *)
(* never share a record, so one of them is the whole story.                *)
(***************************************************************************)
CONSTANTS Details,   \* outcomes and abort reasons
          NoDetail   \* the empty outcome or reason

VARIABLES state,    \* the lifecycle state on record
          detail,   \* the outcome (CONSUMED) or reason (ABORTED) on record
          granted,  \* has some Claim returned nil?
          acked     \* the finalizations some caller was told took effect

claimVars == <<state, detail, granted, acked>>

Final == {"CONSUMED", "ABORTED"}
ClaimState == {"NONE", "ISSUED", "CLAIMED"} \cup Final

ClaimInit ==
  /\ state \in {"NONE", "CLAIMED"}
  /\ detail = NoDetail
  /\ granted = FALSE
  /\ acked = {}

\* The record is created unclaimed.
Issued ==
  /\ state = "NONE"
  /\ state' = "ISSUED"
  /\ UNCHANGED <<detail, granted, acked>>

\* The one transition into CLAIMED; the caller may or may not learn of it.
Claimed ==
  /\ state \in {"NONE", "ISSUED"}
  /\ state' = "CLAIMED"
  /\ granted' \in {granted, TRUE}
  /\ UNCHANGED <<detail, acked>>

\* The caller that made the transition learns of it later than it happened.
Granted ==
  /\ state \notin {"NONE", "ISSUED"}
  /\ ~granted
  /\ granted' = TRUE
  /\ UNCHANGED <<state, detail, acked>>

\* The one transition out of CLAIMED.
Finalized(s, d) ==
  /\ state = "CLAIMED"
  /\ state' = s
  /\ detail' = d
  /\ acked' \in {acked, acked \cup {<<s, d>>}}
  /\ UNCHANGED granted

\* A caller is told that its finalization took effect: it is the one on record.
Acknowledged ==
  /\ state \in Final
  /\ acked' = acked \cup {<<state, detail>>}
  /\ UNCHANGED <<state, detail, granted>>

ClaimNext ==
  \/ Issued
  \/ Claimed
  \/ Granted
  \/ \E s \in Final, d \in Details \cup {NoDetail} : Finalized(s, d)
  \/ Acknowledged

ClaimSpec == ClaimInit /\ [][ClaimNext]_claimVars
=============================================================================
