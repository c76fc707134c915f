--------------------------- MODULE HistoryTransfer ---------------------------
(***************************************************************************)
(* Replacing the TPM that anchors a recovery history: the ownership        *)
(* witness and the anchor that requires it                                 *)
(* (internal/server/taint_recovery_history_ownership.go), the anchor that  *)
(* requires the local TPM and the history witness to agree                 *)
(* (taint_recovery_history_quorum_anchor.go), and the authorized transfer  *)
(* of a history to another device (tpm_history_continuity_transfer.go).    *)
(*                                                                         *)
(* A head is the sequence of the devices that wrote it.  The TPM anchor of *)
(* a device is the register of MonotonicRoot, which TPMHistoryAnchor       *)
(* implements; the history witness is one register; the ownership witness  *)
(* is a quorum whose members an advance reaches one by one.                *)
(***************************************************************************)
EXTENDS Naturals, Sequences, SequencesExt, FiniteSets

CONSTANTS
    Devices, Source,       \* the devices; the one that owns the history at first
    Members, Threshold,    \* of the ownership quorum
    Operators,             \* runs of the transfer
    None,
    MaxHistory, MaxAuthorizations, MaxFaults

\* normalizeQuorumTrustPolicy: a strict majority, up to all members.
ASSUME TransferAssumption ==
    /\ Source \in Devices /\ Members # {}
    /\ 2 * Threshold > Cardinality(Members) /\ Threshold <= Cardinality(Members)

VARIABLES
    local,      \* device -> the head of its TPM, and the transfer it was imported by
    witness,    \* the head of the history witness
    own,        \* member -> ownership state
    auths,      \* the signed authorizations; its index is the digest of one
    call,       \* device -> the call of its owned anchor
    xfer,       \* operator -> the transfer it runs
    answered,   \* the last head an owned anchor answered with
    faults

vars == <<local, witness, own, auths, call, xfer, answered, faults>>
Empty == <<>>

Idle == [pc |-> "idle"]

\* TaintRecoveryHistoryOwnershipState; a quiesced witness names no device.
OwnedBy(d, e, i) == [epoch |-> e, active |-> d, auth |-> i]

Quiesced(i) == [epoch |-> auths[i].epoch + 1, active |-> None, auth |-> i]
Final(i) == [epoch |-> auths[i].epoch + 2, active |-> auths[i].dst, auth |-> i]
Expected(i) == [epoch |-> auths[i].epoch, active |-> auths[i].src, auth |-> auths[i].ownAuth]

\* validateTaintRecoveryHistoryOwnershipState and decode.
ValidOwnership(state) == (state.epoch = 0) = (state.auth = 0)

\* ValidateTPMHistoryContinuityTransferAuthorization
ValidAuthorization(auth) ==
    /\ auth.src # auth.dst
    /\ auth.head # Empty
    /\ (auth.epoch = 0) = (auth.ownAuth = 0)

TypeOK ==
    /\ \A d \in Devices : local[d].head \in Seq(Devices) /\ local[d].by \in 0..Len(auths)
    /\ witness \in Seq(Devices) /\ answered \in Seq(Devices)
    /\ \A m \in Members : own[m].epoch \in 0..2 * MaxAuthorizations /\ ValidOwnership(own[m])
    /\ \A i \in DOMAIN auths : ValidAuthorization(auths[i])
    /\ faults \in 0..MaxFaults

Init ==
    /\ local = [d \in Devices |-> [head |-> IF d = Source THEN <<Source>> ELSE Empty, by |-> 0]]
    /\ witness = <<Source>>
    /\ own = [m \in Members |-> OwnedBy(Source, 0, 0)]
    /\ auths = <<>>
    /\ call = [d \in Devices |-> Idle]
    /\ xfer = [o \in Operators |-> Idle]
    /\ answered = <<Source>>
    /\ faults = 0

(***************************************************************************)
(* The ownership quorum                                                    *)
(***************************************************************************)
Quorate(S) == Cardinality(S) >= Threshold
Holding(state) == {m \in Members : own[m] = state}

\* QuorumHeadStore.Load: the state a quorum holds, if one does.
Held == {own[m] : m \in Members}
Loaded == {state \in Held : Quorate(Holding(state))}

\* QuorumHeadStore.CompareAndAdvance: refused unless a quorum holds what is
\* expected; of these members it may reach some only.
Advance(expected, next, reached) ==
    /\ Quorate(Holding(expected))
    /\ reached \subseteq Holding(expected)
    /\ own' = [m \in Members |-> IF m \in reached THEN next ELSE own[m]]
    /\ faults' = IF reached = Holding(expected) THEN faults ELSE faults + 1
    /\ faults' <= MaxFaults

\* QuorumHeadStore.ConvergeAuthorizedTransition: every member it can read is in
\* the chain, and each of them is moved to the target.
Converge(chain, target, readable, reached) ==
    /\ Quorate(readable)
    /\ \A m \in readable : own[m] \in chain
    /\ reached \subseteq readable
    /\ own' = [m \in Members |-> IF m \in reached THEN target ELSE own[m]]
    /\ faults' = IF reached = Members THEN faults ELSE faults + 1
    /\ faults' <= MaxFaults

(***************************************************************************)
(* The owned anchor of a device                                            *)
(***************************************************************************)
CallGoto(d, pc) == call' = [call EXCEPT ![d].pc = pc]
CallReturn(d) == call' = [call EXCEPT ![d] = Idle]

\* requireActiveDevice
ActiveDevice(d) == \E state \in Loaded : state.active = d

\* Current and CompareAndAdvance begin with the ownership.
requireActiveDevice(d, op) ==
    /\ call[d] = Idle
    /\ ActiveDevice(d)
    /\ op = "advance" => Len(local[d].head) < MaxHistory
    /\ call' = [call EXCEPT ![d] = [pc |-> "read", op |-> op, expected |-> local[d].head]]
    /\ UNCHANGED <<local, witness, own, auths, xfer, answered, faults>>

\* The conjunctive Current: the TPM and the witness hold the same head.
ConjunctiveCurrent(d) ==
    /\ call[d].pc = "read" /\ call[d].op = "current"
    /\ answered' = IF local[d].head = witness THEN witness ELSE answered
    /\ CallReturn(d)
    /\ UNCHANGED <<local, witness, own, auths, xfer, faults>>

\* The conjunctive CompareAndAdvance: the same reading, the witness, the TPM.
ConjunctiveCompare(d) ==
    /\ call[d].pc = "read" /\ call[d].op = "advance"
    /\ IF local[d].head = witness /\ witness = call[d].expected
       THEN CallGoto(d, "witness") ELSE CallReturn(d)
    /\ UNCHANGED <<local, witness, own, auths, xfer, answered, faults>>

\* ExternalHeadTaintRecoveryHistoryAnchor.CompareAndAdvance
AdvanceWitness(d) ==
    /\ call[d].pc = "witness"
    /\ IF witness = call[d].expected
       THEN witness' = Append(witness, d) /\ CallGoto(d, "local")
       ELSE CallReturn(d) /\ UNCHANGED witness
    /\ UNCHANGED <<local, own, auths, xfer, answered, faults>>

AdvanceLocal(d) ==
    /\ call[d].pc = "local"
    /\ IF local[d].head = call[d].expected
       THEN local' = [local EXCEPT ![d] = [head |-> Append(@.head, d), by |-> 0]] /\ CallGoto(d, "owned")
       ELSE CallReturn(d) /\ UNCHANGED local
    /\ UNCHANGED <<witness, own, auths, xfer, answered, faults>>

\* CompareAndAdvance asks again who owns the history before it answers.
AdvanceAnswered(d) ==
    /\ call[d].pc = "owned"
    /\ answered' = IF ActiveDevice(d) THEN Append(call[d].expected, d) ELSE answered
    /\ CallReturn(d)
    /\ UNCHANGED <<local, witness, own, auths, xfer, faults>>

(***************************************************************************)
(* The transfer                                                            *)
(***************************************************************************)
\* SignTPMHistoryContinuityTransferAuthorization, over the state of the owner
\* and an anchor that was never used.
SignAuthorization(src, dst) ==
    /\ Len(auths) < MaxAuthorizations
    /\ local[dst] = [head |-> Empty, by |-> 0]
    /\ \E state \in Loaded :
           /\ state.active = src
           /\ LET auth == [src |-> src, dst |-> dst, head |-> local[src].head, epoch |-> state.epoch,
                           ownAuth |-> state.auth, valid |-> TRUE]
              IN  ValidAuthorization(auth) /\ auths' = Append(auths, auth)
    /\ UNCHANGED <<local, witness, own, call, xfer, answered, faults>>

\* The validity window of an authorization ends.
Expire(i) ==
    /\ auths[i].valid
    /\ auths' = [auths EXCEPT ![i].valid = FALSE]
    /\ UNCHANGED <<local, witness, own, call, xfer, answered, faults>>

\* VerifySignedTPMHistoryContinuityTransferAuthorization
Verified(i) == auths[i].valid /\ ValidAuthorization(auths[i])

Auth(o) == auths[xfer[o].auth]
XferGoto(o, pc) == xfer' = [xfer EXCEPT ![o].pc = pc]
XferReturn(o) == xfer' = [xfer EXCEPT ![o] = Idle]

\* TransferTPMNVHistoryContinuity: the authorization against the state file of the
\* source, which may be an older copy.
StartTransfer(o, i) ==
    /\ xfer[o] = Idle
    /\ Verified(i)
    /\ IsPrefix(auths[i].head, local[auths[i].src].head)
    /\ xfer' = [xfer EXCEPT ![o] = [pc |-> "ownership", auth |-> i]]
    /\ UNCHANGED <<local, witness, own, auths, call, answered, faults>>

\* The ownership decides: a split quorum may be recovered, a completed transfer
\* is a replay, a source or quiesced witness is the start or a resumption.
ReadOwnership(o) ==
    /\ xfer[o].pc = "ownership"
    /\ IF Loaded = {} THEN XferGoto(o, "split")
       ELSE IF Final(xfer[o].auth) \in Loaded THEN XferReturn(o)
       ELSE \E state \in Loaded :
                xfer' = [xfer EXCEPT ![o] = [pc |-> "precheck", own |-> state, auth |-> @.auth]]
    /\ UNCHANGED <<local, witness, own, auths, call, answered, faults>>

\* Members that do not answer make the same error as members that disagree.
OwnershipUnavailable(o) ==
    /\ xfer[o].pc = "ownership" /\ faults < MaxFaults
    /\ faults' = faults + 1
    /\ XferGoto(o, "split")
    /\ UNCHANGED <<local, witness, own, auths, call, answered>>

requireExactHistoryWitness(o, then) ==
    /\ IF witness = Auth(o).head THEN XferGoto(o, then) ELSE XferReturn(o)
    /\ UNCHANGED <<local, witness, own, auths, call, answered, faults>>

\* isPreparedTPMHistoryContinuityDestination
Prepared(i) == local[auths[i].dst] = [head |-> auths[i].head, by |-> i]

\* preflightTPMHistoryContinuityDestination
Preflight(i) == Prepared(i) \/ local[auths[i].dst] = [head |-> Empty, by |-> 0]

CheckWitnessBefore(o) == xfer[o].pc = "precheck" /\ requireExactHistoryWitness(o, "preflight")

\* Mutant: a transfer that was interrupted after the quiescence is not resumed.
PreflightSourceOnly(o) ==
    /\ xfer[o].pc = "preflight"
    /\ IF Preflight(xfer[o].auth) /\ xfer[o].own = Expected(xfer[o].auth)
       THEN XferGoto(o, "begin") ELSE XferReturn(o)
    /\ UNCHANGED <<local, witness, own, auths, call, answered, faults>>

PreflightDestination(o) ==
    /\ xfer[o].pc = "preflight"
    /\ IF ~Preflight(xfer[o].auth) THEN XferReturn(o)
       ELSE IF xfer[o].own = Expected(xfer[o].auth) THEN XferGoto(o, "begin")
       ELSE IF xfer[o].own = Quiesced(xfer[o].auth) THEN XferGoto(o, "recheck")
       ELSE XferReturn(o)
    /\ UNCHANGED <<local, witness, own, auths, call, answered, faults>>

\* Mutant: the ownership is written without comparing it with the one read.
BeginTransferStale(o) ==
    /\ xfer[o].pc = "begin"
    /\ \E reached \in {S \in SUBSET Members : Quorate(S)} :
           /\ own' = [m \in Members |-> IF m \in reached THEN Quiesced(xfer[o].auth) ELSE own[m]]
           /\ faults' = IF reached = Members THEN faults ELSE faults + 1
    /\ faults' <= MaxFaults
    /\ XferGoto(o, "recheck")
    /\ UNCHANGED <<local, witness, auths, call, answered>>

\* BeginTransfer: the source is quiesced, already or now.
BeginTransfer(o) ==
    /\ xfer[o].pc = "begin"
    /\ IF Quiesced(xfer[o].auth) \in Loaded
       THEN XferGoto(o, "recheck") /\ UNCHANGED <<own, faults>>
       ELSE IF Expected(xfer[o].auth) \in Loaded
       THEN \E reached \in SUBSET Members :
                /\ Advance(Expected(xfer[o].auth), Quiesced(xfer[o].auth), reached)
                /\ IF Quorate(reached) THEN XferGoto(o, "recheck") ELSE XferReturn(o)
       ELSE XferReturn(o) /\ UNCHANGED <<own, faults>>
    /\ UNCHANGED <<local, witness, auths, call, answered>>

CheckWitnessQuiesced(o) == xfer[o].pc = "recheck" /\ requireExactHistoryWitness(o, "import")

\* importTPMHistoryContinuityDestination
ImportDestination(o) ==
    /\ xfer[o].pc = "import"
    /\ IF Preflight(xfer[o].auth)
       THEN /\ local' = [local EXCEPT ![Auth(o).dst] = [head |-> Auth(o).head, by |-> xfer[o].auth]]
            /\ XferGoto(o, "complete")
       ELSE XferReturn(o) /\ UNCHANGED local
    /\ UNCHANGED <<witness, own, auths, call, answered, faults>>

CompleteTransfer(o) ==
    /\ xfer[o].pc = "complete"
    /\ IF Quiesced(xfer[o].auth) \in Loaded
       THEN \E reached \in SUBSET Members : Advance(Quiesced(xfer[o].auth), Final(xfer[o].auth), reached)
       ELSE UNCHANGED <<own, faults>>
    /\ XferReturn(o)
    /\ UNCHANGED <<local, witness, auths, call, answered>>

\* A split quorum: the same head, a destination that is prepared, the chain.
CheckWitnessSplit(o) == xfer[o].pc = "split" /\ requireExactHistoryWitness(o, "prepared")

SplitPrepared(o) ==
    /\ xfer[o].pc = "prepared"
    /\ IF Prepared(xfer[o].auth) THEN XferGoto(o, "converge") ELSE XferReturn(o)
    /\ UNCHANGED <<local, witness, own, auths, call, answered, faults>>

RecoverAuthorizedTransfer(o) ==
    /\ xfer[o].pc = "converge"
    /\ LET i == xfer[o].auth
           chain == {Expected(i), Quiesced(i), Final(i)}
       IN  \/ \E readable, reached \in SUBSET Members : Converge(chain, Final(i), readable, reached)
           \/ Held \ chain # {} /\ UNCHANGED <<own, faults>>
    /\ XferReturn(o)
    /\ UNCHANGED <<local, witness, auths, call, answered>>

(***************************************************************************)
(* Failures: a call or a transfer stops where it is                        *)
(***************************************************************************)
CallStops(d) ==
    /\ call[d] # Idle /\ faults < MaxFaults
    /\ faults' = faults + 1
    /\ CallReturn(d)
    /\ UNCHANGED <<local, witness, own, auths, xfer, answered>>

TransferStops(o) ==
    /\ xfer[o] # Idle /\ faults < MaxFaults
    /\ faults' = faults + 1
    /\ XferReturn(o)
    /\ UNCHANGED <<local, witness, own, auths, call, answered>>

Answer(d) ==
    \/ ConjunctiveCurrent(d) \/ ConjunctiveCompare(d)
    \/ AdvanceWitness(d) \/ AdvanceLocal(d) \/ AdvanceAnswered(d)

Device(d) == Answer(d) \/ \E op \in {"current", "advance"} : requireActiveDevice(d, op)

Retry(o, i) == i \in DOMAIN auths /\ StartTransfer(o, i)

Continue(o) ==
    \/ ReadOwnership(o) \/ CheckWitnessBefore(o) \/ PreflightDestination(o)
    \/ BeginTransfer(o) \/ CheckWitnessQuiesced(o) \/ ImportDestination(o) \/ CompleteTransfer(o)
    \/ CheckWitnessSplit(o) \/ SplitPrepared(o) \/ RecoverAuthorizedTransfer(o)

Next ==
    \/ \E d \in Devices : Device(d) \/ CallStops(d)
    \/ \E src, dst \in Devices : SignAuthorization(src, dst)
    \/ \E i \in DOMAIN auths : Expire(i)
    \/ \E o \in Operators, i \in DOMAIN auths : StartTransfer(o, i)
    \/ \E o \in Operators : Continue(o) \/ OwnershipUnavailable(o) \/ TransferStops(o)

Spec == Init /\ [][Next]_vars

\* A call runs to its end, and so does a transfer; one that stopped is retried,
\* which docs/taint-history-authorized-continuity-transfer.md asks of operators.
FairSpec ==
    /\ Spec
    /\ \A d \in Devices : WF_vars(Answer(d))
    /\ \A o \in Operators :
           WF_vars(Continue(o)) /\ \A i \in 1..MaxAuthorizations : SF_vars(Retry(o, i))

(***************************************************************************)
(* Properties                                                              *)
(***************************************************************************)
\* What an owned anchor answers extends all that any owned anchor answered
\* before, across devices: a transfer neither loses nor forks a head that was
\* reported, whichever calls were under way while it ran.
AnsweredExtends == [][IsPrefix(answered, answered')]_vars

\* A quorum for the final ownership of a transfer means that the destination
\* holds what was authorized, or has gone on from it: neither a resumed transfer nor
\* the repair of a split quorum activates a device that was not prepared.
ActiveIsPrepared ==
    \A i \in DOMAIN auths :
        Final(i) \in Loaded => IsPrefix(auths[i].head, local[auths[i].dst].head)

\* The quorum's state never goes back, and no two ownership states of one epoch are
\* ever held by members of whom one was completed: of two authorizations signed
\* for the same owner, one at most gets the history.
OwnershipForward ==
    [][\A old \in Loaded, new \in Loaded' : new = old \/ new.epoch > old.epoch]_vars

OneSuccessor ==
    \A i, j \in DOMAIN auths :
        i # j /\ auths[i].epoch = auths[j].epoch =>
            ~(\E m \in Members : own[m] = Final(i)) \/ ~(\E m \in Members : own[m] = Final(j))

\* A device becomes the owner only at the head that the witness has: the transfer
\* stops rather than activate it at stale history.
NoStaleActivation ==
    [][\A i \in DOMAIN auths :
           Final(i) \in Loaded' \ Loaded => witness = auths[i].head]_vars

\* No retry of an authorization gets further: the quorum holds none of its three
\* states, and these are not all that its members hold or the destination is not
\* prepared.  A quiescence that reached some members only has this effect where
\* neither state is left with a quorum, and so has a rival authorization.
Blocked(i) ==
    LET chain == {Expected(i), Quiesced(i), Final(i)}
    IN  Loaded \cap chain = {} /\ (~(Held \subseteq chain) \/ ~Prepared(i))

\* An authorization that is retried, whatever stopped the earlier attempts, ends
\* with the destination as the owner, unless the history has moved on, the
\* authorization has expired or it is blocked; and one that is blocked stays so.
Ended(i) ==
    /\ i \in DOMAIN auths
    /\ Final(i) \in Loaded \/ witness # auths[i].head \/ ~auths[i].valid \/ Blocked(i)
TransferConverges == \A i \in 1..MaxAuthorizations : i \in DOMAIN auths ~> Ended(i)
BlockedForGood == \A i \in DOMAIN auths : Blocked(i) => Blocked(i)'
=============================================================================
