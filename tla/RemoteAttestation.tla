-------------------------- MODULE RemoteAttestation --------------------------
(***************************************************************************)
(* The remote TPM and IMA attestation of internal/kernelfabric: a verifier *)
(* issues a challenge, the host collects evidence for it while its kernel  *)
(* keeps measuring files, and aegis-attest-verify processes spend the      *)
(* challenge and sign a decision.                                          *)
(*                                                                         *)
(* A hash is its preimage: a PCR bank is [platform, ima], where ima is the *)
(* sequence of template digests extended into PCR 10 and platform stands   *)
(* for the firmware measurements of PCRs 0 to 7; a quote nonce is the      *)
(* tuple it is derived from.  The challenge consumption directory keeps    *)
(* the names that exist (claimed) and those that a host crash keeps        *)
(* (durable); the directory itself is taken to be older than the crash,    *)
(* since the code does not sync its parent.                                *)
(***************************************************************************)
EXTENDS Naturals, Sequences, FiniteSets

CONSTANTS
    Collectors,          \* aegis-attest-collect invocations
    Verifiers,           \* aegis-attest-verify invocations
    MaxChallenges,       \* challenges issued
    MaxClock,            \* clock readings
    TTL,                 \* DefaultRemoteChallengeTTL, in clock readings
    MaxLog,              \* IMA records of one boot
    MaxFaults,           \* reboots, host crashes, killed processes, lost AKs
    MaxEvidence,         \* evidence files kept
    Platforms,           \* firmware configurations the host may boot
    LockdownModes,       \* modes a bootstrap receipt may report
    Policies             \* verifier flags: [ima, measured, events, modes]

VARIABLES
    clock,
    challenges,    \* Seq of [issued, expires]: NewRemoteAttestationChallenge
    device,        \* [platform, log, ak, receipt]: the running host
    evidence,      \* emitted evidence files
    collector,     \* collector -> its call
    claimed,       \* challenges with a file in the consumption directory
    durable,       \* challenges whose directory entry has been synced
    verifier,      \* verifier -> its call
    decisions,     \* challenge -> decisions signed and written for it
    faults

vars == <<clock, challenges, device, evidence, collector, claimed, durable,
          verifier, decisions, faults>>

Artifact == "bpf"
NoReceipt == [mode |-> "none", enrolled |-> FALSE, made |-> FALSE]
DefaultTPMCollectAttempts == 3

IdleCollector ==
    [pc |-> "idle", challenge |-> 0, receipt |-> NoReceipt, attempt |-> 0,
     ima |-> <<>>, platform |-> "none", pcrs |-> <<>>, changed |-> FALSE]

IdleVerifier == [pc |-> "idle", challenge |-> 0, evidence |-> {}]

Challenge == 1..Len(challenges)

-----------------------------------------------------------------------------
(* Challenges and their validity *)

\* validateRemoteChallenge: complete, issued before it expires and, when the
\* caller gives a time, not yet expired.
validateRemoteChallenge(c, now) ==
    /\ challenges[c].issued < challenges[c].expires
    /\ now < challenges[c].expires

\* NewRemoteAttestationChallenge: a fresh identifier and nonce, every PCR.
NewRemoteAttestationChallenge(now) == [issued |-> now, expires |-> now + TTL]

\* The aegis-attest-challenge command.
IssueChallenge ==
    /\ Len(challenges) < MaxChallenges
    /\ challenges' = Append(challenges, NewRemoteAttestationChallenge(clock))
    /\ UNCHANGED <<clock, device, evidence, collector, claimed, durable,
                   verifier, decisions, faults>>

-----------------------------------------------------------------------------
(* The measured state and the quote *)

\* canonicalRemoteChallengePayload: the challenge, its identifier and nonce.
canonicalRemoteChallengePayload(c) == <<"challenge", c>>

\* SignedBootstrapReceiptDigest.
SignedBootstrapReceiptDigest(receipt) == <<"receipt", receipt>>

\* RemoteQuoteNonce binds the challenge, the receipt and both logs.
RemoteQuoteNonce(c, receipt, ima, platform) ==
    <<canonicalRemoteChallengePayload(c),
      SignedBootstrapReceiptDigest(receipt), ima, platform>>

\* ReplayIMASHA256PCR10: the PCR value the log leads to; "error" for a log
\* without a PCR 10 record.
ReplayIMASHA256PCR10(ima) ==
    IF ima = <<>> THEN <<"error">> ELSE ima

\* IMAMeasurementContainsDigest.
IMAMeasurementContainsDigest(ima, digest) ==
    \E i \in DOMAIN ima : ima[i] = digest

\* The PCR bank of the running host: the kernel extends PCR 10 with every
\* record it appends to the IMA log.
PCRs == [platform |-> device.platform, ima |-> device.log]

\* findPCRDigest of PCR 10.
findPCRDigest(pcrs) == pcrs.ima

\* ak.QuotePCRs: a statement signed by the loaded AK over the nonce and the
\* PCRs of this instant; at and ima record, for the properties only, the
\* instant and the log of the kernel at it.
QuotePCRs(nonce) ==
    [nonce |-> nonce, pcrs |-> PCRs, ak |-> device.ak,
     at |-> clock, ima |-> device.log]

\* akPublic.Verify and VerifyAll: the key, the nonce and the PCR values all
\* match.
VerifyQuote(quote, ak, pcrs, nonce) ==
    quote.ak = ak /\ quote.nonce = nonce /\ quote.pcrs = pcrs

\* The AK of the enrolled identity the verifier holds.
EnrolledAK == 1

-----------------------------------------------------------------------------
(* The host *)

\* The bootstrap loader reads the artifact (the kernel measures the file when
\* its IMA policy covers it) and writes a receipt signed by the attestor key
\* of the installation, enrolled or not.
Bootstrap ==
    \E mode \in LockdownModes, enrolled \in BOOLEAN, measured \in BOOLEAN :
        /\ measured => Len(device.log) < MaxLog
        /\ device' =
             [device EXCEPT
                !.receipt = [mode |-> mode, enrolled |-> enrolled, made |-> TRUE],
                !.log = IF measured THEN Append(@, Artifact) ELSE @]
        /\ UNCHANGED <<clock, challenges, evidence, collector, claimed, durable,
                       verifier, decisions, faults>>

\* The kernel measures another file.
Measure ==
    /\ Len(device.log) < MaxLog
    /\ device' = [device EXCEPT !.log = Append(@, "file")]
    /\ UNCHANGED <<clock, challenges, evidence, collector, claimed, durable,
                   verifier, decisions, faults>>

\* The host reboots: PCRs and IMA log start again, running collectors are
\* gone, the receipt file of the earlier boot is still on disk.
Reboot ==
    /\ faults < MaxFaults
    /\ \E p \in Platforms :
          device' = [device EXCEPT !.platform = p, !.log = <<"boot">>]
    /\ collector' = [x \in Collectors |-> IdleCollector]
    /\ faults' = faults + 1
    /\ UNCHANGED <<clock, challenges, evidence, claimed, durable, verifier,
                   decisions>>

\* The AK blob is lost and loadOrCreateAK makes another key, which is not the
\* one the verifier enrolled.
loadOrCreateAK ==
    /\ faults < MaxFaults
    /\ device.ak = EnrolledAK
    /\ device' = [device EXCEPT !.ak = EnrolledAK + 1]
    /\ faults' = faults + 1
    /\ UNCHANGED <<clock, challenges, evidence, collector, claimed, durable,
                   verifier, decisions>>

-----------------------------------------------------------------------------
(* aegis-attest-collect *)

CollectorStep(x, call) ==
    /\ collector' = [collector EXCEPT ![x] = call]
    /\ UNCHANGED <<clock, challenges, device, claimed, durable, verifier,
                   decisions, faults>>

\* The command reads challenge and receipt; the challenge must be valid.
CollectBegin(x) ==
    /\ collector[x].pc = "idle"
    /\ device.receipt.made
    /\ Cardinality(evidence) < MaxEvidence
    /\ \E c \in Challenge :
          /\ validateRemoteChallenge(c, clock)
          /\ CollectorStep(x, [IdleCollector EXCEPT
                 !.pc = "log", !.challenge = c, !.receipt = device.receipt,
                 !.attempt = 1])
    /\ UNCHANGED evidence

\* One attempt reads the IMA log and the platform event log,
CollectLog(x) ==
    /\ collector[x].pc = "log"
    /\ CollectorStep(x, [collector[x] EXCEPT
           !.pc = "pcrs", !.ima = device.log, !.platform = device.platform])
    /\ UNCHANGED evidence

\* ... then the PCR bank, and selects the requested registers,
selectChallengePCRs(x) ==
    /\ collector[x].pc = "pcrs"
    /\ CollectorStep(x, [collector[x] EXCEPT !.pc = "compare", !.pcrs = PCRs])
    /\ UNCHANGED evidence

\* ... compares PCR 10 with the replay of the log it read; a difference is
\* another attempt, or an error at the last one,
CollectCompare(x) ==
    LET call == collector[x]
        same == findPCRDigest(call.pcrs) = ReplayIMASHA256PCR10(call.ima)
    IN  /\ call.pc = "compare"
        /\ CollectorStep(x,
             CASE same -> [call EXCEPT !.pc = "quote"]
               [] ~same /\ call.attempt < DefaultTPMCollectAttempts ->
                    [call EXCEPT !.pc = "log", !.attempt = @ + 1]
               [] OTHER -> [call EXCEPT !.pc = "failed", !.changed = TRUE])
        /\ UNCHANGED evidence

\* The collector's own verification of the quote, against the PCR values it
\* read before asking for it.
LocalQuoteVerifies(call, quote, nonce) ==
    VerifyQuote(quote, device.ak, call.pcrs, nonce)

\* ... and quotes the PCRs.  The local verification compares the quote with
\* the PCR values read before: registers extended in between are an error.
CollectQuote(x) ==
    LET call  == collector[x]
        nonce == RemoteQuoteNonce(call.challenge, call.receipt, call.ima,
                                  call.platform)
        quote == QuotePCRs(nonce)
    IN  /\ call.pc = "quote"
        /\ \/ /\ LocalQuoteVerifies(call, quote, nonce)
              /\ evidence' = evidence \union
                   {[challenge |-> call.challenge, receipt |-> call.receipt,
                     quote |-> quote, pcrs |-> call.pcrs,
                     platform |-> call.platform, ima |-> call.ima]}
              /\ CollectorStep(x, IdleCollector)
           \/ /\ ~LocalQuoteVerifies(call, quote, nonce)
              /\ CollectorStep(x, [call EXCEPT !.pc = "failed", !.changed = TRUE])
              /\ UNCHANGED evidence

\* The command has reported its error and is run again.
CollectReported(x) ==
    /\ collector[x].pc = "failed"
    /\ CollectorStep(x, IdleCollector)
    /\ UNCHANGED evidence

-----------------------------------------------------------------------------
(* aegis-attest-verify *)

VerifierStep(v, call) ==
    /\ verifier' = [verifier EXCEPT ![v] = call]
    /\ UNCHANGED <<clock, challenges, device, evidence, collector, faults>>

\* The command has read challenge and evidence.
\* ConsumeRemoteAttestationChallenge, first half: the challenge must be valid
\* and the exclusive create decides who may go on.
ConsumeClaim(v, c) ==
    /\ verifier[v].pc = "idle"
    /\ validateRemoteChallenge(c, clock)
    /\ c \notin claimed
    /\ claimed' = claimed \union {c}
    /\ \E ev \in evidence :
          VerifierStep(v, [pc |-> "sync", challenge |-> c, evidence |-> {ev}])
    /\ UNCHANGED <<durable, decisions>>

\* Mutant: the directory is not synced.
ConsumeUnsynced(v) ==
    /\ verifier[v].pc = "sync"
    /\ VerifierStep(v, [verifier[v] EXCEPT !.pc = "verify"])
    /\ UNCHANGED <<claimed, durable, decisions>>

\* Second half: the record is written and file and directory are synced; an
\* error on the way ends the command with the file left in place.
ConsumeSync(v) ==
    /\ verifier[v].pc = "sync"
    /\ \/ /\ durable' = durable \union {verifier[v].challenge}
          /\ VerifierStep(v, [verifier[v] EXCEPT !.pc = "verify"])
       \/ /\ UNCHANGED durable
          /\ VerifierStep(v, IdleVerifier)
    /\ UNCHANGED <<claimed, decisions>>

\* VerifySignedBootstrapReceipt under the enrolled attestor key.
VerifySignedBootstrapReceipt(receipt) == receipt.enrolled

\* wirePCRsToAttest: exactly the requested registers, each once.
wirePCRsToAttest(pcrs) == DOMAIN pcrs = {"platform", "ima"}

\* eventLog.Verify: the platform event log replays to the quoted registers.
VerifyEventLog(platform, pcrs) == platform = pcrs.platform

\* The evidence must answer this challenge, and the challenge must still be
\* valid by the verification's own clock: anything else is an error.
Answers(c, ev, now) ==
    /\ validateRemoteChallenge(c, now)
    /\ ev.challenge = c
    /\ wirePCRsToAttest(ev.pcrs)

\* The checks of VerifyRemoteAttestation that end in a signed BLOCK.
Acceptable(c, ev, policy) ==
    /\ VerifySignedBootstrapReceipt(ev.receipt)
    /\ policy.modes # {} => ev.receipt.mode \in policy.modes
    /\ VerifyQuote(ev.quote, EnrolledAK, ev.pcrs,
                   RemoteQuoteNonce(c, ev.receipt, ev.ima, ev.platform))
    /\ policy.events => VerifyEventLog(ev.platform, ev.pcrs)
    /\ policy.measured => IMAMeasurementContainsDigest(ev.ima, Artifact)
    /\ policy.ima => ReplayIMASHA256PCR10(ev.ima) = findPCRDigest(ev.pcrs)

\* baseRemoteDecision and blockRemoteDecision, signed by signRemoteDecision.
signRemoteDecision(verdict, ev, policy) ==
    [verdict |-> verdict, evidence |-> ev, policy |-> policy, at |-> clock]

\* VerifyRemoteAttestation, and the decision file is written.  An error leaves
\* the challenge spent with no decision.
VerifyRemoteAttestation(v) ==
    LET c == verifier[v].challenge IN
    /\ verifier[v].pc = "verify"
    /\ \E ev \in verifier[v].evidence, policy \in Policies :
          \/ /\ Answers(c, ev, clock)
             /\ decisions' = [decisions EXCEPT ![c] = Append(@,
                    signRemoteDecision(
                        IF Acceptable(c, ev, policy) THEN "ALLOW" ELSE "BLOCK",
                        ev, policy))]
          \/ ~Answers(c, ev, clock) /\ UNCHANGED decisions
    /\ VerifierStep(v, IdleVerifier)
    /\ UNCHANGED <<claimed, durable>>

\* aegis-attest-verify: the challenge is spent before the evidence is looked at.
AttestVerify(v) ==
    \/ \E c \in Challenge : ConsumeClaim(v, c)
    \/ ConsumeSync(v)
    \/ VerifyRemoteAttestation(v)

\* A verifying process is killed.
KillVerifier(v) ==
    /\ faults < MaxFaults
    /\ verifier[v].pc # "idle"
    /\ verifier' = [verifier EXCEPT ![v] = IdleVerifier]
    /\ faults' = faults + 1
    /\ UNCHANGED <<clock, challenges, device, evidence, collector, claimed,
                   durable, decisions>>

\* The verifier's host crashes: directory entries that were not synced are
\* lost with the processes.
VerifierHostCrash ==
    /\ faults < MaxFaults
    /\ claimed' = durable
    /\ verifier' = [v \in Verifiers |-> IdleVerifier]
    /\ faults' = faults + 1
    /\ UNCHANGED <<clock, challenges, device, evidence, collector, durable,
                   decisions>>

Tick ==
    /\ clock < MaxClock
    /\ clock' = clock + 1
    /\ UNCHANGED <<challenges, device, evidence, collector, claimed, durable,
                   verifier, decisions, faults>>

-----------------------------------------------------------------------------

Init ==
    /\ clock = 0
    /\ challenges = <<>>
    /\ \E p \in Platforms :
          device = [platform |-> p, log |-> <<"boot">>, ak |-> EnrolledAK,
                    receipt |-> NoReceipt]
    /\ evidence = {}
    /\ collector = [x \in Collectors |-> IdleCollector]
    /\ claimed = {}
    /\ durable = {}
    /\ verifier = [v \in Verifiers |-> IdleVerifier]
    /\ decisions = [c \in 1..MaxChallenges |-> <<>>]
    /\ faults = 0

Next ==
    \/ IssueChallenge
    \/ Bootstrap
    \/ Measure
    \/ Reboot
    \/ loadOrCreateAK
    \/ \E x \in Collectors : CollectBegin(x) \/ CollectLog(x)
                             \/ selectChallengePCRs(x) \/ CollectCompare(x)
                             \/ CollectQuote(x) \/ CollectReported(x)
    \/ \E v \in Verifiers : AttestVerify(v) \/ KillVerifier(v)
    \/ VerifierHostCrash
    \/ Tick

Spec == Init /\ [][Next]_vars

-----------------------------------------------------------------------------

\* Every variable keeps its shape, and only names that exist are durable.
TypeOK ==
    /\ clock \in 0..MaxClock
    /\ Len(challenges) <= MaxChallenges
    /\ device.ak \in {EnrolledAK, EnrolledAK + 1}
    /\ Len(device.log) \in 1..MaxLog
    /\ \A x \in Collectors :
          /\ collector[x].pc \in
               {"idle", "log", "pcrs", "compare", "quote", "failed"}
          /\ collector[x].attempt \in 0..DefaultTPMCollectAttempts
    /\ \A v \in Verifiers :
          /\ verifier[v].pc \in {"idle", "sync", "verify"}
          /\ verifier[v].evidence \subseteq evidence
    /\ durable \subseteq claimed
    /\ claimed \subseteq Challenge
    /\ faults \in 0..MaxFaults

\* No evidence mixes two instants of the host: the IMA log it carries is the
\* log the kernel had when the TPM made the quote, although log, registers and
\* quote are read one after the other while the kernel keeps measuring and the
\* host may reboot (CollectRemoteAttestationEvidence).
NoMixedSnapshot ==
    \A ev \in evidence : ev.ima = ev.quote.ima

\* A challenge yields at most one signed decision, whatever verifier processes
\* race for it, are killed, or lose their host between the exclusive create
\* and the directory sync (ConsumeRemoteAttestationChallenge).
DecidedOnce ==
    \A c \in DOMAIN decisions : Len(decisions[c]) <= 1

\* An ALLOW speaks of the enrolled TPM inside the challenge's own window: the
\* quote was made after the challenge was issued and the decision before it
\* expired, and, under a policy that asks for it, the governed artifact was in
\* the kernel's log when the quote was made (VerifyRemoteAttestation).
AllowIsFresh ==
    \A c \in Challenge : \A i \in DOMAIN decisions[c] :
        LET d == decisions[c][i] IN
        d.verdict = "ALLOW" =>
            /\ d.evidence.quote.ak = EnrolledAK
            /\ challenges[c].issued <= d.evidence.quote.at
            /\ d.evidence.quote.at <= d.at
            /\ d.at < challenges[c].expires
            /\ d.policy.measured =>
                  \E i2 \in DOMAIN d.evidence.quote.ima :
                      d.evidence.quote.ima[i2] = Artifact

\* What docs/remote-tpm-ima-attestation.md says of the collector: when the IMA
\* log changes during the collection it retries.  A collection that gives up
\* because the measurements changed has used its last attempt.
ChangedIsRetried ==
    \A x \in Collectors :
        collector[x].changed =>
            collector[x].attempt = DefaultTPMCollectAttempts

=============================================================================
