--------------------------- MODULE DeviceEnrollment ---------------------------
(***************************************************************************)
(* The durable TPM enrollment of one logical device: the activation        *)
(* ceremony (BeginTPMEnrollment, ActivateTPMEnrollmentChallenge,           *)
(* CompleteTPMEnrollment), the receipt store anchored in a durable head    *)
(* (AnchoredEnrollmentIdentityStore), the initial completion and the       *)
(* governed successor after the history was transferred to other hardware. *)
(*                                                                         *)
(* A receipt is the chain of entries its digest covers, so its sequence    *)
(* number is the chain's length and its predecessor digest is the chain    *)
(* without the last entry; <<>> stands for a file or head that does not    *)
(* exist.  The durable head anchor and the transfer of its ownership are   *)
(* modelled in TPMHistoryAnchor and HistoryTransfer: here the anchor is    *)
(* one register that only the active hardware's anchor reads and advances. *)
(* The store takes no lock: its calls interleave at every file and anchor  *)
(* access.                                                                 *)
(***************************************************************************)
EXTENDS Naturals, Sequences, SequencesExt, FiniteSets

CONSTANTS
    Hardware,          \* endorsement keys
    AllowedEKSPKI,     \* the verifier's inventory
    Enrollers,         \* callers that complete enrollments
    Readers,           \* callers that only read the current receipt
    MaxCeremonies, MaxClock, TTL,
    MaxTransfers,      \* continuity transfers
    MaxFaults,         \* crashes, lost answers, copies and restores
    MayRestore         \* the volume may be copied and restored

VARIABLES
    clock,
    ceremonies,   \* Seq of [ek, issued, expires]: PendingTPMEnrollment
    proofs,       \* set of [id, ek, at]: TPMEnrollmentProof
    current,      \* the receipt file
    pending,      \* the .pending file
    copy,         \* a copy of the volume: <<current, pending>>
    anchor,       \* the durable head
    owner,        \* [hw, transfer]: the active hardware and how it became so
    transfers,    \* completed transfers [from, to, head]
    auths,        \* signed successor authorizations
    call,         \* caller -> its call
    told,         \* heads that callers were given as the enrolled identity
    faults

vars == <<clock, ceremonies, proofs, current, pending, copy, anchor, owner,
          transfers, auths, call, told, faults>>

world == <<clock, ceremonies, proofs, copy, owner, transfers, auths, faults>>

Callers == Enrollers \union Readers
Ceremony == 1..Len(ceremonies)

NoTransfer == [from |-> "none", to |-> "none", head |-> <<>>]
NoAuth == [pred |-> <<>>, id |-> 0, hw |-> "none", transfer |-> NoTransfer]

Idle == [pc |-> "idle", ret |-> "idle", hw |-> "none", entry |-> <<>>,
         auth |-> NoAuth, inherited |-> <<>>, read |-> <<<<>>, <<>>>>,
         now |-> <<>>, base |-> <<>>]

-----------------------------------------------------------------------------
(* The ceremony *)

\* verifyEKTrust: the endorsement key is in the inventory.
verifyEKTrust(ek) == ek \in AllowedEKSPKI

\* BeginTPMEnrollment for the request ProvisionTPMEnrollmentRequest made on
\* this hardware: a fresh enrollment id and a challenge for its EK and AK.
BeginTPMEnrollment(ek) ==
    /\ Len(ceremonies) < MaxCeremonies
    /\ verifyEKTrust(ek)
    /\ ceremonies' = Append(ceremonies,
           [ek |-> ek, issued |-> clock, expires |-> clock + TTL])
    /\ UNCHANGED <<clock, proofs, current, pending, copy, anchor, owner,
                   transfers, auths, call, told, faults>>

\* ValidateTPMEnrollmentChallengeForRequest: the host's own request, in time.
ValidateTPMEnrollmentChallengeForRequest(ek, id) ==
    ceremonies[id].ek = ek /\ clock < ceremonies[id].expires

\* ActivateTPMEnrollmentChallenge: only the TPM with that EK can answer; the
\* answer carries the host's time and may be made again.
ActivateTPMEnrollmentChallenge(ek, id) ==
    /\ ValidateTPMEnrollmentChallengeForRequest(ek, id)
    /\ proofs' = proofs \union {[id |-> id, ek |-> ek, at |-> clock]}
    /\ proofs' # proofs
    /\ UNCHANGED <<clock, ceremonies, current, pending, copy, anchor, owner,
                   transfers, auths, call, told, faults>>

\* CompleteTPMEnrollment, with the check of the completion time that both
\* callers make: the proof answers this ceremony and it has not expired.
CompleteTPMEnrollment(id, proof) ==
    /\ proof.id = id
    /\ proof.ek = ceremonies[id].ek
    /\ clock < ceremonies[id].expires
    /\ ceremonies[id].issued <= proof.at
    /\ proof.at < ceremonies[id].expires
    /\ proof.at <= clock

-----------------------------------------------------------------------------
(* Receipts and successor authorizations *)

\* newEnrollmentIdentityReceipt: the entry of an identity enrolled at the time
\* of its proof, with the authorization of a governed successor.
newEnrollmentIdentityReceipt(proof, auth) ==
    [id |-> proof.id, ek |-> proof.ek, at |-> proof.at, auth |-> auth]

\* VerifyEnrollmentIdentityReceiptForIdentity: the receipt's last entry is
\* this identity.
VerifyEnrollmentIdentityReceiptForIdentity(receipt, entry) ==
    /\ Last(receipt).ek = entry.ek
    /\ Last(receipt).at = entry.at

\* ValidateEnrollmentIdentityReceipt: version 2, with an authorization, from
\* sequence 2 on.
ValidateEnrollmentIdentityReceipt(receipt) ==
    /\ receipt # <<>>
    /\ Last(receipt).auth # NoAuth => Len(receipt) >= 2

\* ValidateEnrollmentIdentitySuccessorAuthorization.
ValidateEnrollmentIdentitySuccessorAuthorization(auth) ==
    /\ auth.pred # <<>>
    /\ Last(auth.pred).ek # auth.hw
    /\ auth.transfer.from # auth.transfer.to

\* The successor-governance authority signs an authorization for a ceremony
\* and a continuity transfer from the head it has seen.
SignSuccessorAuthorization(id, t) ==
    LET auth == [pred |-> t.head, id |-> id, hw |-> ceremonies[id].ek,
                 transfer |-> t]
    IN  /\ auth \notin auths
        /\ ValidateEnrollmentIdentitySuccessorAuthorization(auth)
        /\ auths' = auths \union {auth}
        /\ UNCHANGED <<clock, ceremonies, proofs, current, pending, copy,
                       anchor, owner, transfers, call, told, faults>>

\* A continuity transfer carries the exact head to other hardware, which
\* becomes the active one.
TransferHistory(to) ==
    /\ Cardinality(transfers) < MaxTransfers
    /\ anchor # <<>>
    /\ to # owner.hw
    /\ LET t == [from |-> owner.hw, to |-> to, head |-> anchor] IN
          /\ owner' = [hw |-> to, transfer |-> t]
          /\ transfers' = transfers \union {t}
    /\ UNCHANGED <<clock, ceremonies, proofs, current, pending, copy, anchor,
                   auths, call, told, faults>>

-----------------------------------------------------------------------------
(* AnchoredEnrollmentIdentityStore.Current, called from several places: the  *)
(* two files are read, then the anchor, and the outcome is acted upon.       *)

\* isEnrollmentReceiptSuccessor.
isEnrollmentReceiptSuccessor(receipt, next) ==
    next # <<>> /\ Front(next) = receipt

\* The outcome for the files as they were read and the anchor.
Outcome(cur, pen, head) ==
    CASE cur = <<>> /\ pen = <<>> -> IF head = <<>> THEN "none" ELSE "rollback"
      [] cur = <<>> /\ pen # <<>> ->
            IF Len(pen) # 1 THEN "rollback"
            ELSE IF head = <<>> THEN "discard"
            ELSE IF head = pen THEN "promote" ELSE "rollback"
      [] cur # <<>> /\ cur = head ->
            IF pen = <<>> THEN "current"
            ELSE IF isEnrollmentReceiptSuccessor(cur, pen) THEN "discard"
            ELSE "rollback"
      [] OTHER ->
            IF isEnrollmentReceiptSuccessor(cur, pen) /\ head = pen
            THEN "promote" ELSE "rollback"

\* The caller reads both files.
ReadFiles(x) ==
    /\ call[x].pc = "files"
    /\ call' = [call EXCEPT ![x].pc = "resolve",
                            ![x].read = <<current, pending>>]
    /\ UNCHANGED <<world, current, pending, anchor, told>>

\* promotePending renames whatever .pending file there is.
promotePending ==
    pending # <<>> /\ current' = pending /\ pending' = <<>>

\* removePending.
removePending == pending' = <<>> /\ UNCHANGED current

\* A call ends, with the head it answers or with an error.
Answer(x, head) ==
    call' = [call EXCEPT ![x] = Idle] /\ told' = told \union {head}

Fail(x) == call' = [call EXCEPT ![x] = Idle] /\ UNCHANGED told

\* Current returns to its caller; a reader's call ends.
Return(x, head) ==
    IF call[x].ret = "reader" /\ head # <<>> THEN Answer(x, head)
    ELSE IF call[x].ret = "reader" THEN Fail(x)
    ELSE /\ call' = [call EXCEPT ![x].pc = call[x].ret, ![x].now = head]
         /\ UNCHANGED told

\* The anchor is read, through the hardware the store is bound to, and the
\* outcome is acted upon.
Resolve(x) ==
    LET cur == call[x].read[1]
        pen == call[x].read[2]
        out == Outcome(cur, pen, anchor)
    IN  /\ call[x].pc = "resolve"
        /\ \/ /\ owner.hw # call[x].hw \/ out = "rollback"
              /\ Fail(x)
              /\ UNCHANGED <<current, pending>>
           \/ /\ owner.hw = call[x].hw
              /\ out \in {"none", "current"}
              /\ Return(x, cur)
              /\ UNCHANGED <<current, pending>>
           \/ /\ owner.hw = call[x].hw
              /\ out = "discard"
              /\ removePending
              /\ Return(x, cur)
           \/ /\ owner.hw = call[x].hw
              /\ out = "promote"
              /\ \/ promotePending /\ Return(x, pen)
                 \/ pending = <<>> /\ Fail(x) /\ UNCHANGED <<current, pending>>
        /\ UNCHANGED <<world, anchor>>

\* A reader asks for the enrolled identity.
BeginRead(x, hw) ==
    /\ call[x].pc = "idle"
    /\ call' = [call EXCEPT ![x] =
                  [Idle EXCEPT !.pc = "files", !.ret = "reader", !.hw = hw]]
    /\ UNCHANGED <<world, current, pending, anchor, told>>

-----------------------------------------------------------------------------
(* CompleteAndCommitTPMEnrollmentReceipt *)

BeginInitial(x, id, proof) ==
    /\ call[x].pc = "idle"
    /\ CompleteTPMEnrollment(id, proof)
    /\ call' = [call EXCEPT ![x] =
                  [Idle EXCEPT !.pc = "files", !.ret = "initial",
                     !.hw = owner.hw,
                     !.entry = newEnrollmentIdentityReceipt(proof, NoAuth)]]
    /\ UNCHANGED <<world, current, pending, anchor, told>>

\* An existing receipt answers a repetition of its own ceremony and refuses
\* any other; otherwise the first receipt is appended (Append).
CommitInitial(x) ==
    LET c == call[x] IN
    /\ c.pc = "initial"
    /\ \/ /\ c.now # <<>>
          /\ IF /\ Last(c.now).id = c.entry.id
                /\ VerifyEnrollmentIdentityReceiptForIdentity(c.now, c.entry)
             THEN Answer(x, c.now) ELSE Fail(x)
       \/ /\ c.now = <<>>
          /\ call' = [call EXCEPT ![x].pc = "files", ![x].ret = "append"]
          /\ UNCHANGED told
    /\ UNCHANGED <<world, current, pending, anchor>>

-----------------------------------------------------------------------------
(* CompleteAndCommitGovernedTPMEnrollmentSuccessor *)

\* The authorization, the ceremony, the completed transfer that made this
\* hardware the active one and the destination's own lineage all agree.
SuccessorAgrees(id, proof, auth) ==
    /\ auth.id = id
    /\ auth.hw = ceremonies[id].ek
    /\ auth.transfer.to = auth.hw
    /\ auth.transfer.head = auth.pred
    /\ owner = [hw |-> auth.hw, transfer |-> auth.transfer]
    /\ CompleteTPMEnrollment(id, proof)

BeginSuccessor(x, id, proof, auth) ==
    /\ call[x].pc = "idle"
    /\ SuccessorAgrees(id, proof, auth)
    /\ call' = [call EXCEPT ![x] =
                  [Idle EXCEPT !.pc = "files", !.ret = "successor",
                     !.hw = auth.hw, !.auth = auth, !.inherited = anchor,
                     !.entry = newEnrollmentIdentityReceipt(proof, auth)]]
    /\ UNCHANGED <<world, current, pending, anchor, told>>

\* The receipt R(n+1) of this authorization is already the current one.
AlreadyCommitted(c) ==
    /\ Len(c.now) = Len(c.auth.pred) + 1
    /\ Front(c.now) = c.auth.pred
    /\ Last(c.now).auth = c.auth
    /\ Last(c.now).id = c.auth.id

\* The current receipt is the exact authorized predecessor.
ExactPredecessor(receipt, auth) == receipt = auth.pred

\* A repetition answers; otherwise the receipt must be the exact predecessor
\* and the destination must have inherited its head, and the successor goes to
\* AppendGovernedSuccessor.
CommitSuccessor(x) ==
    LET c == call[x] IN
    /\ c.pc = "successor"
    /\ \/ /\ c.now = <<>>
          /\ Fail(x)
       \/ /\ c.now # <<>>
          /\ AlreadyCommitted(c)
          /\ IF /\ VerifyEnrollmentIdentityReceiptForIdentity(c.now, c.entry)
                /\ c.inherited = c.now
             THEN Answer(x, c.now) ELSE Fail(x)
       \/ /\ c.now # <<>>
          /\ ~AlreadyCommitted(c)
          /\ IF ExactPredecessor(c.now, c.auth) /\ c.inherited = c.auth.pred
             THEN /\ call' = [call EXCEPT ![x].pc = "files",
                                          ![x].ret = "governed"]
                  /\ UNCHANGED told
             ELSE Fail(x)
    /\ UNCHANGED <<world, current, pending, anchor>>

\* AppendGovernedSuccessor reads the current receipt again before it appends.
AppendGovernedSuccessor(x) ==
    LET c == call[x] IN
    /\ c.pc = "governed"
    /\ IF c.now # <<>> /\ ExactPredecessor(c.now, c.auth)
       THEN /\ call' = [call EXCEPT ![x].pc = "files", ![x].ret = "append"]
            /\ UNCHANGED told
       ELSE Fail(x)
    /\ UNCHANGED <<world, current, pending, anchor>>

-----------------------------------------------------------------------------
(* appendVerified *)

\* The receipt this call appends.
Receipt(c) == Append(c.auth.pred, c.entry)

\* appendVerified after its own reading of Current: the anchor is read again,
\* and the receipt must be the exact successor of both.
appendVerified(x) ==
    LET c == call[x] IN
    /\ c.pc = "append"
    /\ IF owner.hw # c.hw \/ ~ValidateEnrollmentIdentityReceipt(Receipt(c))
       THEN Fail(x)
       ELSE IF c.now # <<>> /\ c.now = Receipt(c) THEN Answer(x, c.now)
       ELSE IF /\ isEnrollmentReceiptSuccessor(c.now, Receipt(c))
               /\ Len(Receipt(c)) = Len(anchor) + 1
       THEN /\ call' = [call EXCEPT ![x].pc = "write", ![x].base = anchor]
            /\ UNCHANGED told
       ELSE Fail(x)
    /\ UNCHANGED <<world, current, pending, anchor>>

\* Mutant: the anchor is advanced before the receipt is on disk.
writeNothing(x) ==
    /\ call[x].pc = "write"
    /\ call' = [call EXCEPT ![x].pc = "advance"]
    /\ UNCHANGED <<world, current, pending, anchor, told>>

\* writePending: temporary file, sync, rename, sync.
writePending(x) ==
    /\ call[x].pc = "write"
    /\ pending' = Receipt(call[x])
    /\ call' = [call EXCEPT ![x].pc = "advance"]
    /\ UNCHANGED <<world, current, anchor, told>>

\* Anchor.CompareAndAdvance, whose answer may be lost although it advanced.
AdvanceAnchor(x) ==
    LET c == call[x] IN
    /\ c.pc = "advance"
    /\ \/ /\ owner.hw # c.hw \/ anchor # c.base
          /\ Fail(x)
          /\ UNCHANGED <<world, anchor>>
       \/ /\ owner.hw = c.hw
          /\ anchor = c.base
          /\ anchor' = Receipt(c)
          /\ \/ /\ call' = [call EXCEPT ![x].pc = "promote"]
                /\ UNCHANGED <<world, told>>
             \/ /\ faults < MaxFaults
                /\ Fail(x)
                /\ faults' = faults + 1
                /\ UNCHANGED <<clock, ceremonies, proofs, copy, owner,
                               transfers, auths>>
    /\ UNCHANGED <<current, pending>>

\* The .pending file is promoted and the receipt answered.
Promote(x) ==
    /\ call[x].pc = "promote"
    /\ \/ promotePending /\ Answer(x, Receipt(call[x]))
       \/ pending = <<>> /\ Fail(x) /\ UNCHANGED <<current, pending>>
    /\ UNCHANGED <<world, anchor>>

-----------------------------------------------------------------------------

\* A caller's process stops; what it wrote is on disk.
Crash(x) ==
    /\ faults < MaxFaults
    /\ call[x].pc # "idle"
    /\ call' = [call EXCEPT ![x] = Idle]
    /\ faults' = faults + 1
    /\ UNCHANGED <<clock, ceremonies, proofs, current, pending, copy, anchor,
                   owner, transfers, auths, told>>

\* The writable volume is copied, and later restored.
CopyVolume ==
    /\ MayRestore
    /\ faults < MaxFaults
    /\ copy' = <<current, pending>>
    /\ faults' = faults + 1
    /\ UNCHANGED <<clock, ceremonies, proofs, current, pending, anchor, owner,
                   transfers, auths, call, told>>

RestoreVolume ==
    /\ MayRestore
    /\ faults < MaxFaults
    /\ current' = copy[1]
    /\ pending' = copy[2]
    /\ faults' = faults + 1
    /\ UNCHANGED <<clock, ceremonies, proofs, copy, anchor, owner, transfers,
                   auths, call, told>>

Tick ==
    /\ clock < MaxClock
    /\ clock' = clock + 1
    /\ UNCHANGED <<ceremonies, proofs, current, pending, copy, anchor, owner,
                   transfers, auths, call, told, faults>>

Init ==
    /\ clock = 0
    /\ ceremonies = <<>>
    /\ proofs = {}
    /\ current = <<>>
    /\ pending = <<>>
    /\ copy = <<<<>>, <<>>>>
    /\ anchor = <<>>
    /\ \E hw \in AllowedEKSPKI : owner = [hw |-> hw, transfer |-> NoTransfer]
    /\ transfers = {}
    /\ auths = {}
    /\ call = [x \in Callers |-> Idle]
    /\ told = {}
    /\ faults = 0

Step(x) ==
    \/ ReadFiles(x) \/ Resolve(x)
    \/ CommitInitial(x) \/ CommitSuccessor(x) \/ AppendGovernedSuccessor(x)
    \/ appendVerified(x) \/ writePending(x) \/ AdvanceAnchor(x) \/ Promote(x)

Next ==
    \/ \E ek \in Hardware : BeginTPMEnrollment(ek)
    \/ \E ek \in Hardware, id \in Ceremony : ActivateTPMEnrollmentChallenge(ek, id)
    \/ \E id \in Ceremony, t \in transfers : SignSuccessorAuthorization(id, t)
    \/ \E to \in Hardware : TransferHistory(to)
    \/ \E x \in Readers, hw \in Hardware : BeginRead(x, hw)
    \/ \E x \in Enrollers, id \in Ceremony, proof \in proofs :
          \/ BeginInitial(x, id, proof)
          \/ \E auth \in auths : BeginSuccessor(x, id, proof, auth)
    \/ \E x \in Callers : Step(x) \/ Crash(x)
    \/ CopyVolume \/ RestoreVolume
    \/ Tick

Spec == Init /\ [][Next]_vars

-----------------------------------------------------------------------------

\* Every variable keeps its shape; the receipt files are chains whose first
\* entry is the only one without an authorization.
TypeOK ==
    /\ clock \in 0..MaxClock
    /\ Len(ceremonies) <= MaxCeremonies
    /\ owner.hw \in Hardware
    /\ faults \in 0..MaxFaults
    /\ \A p \in proofs : p.id \in Ceremony /\ p.ek \in AllowedEKSPKI
    /\ \A x \in Callers :
          call[x].pc \in {"idle", "files", "resolve", "initial", "successor",
                          "governed", "append", "write", "advance", "promote"}
    /\ \A chain \in {current, pending, anchor} : \A n \in DOMAIN chain :
          (n = 1) <=> (chain[n].auth = NoAuth)

\* No caller is ever given an enrolled identity that the durable head does not
\* cover: every answered receipt is in the anchored lineage and stays in it,
\* whatever calls race, crash, lose an answer, or find an older copy of the
\* volume (AnchoredEnrollmentIdentityStore).
ToldIsAnchored ==
    \A head \in told : head # <<>> /\ IsPrefix(head, anchor)

\* The enrollment authority alone cannot replace hardware: every receipt after
\* the first extends exactly the predecessor its authorization names, was
\* proved by the hardware it enrolls, and follows a completed transfer of that
\* very head to that hardware (AppendGovernedSuccessor,
\* CompleteAndCommitGovernedTPMEnrollmentSuccessor).
LineageIsGoverned ==
    \A n \in 2..Len(anchor) :
        LET e == anchor[n] IN
        /\ e.auth \in auths
        /\ e.auth.pred = SubSeq(anchor, 1, n - 1)
        /\ [id |-> e.id, ek |-> e.ek, at |-> e.at] \in proofs
        /\ e.ek # anchor[n - 1].ek
        /\ [from |-> e.auth.transfer.from, to |-> e.ek,
            head |-> SubSeq(anchor, 1, n - 1)] \in transfers

\* The durable head only grows, by one receipt at a time.
HeadExtends ==
    [][anchor' # anchor => anchor' # <<>> /\ Front(anchor') = anchor]_vars

\* Between calls the anchored receipt can be read: the files still hold it, or
\* recovery completes it (Current).  This is so when calls come one at a time, for
\* the store has no lock: another call's Current may remove a .pending that the
\* anchor is about to vouch for.
CommittedIsReadable ==
    (\A x \in Callers : call[x].pc = "idle") =>
        Outcome(current, pending, anchor) # "rollback"

\* What docs/verified-compute-settlement-vcs11.md says of a repeated ceremony:
\* once its receipt is committed, the repetition is answered with that receipt.
\* It is answered when the store, between calls, still reads the anchored one.
RetryIsIdempotent ==
    (anchor # <<>> /\ \A x \in Callers : call[x].pc = "idle") =>
        Outcome(current, pending, anchor) \in {"current", "promote", "discard"}

=============================================================================
