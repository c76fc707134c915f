------------------------- MODULE RuntimeTrustProofs -------------------------
(***************************************************************************)
(* Proofs about RuntimeTrust, for any policy, any number of leases,        *)
(* generations, reboots and failing calls: trust in force rests on an      *)
(* attestation and only moves to a newer one, a renewal and an enforced    *)
(* expiry exclude each other, and a generation is reconciled for lost      *)
(* trust only once its network scope is revoked.                           *)
(***************************************************************************)
EXTENDS RuntimeTrust, TLAPS

\* Every signed lease lies within its attestation and its period, and those for
\* the running generation continue the trust in force: none is more than one
\* epoch ahead, and one that is ahead rests on a newer attestation.
LeaseOK(l, g, s, t) ==
    /\ l.expires <= l.remote + MaxAge /\ l.expires <= l.issued + TTL /\ l.gen <= g
    /\ l.gen = g /\ s = "RUNNING" =>
          /\ l.epoch <= t.epoch + 1
          /\ l.epoch = t.epoch + 1 /\ t.epoch # 0 => l.remote > t.lease.remote

LeaseInv ==
    \A l \in leases : l.issued <= now /\ LeaseOK(l, ledger.gen, ledger.state, ledger.trust)

\* An expiry that was signed, or is being enforced, was one on the clock of then.
ExpiryInv ==
    /\ watchdog.pc \in {"enforce", "put", "sign"} => watchdog.now <= now
    /\ evidence # None => /\ evidence.trust.epoch > 0 /\ evidence.trust.deadline <= evidence.at
                          /\ evidence.at <= now

\* An artifact about the current generation is only there once its scope is
\* revoked; g is the generation, r tells whether the scope is revoked.
About(x, g, r) == x # None => x.gen <= g /\ (x.gen = g => r)
Artifacts(g, r) == About(observation, g, r) /\ About(evidence, g, r) /\ About(recon, g, r)

\* The containment c that has read the fence: nobody but the watchdog moved the
\* fence since, and by one; if its write would not revoke the capsule, then the
\* generation it is about is over and nothing can be signed about the next one.
PutOK(c) ==
    /\ fence <= c.fence + 1
    /\ c.fence < fence => watchdog.pc \in {"sign", "stopped"}
    /\ watchdog.pc = "put" => watchdog.fence <= c.fence
    /\ c.fence < capsule => /\ watchdog.pc = "stopped" /\ c.decision.gen < ledger.gen
                            /\ Artifacts(ledger.gen, FALSE)

ContainInv ==
    /\ decision # None => decision.gen <= ledger.gen
    /\ contain # Off => contain.decision.gen <= ledger.gen
    /\ contain.pc = "put" => PutOK(contain)
    /\ contain.pc = "observe" /\ contain.decision.gen = ledger.gen => capsule < fence

WatchdogInv ==
    /\ watchdog.pc = "put" => capsule <= watchdog.fence /\ watchdog.fence <= fence
    /\ watchdog.pc = "sign" => capsule < fence

RevokeInv == capsule <= fence /\ Artifacts(ledger.gen, capsule < fence) /\ ContainInv /\ WatchdogInv

\* The inductive invariant.
IndInv == TypeOK /\ TrustWithinAttestation /\ LeaseInv /\ ExpiryInv /\ RevokeInv

-----------------------------------------------------------------------------
(* Types.                                                                  *)

\* The policy and the bounds are numbers.
LEMMA Numbers ==
  /\ MaxAge \in Nat \ {0} /\ TTL \in Nat \ {0} /\ None \notin Lease
  /\ Off.pc = "off" /\ Stopped.pc = "stopped" /\ Off # Stopped
BY TrustAssumption, Zenon DEF Off, Stopped

\* The trust that the ledger starts a generation with, and what a binding adds.
LEMMA TrustShapes ==
  /\ NoTrust \in Trust /\ NoTrust.epoch = 0
  /\ \A t \in Trust : /\ t.epoch \in Nat /\ t.lease \in Lease \cup {None} /\ t.boot \in Nat
                      /\ t.installed \in Nat /\ t.deadline \in Nat
  /\ \A l \in Lease : /\ l.epoch \in Nat \ {0} /\ l.gen \in Nat /\ l.remote \in Nat
                      /\ l.issued \in Nat /\ l.expires \in Nat /\ l # None
BY Numbers, Zenon DEF NoTrust, Trust, Lease

\* The fields of a ledger, and of one with another state and other trust.
LEMMA LedgerShapes ==
  ASSUME NEW x \in Ledger
  PROVE  /\ x.state \in {"RUNNING", "EXITED", "EXITED_UNKNOWN", "QUARANTINED"}
         /\ x.gen \in Nat /\ x.trust \in Trust
         /\ \A t \in Trust : [x EXCEPT !.trust = t] = [state |-> x.state, gen |-> x.gen, trust |-> t]
         /\ \A s, t : [x EXCEPT !.state = s, !.trust = t] = [state |-> s, gen |-> x.gen, trust |-> t]
<1>1. /\ x.state \in {"RUNNING", "EXITED", "EXITED_UNKNOWN", "QUARANTINED"}
      /\ x.gen \in Nat /\ x.trust \in Trust
  BY Zenon DEF Ledger
<1>2. ASSUME NEW t \in Trust PROVE [x EXCEPT !.trust = t] = [state |-> x.state, gen |-> x.gen, trust |-> t]
  BY DEF Ledger
<1>3. ASSUME NEW s, NEW t
      PROVE  [x EXCEPT !.state = s, !.trust = t] = [state |-> s, gen |-> x.gen, trust |-> t]
  <2>1. [x EXCEPT !.state = s] = [state |-> s, gen |-> x.gen, trust |-> x.trust]
    BY DEF Ledger
  <2>2. [x EXCEPT !.state = s, !.trust = t] = [[x EXCEPT !.state = s] EXCEPT !.trust = t]
    BY Zenon
  <2>3. ASSUME NEW g, NEW u
        PROVE  [[state |-> s, gen |-> g, trust |-> u] EXCEPT !.trust = t] = [state |-> s, gen |-> g, trust |-> t]
    OBVIOUS
  <2> QED BY <2>1, <2>2, <2>3, Zenon
<1> QED BY <1>1, <1>2, <1>3, Zenon

\* A watchdog as a record of its fields.
Watching(p, g, n, b, f) == [pc |-> p, gen |-> g, now |-> n, boot |-> b, fence |-> f]

\* What the steps set of a watchdog.
LEMMA WatchShapes ==
  ASSUME NEW x \in Watch
  PROVE  /\ x.pc \in {"loop", "wait", "enforce", "put", "sign"} /\ x.gen \in Nat /\ x.now \in Nat
         /\ x.boot \in Nat /\ x.fence \in Nat
         /\ \A p : [x EXCEPT !.pc = p] = Watching(p, x.gen, x.now, x.boot, x.fence)
         /\ \A p, n : [x EXCEPT !.pc = p, !.now = n] = Watching(p, x.gen, n, x.boot, x.fence)
         /\ \A p, f : [x EXCEPT !.pc = p, !.fence = f] = Watching(p, x.gen, x.now, x.boot, f)
         /\ \A p, n, b : [x EXCEPT !.pc = p, !.now = n, !.boot = b] = Watching(p, x.gen, n, b, x.fence)
<1>1. /\ x.pc \in {"loop", "wait", "enforce", "put", "sign"} /\ x.gen \in Nat /\ x.now \in Nat
      /\ x.boot \in Nat /\ x.fence \in Nat
  BY Zenon DEF Watch
<1>2. ASSUME NEW p PROVE [x EXCEPT !.pc = p] = Watching(p, x.gen, x.now, x.boot, x.fence)
  BY DEF Watch, Watching
<1>3. ASSUME NEW p, NEW g, NEW n, NEW b, NEW f, NEW y
      PROVE  [Watching(p, g, n, b, f) EXCEPT !.now = y] = Watching(p, g, y, b, f)
  BY DEF Watching
<1>4. ASSUME NEW p, NEW n PROVE [x EXCEPT !.pc = p, !.now = n] = Watching(p, x.gen, n, x.boot, x.fence)
  <2>1. [x EXCEPT !.pc = p, !.now = n] = [[x EXCEPT !.pc = p] EXCEPT !.now = n]
    BY Zenon
  <2>2. [[x EXCEPT !.pc = p] EXCEPT !.now = n] = [Watching(p, x.gen, x.now, x.boot, x.fence) EXCEPT !.now = n]
    BY <1>2, Zenon
  <2> QED BY <1>3, <2>1, <2>2
<1>5. ASSUME NEW p, NEW f PROVE [x EXCEPT !.pc = p, !.fence = f] = Watching(p, x.gen, x.now, x.boot, f)
  <2>1. [x EXCEPT !.pc = p, !.fence = f] = [[x EXCEPT !.pc = p] EXCEPT !.fence = f]
    BY Zenon
  <2>2. [[x EXCEPT !.pc = p] EXCEPT !.fence = f] = [Watching(p, x.gen, x.now, x.boot, x.fence) EXCEPT !.fence = f]
    BY <1>2, Zenon
  <2>3. [Watching(p, x.gen, x.now, x.boot, x.fence) EXCEPT !.fence = f] = Watching(p, x.gen, x.now, x.boot, f)
    BY DEF Watching
  <2> QED BY <2>1, <2>2, <2>3, Zenon
<1>6. ASSUME NEW p, NEW n, NEW b
      PROVE  [x EXCEPT !.pc = p, !.now = n, !.boot = b] = Watching(p, x.gen, n, b, x.fence)
  <2>1. [x EXCEPT !.pc = p, !.now = n, !.boot = b] = [[x EXCEPT !.pc = p, !.now = n] EXCEPT !.boot = b]
    BY Zenon
  <2>2. [[x EXCEPT !.pc = p, !.now = n] EXCEPT !.boot = b] = [Watching(p, x.gen, n, x.boot, x.fence) EXCEPT !.boot = b]
    BY <1>4, Zenon
  <2>3. [Watching(p, x.gen, n, x.boot, x.fence) EXCEPT !.boot = b] = Watching(p, x.gen, n, b, x.fence)
    BY DEF Watching
  <2> QED BY <2>1, <2>2, <2>3, Zenon
<1> QED BY <1>1, <1>2, <1>4, <1>5, <1>6, Zenon

\* A containment as a record of its fields.
Containing(p, d, t, f) == [pc |-> p, decision |-> d, at |-> t, fence |-> f]

\* What the steps set of a containment.
LEMMA ContainShapes ==
  ASSUME NEW x \in Containment
  PROVE  /\ x.pc \in {"get", "put", "observe"} /\ x.decision \in Decision /\ x.at \in Nat /\ x.fence \in Nat
         /\ \A p : [x EXCEPT !.pc = p] = Containing(p, x.decision, x.at, x.fence)
         /\ \A p, f : [x EXCEPT !.pc = p, !.fence = f] = Containing(p, x.decision, x.at, f)
<1>1. /\ x.pc \in {"get", "put", "observe"} /\ x.decision \in Decision /\ x.at \in Nat /\ x.fence \in Nat
  BY Zenon DEF Containment
<1>2. ASSUME NEW p PROVE [x EXCEPT !.pc = p] = Containing(p, x.decision, x.at, x.fence)
  BY DEF Containment, Containing
<1>3. ASSUME NEW p, NEW d, NEW t, NEW f, NEW y
      PROVE  [Containing(p, d, t, f) EXCEPT !.fence = y] = Containing(p, d, t, y)
  BY DEF Containing
<1>4. ASSUME NEW p, NEW f PROVE [x EXCEPT !.pc = p, !.fence = f] = Containing(p, x.decision, x.at, f)
  <2>1. [x EXCEPT !.pc = p, !.fence = f] = [[x EXCEPT !.pc = p] EXCEPT !.fence = f]
    BY Zenon
  <2>2. [[x EXCEPT !.pc = p] EXCEPT !.fence = f] = [Containing(p, x.decision, x.at, x.fence) EXCEPT !.fence = f]
    BY <1>2, Zenon
  <2> QED BY <1>3, <2>1, <2>2
<1> QED BY <1>1, <1>2, <1>4, Zenon

\* The trust that a lease is bound to.
LEMMA Binds ==
  ASSUME TypeOK, NEW l \in Lease
  PROVE  /\ Binding(l) \in Trust /\ Binding(l).epoch = l.epoch /\ Binding(l).lease = l
         /\ Binding(l).installed = now /\ Binding(l).deadline = l.expires /\ Binding(l).boot = boot
<1>1. /\ now \in Nat /\ boot \in Nat /\ l.epoch \in Nat /\ l.expires \in Nat
  BY TrustShapes, Zenon DEF TypeOK
<1> QED BY <1>1, Zenon DEF Binding, Trust

\* What a signed lease looks like, whether it renews or not.
LEMMA NewLease ==
  ASSUME TypeOK, NEW prev \in leases \cup {None}, remote # None, NEW e,
         e = (IF prev = None THEN 1 ELSE prev.epoch + 1)
  PROVE  /\ LeaseExpiry(remote) \in Nat /\ LeaseExpiry(remote) <= remote.at + MaxAge
         /\ LeaseExpiry(remote) <= now + TTL
         /\ [epoch |-> e, gen |-> ledger.gen, remote |-> remote.at, issued |-> now,
             expires |-> LeaseExpiry(remote)] \in Lease
<1>1. /\ now \in Nat /\ remote.at \in Nat /\ ledger.gen \in Nat /\ e \in Nat \ {0}
  <2>1. now \in Nat /\ ledger.gen \in Nat
    BY LedgerShapes, Zenon DEF TypeOK
  <2>2. remote.at \in Nat
    BY Zenon DEF TypeOK
  <2>3. leases \subseteq Lease
    BY Zenon DEF TypeOK
  <2> QED BY <2>1, <2>2, <2>3, TrustShapes
<1>2. /\ LeaseExpiry(remote) \in Nat /\ LeaseExpiry(remote) <= remote.at + MaxAge
      /\ LeaseExpiry(remote) <= now + TTL
  BY <1>1, Numbers DEF LeaseExpiry
<1> QED BY <1>1, <1>2, Zenon DEF Lease

\* The records that the steps build have their types.
LEMMA Built ==
  /\ \A p \in {"loop", "wait", "enforce", "put", "sign"}, g, n, b, f \in Nat : Watching(p, g, n, b, f) \in Watch
  /\ \A p \in {"get", "put", "observe"}, d \in Decision, t, f \in Nat : Containing(p, d, t, f) \in Containment
<1>1. \A p \in {"loop", "wait", "enforce", "put", "sign"}, g, n, b, f \in Nat : Watching(p, g, n, b, f) \in Watch
  BY Zenon DEF Watching, Watch
<1>2. \A p \in {"get", "put", "observe"}, d \in Decision, t, f \in Nat : Containing(p, d, t, f) \in Containment
  BY Zenon DEF Containing, Containment
<1> QED BY <1>1, <1>2, Zenon

\* What each step of the containment makes of it.
LEMMA ContainSteps ==
  ASSUME TypeOK
  PROVE  /\ contain.pc \in {"get", "put", "observe"} => contain \in Containment
         /\ contain \notin Containment => contain = Off
         /\ ContainGet => contain' = Off \/ contain' = Containing("put", contain.decision, contain.at, fence)
         /\ ContainPut => contain' = Off \/ contain' = Containing("observe", contain.decision, contain.at, contain.fence)
<1>1. contain \in Containment \/ contain = Off
  BY Zenon DEF TypeOK
<1>2. contain.pc \in {"get", "put", "observe"} => contain \in Containment
  BY <1>1, Numbers, Zenon
<1>3. ASSUME ContainGet
      PROVE  contain' = Off \/ contain' = Containing("put", contain.decision, contain.at, fence)
  <2>1. contain \in Containment
    BY <1>2, <1>3, Zenon DEF ContainGet
  <2>2. contain' = Off \/ contain' = [contain EXCEPT !.pc = "put", !.fence = fence]
    BY <1>3, Zenon DEF ContainGet
  <2>3. \A p, f : [contain EXCEPT !.pc = p, !.fence = f] = Containing(p, contain.decision, contain.at, f)
    BY <2>1, ContainShapes, Zenon
  <2> QED BY <2>2, <2>3, Zenon
<1>4. ASSUME ContainPut
      PROVE  contain' = Off \/ contain' = Containing("observe", contain.decision, contain.at, contain.fence)
  BY <1>2, <1>4, ContainShapes, Zenon DEF ContainPut
<1> QED BY <1>1, <1>2, <1>3, <1>4, Zenon

\* What each step of the watchdog makes of it.
LEMMA WatchSteps ==
  ASSUME TypeOK
  PROVE  /\ watchdog.pc \in {"loop", "wait", "enforce", "put", "sign"} => watchdog \in Watch
         /\ watchdog \notin Watch => watchdog \in {Off, Stopped}
         /\ WatchdogLoop => \/ watchdog' = Stopped
                            \/ watchdog' = Watching("enforce", watchdog.gen, now, boot, watchdog.fence)
                            \/ watchdog' = Watching("wait", watchdog.gen, now, watchdog.boot, watchdog.fence)
         /\ WatchdogWake => watchdog' = Watching("loop", watchdog.gen, watchdog.now, watchdog.boot, watchdog.fence)
         /\ Enforce => \/ watchdog' = Stopped /\ lock' = lock
                       \/ /\ watchdog' = Watching("loop", watchdog.gen, watchdog.now, watchdog.boot, watchdog.fence)
                          /\ lock' = lock
                       \/ /\ watchdog' = Watching("put", watchdog.gen, watchdog.now, watchdog.boot, fence)
                          /\ lock' = TRUE /\ ledger.state = "RUNNING" /\ ledger.trust.epoch # 0
                          /\ ~(watchdog.now < ledger.trust.deadline)
         /\ EnforcePut => \/ /\ watchdog' = Watching("sign", watchdog.gen, watchdog.now, watchdog.boot, watchdog.fence)
                             /\ lock' = lock /\ fence' = watchdog.fence + 1
                          \/ watchdog' = Stopped /\ lock' = FALSE /\ fence' = fence
<1>1. watchdog \in Watch \/ watchdog = Off \/ watchdog = Stopped
  BY Zenon DEF TypeOK
<1>2. watchdog.pc \in {"loop", "wait", "enforce", "put", "sign"} => watchdog \in Watch
  BY <1>1, Numbers, Zenon
<1>3. ASSUME WatchdogLoop
      PROVE  \/ watchdog' = Stopped
             \/ watchdog' = Watching("enforce", watchdog.gen, now, boot, watchdog.fence)
             \/ watchdog' = Watching("wait", watchdog.gen, now, watchdog.boot, watchdog.fence)
  <2>1. watchdog \in Watch
    BY <1>2, <1>3, Zenon DEF WatchdogLoop
  <2>2. \/ watchdog' = Stopped
        \/ watchdog' = [watchdog EXCEPT !.pc = "enforce", !.now = now, !.boot = boot]
        \/ watchdog' = [watchdog EXCEPT !.pc = "wait", !.now = now]
    BY <1>3, Zenon DEF WatchdogLoop
  <2>3. /\ \A p, n, b : [watchdog EXCEPT !.pc = p, !.now = n, !.boot = b]
                           = Watching(p, watchdog.gen, n, b, watchdog.fence)
        /\ \A p, n : [watchdog EXCEPT !.pc = p, !.now = n]
                        = Watching(p, watchdog.gen, n, watchdog.boot, watchdog.fence)
    BY <2>1, WatchShapes, Zenon
  <2> QED BY <2>2, <2>3, Zenon
<1>4. ASSUME WatchdogWake
      PROVE  watchdog' = Watching("loop", watchdog.gen, watchdog.now, watchdog.boot, watchdog.fence)
  BY <1>2, <1>4, WatchShapes, Zenon DEF WatchdogWake
<1>5. ASSUME Enforce
      PROVE  \/ watchdog' = Stopped /\ lock' = lock
             \/ /\ watchdog' = Watching("loop", watchdog.gen, watchdog.now, watchdog.boot, watchdog.fence)
                /\ lock' = lock
             \/ /\ watchdog' = Watching("put", watchdog.gen, watchdog.now, watchdog.boot, fence)
                /\ lock' = TRUE /\ ledger.state = "RUNNING" /\ ledger.trust.epoch # 0
                /\ ~(watchdog.now < ledger.trust.deadline)
  <2>1. watchdog \in Watch
    BY <1>2, <1>5, Zenon DEF Enforce
  <2>2. \/ watchdog' = Stopped /\ lock' = lock
        \/ watchdog' = [watchdog EXCEPT !.pc = "loop"] /\ lock' = lock
        \/ /\ watchdog' = [watchdog EXCEPT !.pc = "put", !.fence = fence]
           /\ lock' = TRUE /\ ledger.state = "RUNNING" /\ ledger.trust.epoch # 0
           /\ ~(watchdog.now < ledger.trust.deadline)
    BY <1>5, Zenon DEF Enforce
  <2>3. /\ \A p : [watchdog EXCEPT !.pc = p] = Watching(p, watchdog.gen, watchdog.now, watchdog.boot, watchdog.fence)
        /\ \A p, f : [watchdog EXCEPT !.pc = p, !.fence = f]
                        = Watching(p, watchdog.gen, watchdog.now, watchdog.boot, f)
    BY <2>1, WatchShapes, Zenon
  <2> QED BY <2>2, <2>3, Zenon
<1>6. ASSUME EnforcePut
      PROVE  \/ /\ watchdog' = Watching("sign", watchdog.gen, watchdog.now, watchdog.boot, watchdog.fence)
                /\ lock' = lock /\ fence' = watchdog.fence + 1
             \/ watchdog' = Stopped /\ lock' = FALSE /\ fence' = fence
  BY <1>2, <1>6, WatchShapes, Zenon DEF EnforcePut
<1> QED BY <1>1, <1>2, <1>3, <1>4, <1>5, <1>6, Zenon

\* What each step of the ledger makes of it.
LEMMA LedgerSteps ==
  ASSUME TypeOK
  PROVE  /\ ledger.gen \in Nat /\ ledger.trust \in Trust
         /\ ApplyRuntimeTrustLease =>
              \/ ledger' = ledger
              \/ /\ apply.lease \in leases /\ ledger.state = "RUNNING" /\ ledger.gen = apply.lease.gen
                 /\ apply.lease.epoch = ledger.trust.epoch + 1 /\ InTime(ledger.trust)
                 /\ now < apply.lease.expires
                 /\ ledger' = [state |-> "RUNNING", gen |-> ledger.gen, trust |-> Binding(apply.lease)]
         /\ ReconcileApply => \/ ledger' = ledger
                              \/ ledger' = [state |-> "QUARANTINED", gen |-> ledger.gen, trust |-> NoTrust]
                              \/ ledger' = [state |-> "EXITED_UNKNOWN", gen |-> ledger.gen, trust |-> NoTrust]
         /\ WaitGovernedWorkload => ledger' = [state |-> "EXITED", gen |-> ledger.gen, trust |-> NoTrust]
<1>1. ledger \in Ledger
  BY Zenon DEF TypeOK
<1>2. ASSUME ApplyRuntimeTrustLease
      PROVE  \/ ledger' = ledger
             \/ /\ apply.lease \in leases /\ ledger.state = "RUNNING" /\ ledger.gen = apply.lease.gen
                /\ apply.lease.epoch = ledger.trust.epoch + 1 /\ InTime(ledger.trust)
                /\ now < apply.lease.expires
                /\ ledger' = [state |-> "RUNNING", gen |-> ledger.gen, trust |-> Binding(apply.lease)]
  <2>1. apply.lease \in leases /\ apply.lease \in Lease
    <3>1. apply # Off
      BY <1>2, Numbers, Zenon DEF ApplyRuntimeTrustLease
    <3> QED BY <3>1, Zenon DEF TypeOK
  <2>2. Binding(apply.lease) \in Trust
    BY <2>1, Binds, Zenon
  <2>3. [ledger EXCEPT !.trust = Binding(apply.lease)]
          = [state |-> ledger.state, gen |-> ledger.gen, trust |-> Binding(apply.lease)]
    BY <1>1, <2>2, LedgerShapes, Zenon
  <2> QED BY <1>2, <2>1, <2>3, Zenon DEF ApplyRuntimeTrustLease, ClockAdvances
<1>3. ASSUME ReconcileApply, ledger' # ledger
      PROVE  \/ ledger' = [state |-> "QUARANTINED", gen |-> ledger.gen, trust |-> NoTrust]
             \/ ledger' = [state |-> "EXITED_UNKNOWN", gen |-> ledger.gen, trust |-> NoTrust]
  <2>1. ledger' = Reconciled /\ ValidateTrust(Reconciled)
    BY <1>3, Zenon DEF ReconcileApply
  <2>2. CASE recon.outcome = "QUARANTINE"
    <3> DEFINE u == [ledger.trust EXCEPT !.epoch = 0, !.lease = None]
    <3>1. [ledger EXCEPT !.state = "QUARANTINED", !.trust.epoch = 0, !.trust.lease = None]
            = [ledger EXCEPT !.state = "QUARANTINED", !.trust = u]
      BY <1>1, Zenon DEF Ledger
    <3>2. Reconciled = [state |-> "QUARANTINED", gen |-> ledger.gen, trust |-> u]
      <4>1. \A w : [ledger EXCEPT !.state = "QUARANTINED", !.trust = w]
                    = [state |-> "QUARANTINED", gen |-> ledger.gen, trust |-> w]
        BY <1>1, LedgerShapes, Zenon
      <4>2. Reconciled = [ledger EXCEPT !.state = "QUARANTINED", !.trust = u]
        BY <2>2, <3>1, Zenon DEF Reconciled
      <4> HIDE DEF u
      <4> QED BY <4>1, <4>2, Zenon
    <3>3. u.epoch = 0
      BY LedgerShapes, <1>1, Zenon DEF Trust
    <3> HIDE DEF u
    <3>4. u = NoTrust
      BY <2>1, <3>2, <3>3, Zenon DEF ValidateTrust
    <3> QED BY <2>1, <3>2, <3>4, Zenon
  <2>3. CASE recon.outcome # "QUARANTINE"
    BY <1>1, <2>1, <2>3, LedgerShapes, Zenon DEF Reconciled
  <2> QED BY <2>2, <2>3, Zenon
<1>4. ASSUME WaitGovernedWorkload
      PROVE  ledger' = [state |-> "EXITED", gen |-> ledger.gen, trust |-> NoTrust]
  BY <1>1, <1>4, LedgerShapes, Zenon DEF WaitGovernedWorkload
<1> QED BY <1>1, <1>2, <1>3, <1>4, LedgerShapes, Zenon

\* Every step keeps the types.
LEMMA TypeInd ==
  ASSUME TypeOK, [Next]_vars
  PROVE  TypeOK'
<1> DEFINE WatchType == /\ watchdog \in Watch \cup {Off, Stopped} /\ lock \in BOOLEAN
                        /\ lock <=> watchdog.pc \in {"put", "sign"}
           LedgerType == ledger \in Ledger /\ ValidateTrust(ledger)
           ApplyType == apply = Off \/ (apply \in Application /\ apply.lease \in leases)
           ContainType == contain \in Containment \cup {Off}
           FileType == /\ remote \in [at : Nat, verdict : {"ALLOW", "BLOCK"}] \cup {None}
                       /\ decision \in Decision \cup {None} /\ observation \in Observation \cup {None}
                       /\ evidence \in Evidence \cup {None} /\ recon \in Reconciliation \cup {None}
           ClockType == now \in Nat \ {0} /\ boot \in Nat \ {0}
<1>0. /\ ClockType /\ WatchType /\ LedgerType /\ ApplyType /\ ContainType /\ FileType
      /\ leases \subseteq Lease /\ fence \in Nat /\ capsule \in Nat
      /\ (/\ ClockType' /\ WatchType' /\ LedgerType' /\ ApplyType' /\ ContainType' /\ FileType'
          /\ leases' \subseteq Lease /\ fence' \in Nat /\ capsule' \in Nat) => TypeOK'
  BY Zenon DEF TypeOK
<1>1. now \in Nat /\ boot \in Nat /\ ledger.gen \in Nat /\ ledger.trust \in Trust
  BY <1>0, LedgerShapes, Zenon
<1>2. UNCHANGED ledger => LedgerType'
  BY <1>0, Zenon DEF ValidateTrust
<1>3. UNCHANGED <<watchdog, lock>> => WatchType'
  BY <1>0
<1>4. UNCHANGED <<apply, leases>> => ApplyType'
  BY <1>0, Zenon
<1>5. UNCHANGED <<remote, decision, observation, evidence, recon>> => FileType'
  BY <1>0, Zenon
<1>6. (UNCHANGED contain => ContainType') /\ (UNCHANGED clock => ClockType')
  BY <1>0, Zenon DEF clock
<1> HIDE DEF WatchType, LedgerType, ApplyType, ContainType, FileType, ClockType
<1>7. ASSUME NEW v \in {"ALLOW", "BLOCK"}, RemoteDecision(v) PROVE TypeOK'
  <2>1. FileType'
    <3>1. [at |-> now, verdict |-> v] \in [at : Nat, verdict : {"ALLOW", "BLOCK"}]
      BY <1>1, Zenon
    <3> QED BY <1>0, <1>7, <3>1, Zenon DEF FileType, RemoteDecision
  <2> QED BY <1>0, <1>2, <1>3, <1>4, <1>6, <1>7, <2>1, Zenon DEF RemoteDecision, kernel
<1>8. CASE RuntimeTrustIssue
  <2>1. leases \subseteq leases' /\ leases' \subseteq Lease
    <3>1. PICK prev \in leases \cup {None} : IssueRuntimeTrustLease(prev)
      BY <1>8, Zenon DEF RuntimeTrustIssue
    <3> DEFINE e == IF prev = None THEN 1 ELSE prev.epoch + 1
    <3>2. remote # None
      BY <3>1, Zenon DEF IssueRuntimeTrustLease
    <3>3. [epoch |-> e, gen |-> ledger.gen, remote |-> remote.at, issued |-> now,
           expires |-> LeaseExpiry(remote)] \in Lease
      BY <3>2, NewLease, Zenon
    <3>4. leases' = leases \cup {[epoch |-> e, gen |-> ledger.gen, remote |-> remote.at, issued |-> now,
                                  expires |-> LeaseExpiry(remote)]}
      BY <3>1, Zenon DEF IssueRuntimeTrustLease
    <3> QED BY <1>0, <3>3, <3>4, Zenon
  <2>2. ApplyType'
    BY <1>0, <1>8, <2>1, Zenon DEF RuntimeTrustIssue, ApplyType
  <2> QED BY <1>0, <1>2, <1>3, <1>5, <1>6, <1>8, <2>1, <2>2, Zenon DEF RuntimeTrustIssue, kernel
<1>9. CASE RuntimeTrustEvaluate
  <2>1. decision' \in Decision
    <3>1. PICK l \in leases, r \in {None, remote} : EvaluateRuntimeTrust(l, r)
      BY <1>9, Zenon DEF RuntimeTrustEvaluate
    <3>2. l \in Lease /\ TrustOutcome(l, r) \in {"KEEP_RUNNING", "RENEW_REQUIRED", "REVOKE"}
      BY <1>0, Zenon DEF TrustOutcome
    <3>3. decision' = [gen |-> ledger.gen, lease |-> l, outcome |-> TrustOutcome(l, r), at |-> now]
      BY <3>1, Zenon DEF EvaluateRuntimeTrust
    <3> QED BY <1>1, <3>2, <3>3, Zenon DEF Decision
  <2>2. FileType'
    BY <1>0, <1>9, <2>1, Zenon DEF FileType, RuntimeTrustEvaluate
  <2> QED BY <1>0, <1>2, <1>3, <1>4, <1>6, <1>9, <2>2, Zenon DEF RuntimeTrustEvaluate, kernel
<1>10. CASE ApplyVerify
  <2>1. ApplyType'
    <3>1. PICK l \in leases : apply' = [pc |-> "lock", lease |-> l, boot |-> boot]
      BY <1>10, Zenon DEF ApplyVerify
    <3>2. apply' \in Application /\ apply'.lease = l
      BY <1>0, <1>1, <3>1, Zenon DEF Application
    <3> QED BY <1>10, <3>2, Zenon DEF ApplyVerify, ApplyType, artifacts
  <2> QED BY <1>0, <1>2, <1>3, <1>5, <1>6, <1>10, <2>1, Zenon DEF ApplyVerify, artifacts, kernel
<1>11. CASE ApplyRuntimeTrustLease
  <2>1. LedgerType'
    <3>1. CASE ledger' = ledger
      BY <1>2, <3>1, Zenon
    <3>2. CASE ledger' # ledger
      <4> DEFINE l == apply.lease
      <4>1. /\ l \in leases /\ now < l.expires
            /\ ledger' = [state |-> "RUNNING", gen |-> ledger.gen, trust |-> Binding(l)]
        BY <1>11, <3>2, LedgerSteps, Zenon
      <4> HIDE DEF l
      <4>2. l \in Lease
        BY <1>0, <4>1, Zenon
      <4>3. /\ Binding(l) \in Trust /\ Binding(l).epoch = l.epoch /\ Binding(l).lease = l
            /\ Binding(l).installed = now /\ Binding(l).deadline = l.expires /\ Binding(l).boot = boot
        BY <4>2, Binds, Zenon
      <4>4. ledger' \in Ledger
        BY <1>1, <4>1, <4>3, Zenon DEF Ledger
      <4>5. ledger'.state = "RUNNING" /\ ledger'.trust = Binding(l)
        BY <4>1, Zenon
      <4>6. l.epoch # 0 /\ l # None /\ now # 0 /\ boot # 0 /\ l.expires > now
        BY <1>0, <4>1, <4>2, TrustShapes, Zenon DEF ClockType
      <4>7. ValidateTrust(ledger')
        BY <4>3, <4>5, <4>6, Zenon DEF ValidateTrust
      <4>8. ValidateTrust(ledger)'
        BY <4>7, Zenon DEF ValidateTrust
      <4> QED BY <4>4, <4>8, Zenon DEF LedgerType
    <3> QED BY <3>1, <3>2, Zenon
  <2>2. ApplyType'
    BY <1>11, Zenon DEF ApplyRuntimeTrustLease, ApplyType
  <2> QED BY <1>0, <1>3, <1>5, <1>6, <1>11, <2>1, <2>2, Zenon DEF ApplyRuntimeTrustLease, artifacts, kernel
<1>12. CASE ContainStart
  <2>1. ContainType'
    <3>1. decision \in Decision /\ contain' = Containing("get", decision, now, 0)
      BY <1>0, <1>12, Zenon DEF ContainStart, FileType, Containing
    <3> QED BY <1>1, <3>1, Built, Zenon DEF ContainType
  <2> QED BY <1>0, <1>2, <1>3, <1>4, <1>5, <1>6, <1>12, <2>1, Zenon DEF ContainStart, artifacts, kernel
<1>13. CASE ContainGet
  <2>1. ContainType'
    <3>1. contain \in Containment
      BY <1>13, ContainSteps, Zenon DEF ContainGet
    <3>2. contain.decision \in Decision /\ contain.at \in Nat
      BY <3>1, ContainShapes, Zenon
    <3> QED BY <1>0, <1>13, <3>2, ContainSteps, Built, Zenon DEF ContainType
  <2> QED BY <1>0, <1>2, <1>3, <1>4, <1>5, <1>6, <1>13, <2>1, Zenon DEF ContainGet, artifacts, kernel
<1>14. CASE ContainPut
  <2>1. contain \in Containment
    BY <1>14, ContainSteps, Zenon DEF ContainPut
  <2>2. contain.decision \in Decision /\ contain.at \in Nat /\ contain.fence \in Nat
    BY <2>1, ContainShapes, Zenon
  <2>3. ContainType'
    BY <1>0, <1>14, <2>2, ContainSteps, Built, Zenon DEF ContainType
  <2>4. fence' \in Nat
    BY <1>0, <1>14, <2>2 DEF ContainPut
  <2> QED BY <1>0, <1>2, <1>3, <1>4, <1>5, <1>6, <1>14, <2>3, <2>4, Zenon DEF ContainPut, artifacts
<1>15. CASE ContainObserve
  <2>1. contain \in Containment
    BY <1>15, ContainSteps, Zenon DEF ContainObserve
  <2>2. contain.decision \in Decision /\ contain.decision.gen \in Nat /\ contain.at \in Nat
    BY <2>1, ContainShapes, Zenon DEF Decision
  <2>3. observation' \in Observation \cup {None}
    BY <1>0, <1>15, <2>2, Zenon DEF ContainObserve, Observation, FileType
  <2>4. FileType' /\ ContainType'
    BY <1>0, <1>15, <2>3, Zenon DEF FileType, ContainType, ContainObserve
  <2> QED BY <1>0, <1>2, <1>3, <1>4, <1>6, <1>15, <2>4, Zenon DEF ContainObserve, kernel
<1>16. CASE WatchdogStart
  <2>1. watchdog' = Watching("loop", ledger.gen, 0, 0, 0) /\ lock' = lock /\ watchdog.pc = "off"
    BY <1>16, Numbers, Zenon DEF WatchdogStart, Watching
  <2>2. WatchType'
    <3>1. watchdog' \in Watch /\ watchdog'.pc = "loop"
      BY <1>1, <2>1, Built, Zenon DEF Watching
    <3> QED BY <1>0, <2>1, <3>1, Zenon DEF WatchType
  <2> QED BY <1>0, <1>2, <1>4, <1>5, <1>6, <1>16, <2>2, Zenon DEF WatchdogStart, artifacts, kernel
<1>17. CASE Watchdog
  <2>0. watchdog \in Watch => watchdog.gen \in Nat /\ watchdog.now \in Nat /\ watchdog.boot \in Nat /\ watchdog.fence \in Nat
    BY WatchShapes, Zenon
  <2>a. ASSUME NEW p \in {"loop", "wait", "enforce", "put", "sign"}, NEW n \in Nat, NEW b \in Nat, NEW f \in Nat,
               watchdog \in Watch, watchdog' = Watching(p, watchdog.gen, n, b, f),
               lock' \in BOOLEAN, lock' <=> p \in {"put", "sign"}
        PROVE  WatchType'
    <3>1. watchdog' \in Watch
      BY <2>0, <2>a, Built, Zenon
    <3>2. watchdog'.pc = p
      BY <2>a, Zenon DEF Watching
    <3> QED BY <2>a, <3>1, <3>2, Zenon DEF WatchType
  <2>b. watchdog' = Stopped /\ lock' = FALSE => WatchType'
    BY Numbers, Zenon DEF WatchType
  <2>1. CASE WatchdogLoop
    <3>1. watchdog \in Watch /\ lock' = FALSE
      BY <1>0, <2>1, WatchSteps, Zenon DEF WatchdogLoop, WatchType
    <3>2. WatchType'
      BY <1>0, <1>1, <2>0, <2>a, <2>b, <2>1, <3>1, WatchSteps, Zenon
    <3> QED BY <1>0, <1>2, <1>4, <1>5, <1>6, <2>1, <3>2, Zenon DEF WatchdogLoop, artifacts, kernel
  <2>2. CASE WatchdogWake
    <3>1. watchdog \in Watch /\ lock' = FALSE
      BY <1>0, <2>2, WatchSteps, Zenon DEF WatchdogWake, WatchType
    <3>2. WatchType'
      BY <1>0, <1>1, <2>0, <2>a, <2>b, <2>2, <3>1, WatchSteps, Zenon
    <3> QED BY <1>0, <1>2, <1>4, <1>5, <1>6, <2>2, <3>2, Zenon DEF WatchdogWake, artifacts, kernel
  <2>3. CASE Enforce
    <3>1. watchdog \in Watch /\ lock = FALSE /\ watchdog.pc = "enforce"
      BY <1>0, <2>3, WatchSteps, Zenon DEF Enforce, WatchType
    <3>2. WatchType'
      BY <1>0, <1>1, <2>0, <2>a, <2>b, <2>3, <3>1, WatchSteps, Zenon
    <3> QED BY <1>0, <1>2, <1>4, <1>5, <1>6, <2>3, <3>2, Zenon DEF Enforce, artifacts, kernel
  <2>4. CASE EnforcePut
    <3>1. watchdog \in Watch /\ lock = TRUE /\ watchdog.pc = "put"
      BY <1>0, <2>4, WatchSteps, Zenon DEF EnforcePut, WatchType
    <3>2. WatchType'
      BY <2>0, <2>a, <2>b, <2>4, <3>1, WatchSteps, Zenon
    <3>3. fence' \in Nat
      <4>1. fence' = watchdog.fence + 1 \/ fence' = fence
        BY <2>4, Zenon DEF EnforcePut
      <4> QED BY <1>0, <2>0, <3>1, <4>1
    <3> QED BY <1>0, <1>2, <1>4, <1>5, <1>6, <2>4, <3>2, <3>3, Zenon DEF EnforcePut, artifacts
  <2>5. CASE EnforceSign
    <3>1. watchdog \in Watch /\ lock' = FALSE /\ watchdog' = Stopped
      BY <2>5, WatchSteps, Zenon DEF EnforceSign
    <3>2. WatchType'
      BY <3>1, Numbers, Zenon DEF WatchType
    <3>3. evidence' \in Evidence
      <4>1. evidence' = [gen |-> ledger.gen, trust |-> ledger.trust, process |-> ProcessState,
                         revocation |-> watchdog.fence + 1, at |-> watchdog.now]
        BY <2>5, Zenon DEF EnforceSign
      <4>2. ProcessState \in {"running", "gone", "reused", "moved"}
        BY <2>5, <4>1 DEF EnforceSign, ValidateRuntimeTrustExpiryEvidence
      <4> QED BY <1>1, <2>0, <3>1, <4>1, <4>2 DEF Evidence
    <3>4. FileType'
      BY <1>0, <2>5, <3>3, Zenon DEF EnforceSign, FileType
    <3> QED BY <1>0, <1>2, <1>4, <1>6, <2>5, <3>2, <3>4, Zenon DEF EnforceSign, kernel
  <2> QED BY <1>17, <2>1, <2>2, <2>3, <2>4, <2>5, Zenon DEF Watchdog
<1>18. CASE RuntimeTrustReconcile
  <2>1. recon' \in Reconciliation
    BY <1>1, <1>18, Zenon DEF RuntimeTrustReconcile, Reconciliation
  <2>2. FileType'
    BY <1>0, <1>18, <2>1, Zenon DEF RuntimeTrustReconcile, FileType
  <2> QED BY <1>0, <1>2, <1>3, <1>4, <1>6, <1>18, <2>2, Zenon DEF RuntimeTrustReconcile, kernel
<1>19. CASE RuntimeTrustExpiryReconcile
  <2>1. recon' \in Reconciliation
    BY <1>1, <1>19, Zenon DEF RuntimeTrustExpiryReconcile, Reconciliation, ExpiryOutcome
  <2>2. FileType'
    BY <1>0, <1>19, <2>1, Zenon DEF RuntimeTrustExpiryReconcile, FileType
  <2> QED BY <1>0, <1>2, <1>3, <1>4, <1>6, <1>19, <2>2, Zenon DEF RuntimeTrustExpiryReconcile, kernel
<1>20. ASSUME NEW s \in {"RUNNING", "EXITED", "EXITED_UNKNOWN", "QUARANTINED"}, NEW g \in Nat,
              ledger' = [state |-> s, gen |-> g, trust |-> NoTrust]
       PROVE  LedgerType'
  <2>1. ledger' \in Ledger /\ ledger'.trust = NoTrust
    BY <1>20, TrustShapes, Zenon DEF Ledger
  <2> QED BY <2>1, TrustShapes, Zenon DEF LedgerType, ValidateTrust
<1>21. CASE ReconcileApply
  <2>1. LedgerType'
    BY <1>1, <1>2, <1>20, <1>21, LedgerSteps, Zenon
  <2> QED BY <1>0, <1>3, <1>4, <1>5, <1>6, <1>21, <2>1, Zenon DEF ReconcileApply, artifacts, kernel
<1>22. CASE ProcessChange
  BY <1>0, <1>2, <1>3, <1>4, <1>5, <1>6, <1>22, Zenon DEF ProcessChange, artifacts, kernel
<1>23. CASE WaitGovernedWorkload
  <2>1. LedgerType'
    BY <1>1, <1>20, <1>23, LedgerSteps, Zenon
  <2> QED BY <1>0, <1>3, <1>4, <1>5, <1>6, <1>23, <2>1, Zenon DEF WaitGovernedWorkload, artifacts, kernel
<1>24. CASE StartGovernedWorkload
  <2>1. LedgerType'
    BY <1>1, <1>20, <1>24 DEF StartGovernedWorkload
  <2> QED BY <1>0, <1>3, <1>4, <1>5, <1>6, <1>24, <2>1, Zenon DEF StartGovernedWorkload, artifacts
<1>25. CASE Tick
  <2>1. ClockType'
    BY <1>0, <1>25 DEF Tick, ClockType
  <2> QED BY <1>0, <1>2, <1>3, <1>4, <1>5, <1>6, <1>25, <2>1, Zenon DEF Tick, artifacts, kernel
<1>26. CASE Reboot
  <2>1. ClockType'
    BY <1>0, <1>26 DEF Reboot, ClockType
  <2>2. WatchType' /\ ContainType' /\ ApplyType'
    BY <1>26, Numbers, Zenon DEF Reboot, WatchType, ContainType, ApplyType
  <2> QED BY <1>0, <1>2, <1>5, <1>26, <2>1, <2>2, Zenon DEF Reboot, artifacts, kernel
<1>27. CASE UNCHANGED vars
  BY <1>0, <1>2, <1>3, <1>4, <1>5, <1>6, <1>27, Zenon DEF vars, clock
<1> QED BY Zenon, <1>7, <1>8, <1>9, <1>10, <1>11, <1>12, <1>13, <1>14, <1>15, <1>16, <1>17, <1>18, <1>19, <1>21,
           <1>22, <1>23, <1>24, <1>25, <1>26, <1>27 DEF Next

-----------------------------------------------------------------------------
(* Leases and trust.                                                       *)

\* The steps that move the ledger, sign a lease, and let time pass.
LEMMA Movers ==
  ASSUME [Next]_vars
  PROVE  /\ \/ UNCHANGED <<ledger, capsule>> \/ (ApplyRuntimeTrustLease /\ capsule' = capsule)
            \/ (ReconcileApply \/ WaitGovernedWorkload) /\ capsule' = capsule
            \/ StartGovernedWorkload
         /\ leases' = leases \/ (RuntimeTrustIssue /\ UNCHANGED <<now, ledger>>)
         /\ now' = now \/ now' = now + 1
<1>1. ASSUME NEW v \in {"ALLOW", "BLOCK"}, RemoteDecision(v) PROVE UNCHANGED <<ledger, capsule, leases, now>>
  BY <1>1, Zenon DEF RemoteDecision, clock, kernel
<1>2. CASE RuntimeTrustIssue
  BY <1>2, Zenon DEF RuntimeTrustIssue, clock, kernel
<1>3. CASE RuntimeTrustEvaluate \/ RuntimeTrustReconcile \/ RuntimeTrustExpiryReconcile
  BY <1>3, Zenon DEF RuntimeTrustEvaluate, RuntimeTrustReconcile, RuntimeTrustExpiryReconcile, clock, kernel
<1>4. CASE ApplyVerify \/ ApplyRuntimeTrustLease
  BY <1>4, Zenon DEF ApplyVerify, ApplyRuntimeTrustLease, artifacts, clock, kernel
<1>5. CASE ContainStart \/ ContainGet \/ ContainPut \/ ContainObserve
  BY <1>5, Zenon DEF ContainStart, ContainGet, ContainPut, ContainObserve, artifacts, clock, kernel
<1>6. CASE WatchdogStart \/ Watchdog
  BY <1>6, Zenon DEF WatchdogStart, Watchdog, WatchdogLoop, WatchdogWake, Enforce, EnforcePut, EnforceSign,
                     artifacts, clock, kernel
<1>7. CASE ReconcileApply \/ WaitGovernedWorkload \/ StartGovernedWorkload
  BY <1>7, Zenon DEF ReconcileApply, WaitGovernedWorkload, StartGovernedWorkload, artifacts, clock, kernel
<1>8. CASE ProcessChange \/ Tick \/ Reboot
  BY <1>8, Zenon DEF ProcessChange, Tick, Reboot, artifacts, clock, kernel
<1>9. CASE UNCHANGED vars
  BY <1>9, Zenon DEF vars
<1> QED BY <1>1, <1>2, <1>3, <1>4, <1>5, <1>6, <1>7, <1>8, <1>9, Zenon DEF Next

\* What a step makes of the ledger of a generation: it stays, a lease that comes
\* next is bound in time, or the generation is over.
LEMMA LedgerMoves ==
  ASSUME TypeOK, [Next]_vars
  PROVE  \/ UNCHANGED <<ledger, capsule>>
         \/ /\ capsule' = capsule /\ leases' = leases /\ now' = now
            /\ \E l \in leases :
                 /\ l \in Lease /\ ledger.state = "RUNNING" /\ ledger.gen = l.gen
                 /\ l.epoch = ledger.trust.epoch + 1 /\ InTime(ledger.trust) /\ now < l.expires
                 /\ ledger' = [state |-> "RUNNING", gen |-> ledger.gen, trust |-> Binding(l)]
         \/ /\ capsule' = capsule
            /\ \E s \in {"EXITED", "EXITED_UNKNOWN", "QUARANTINED"} :
                 ledger' = [state |-> s, gen |-> ledger.gen, trust |-> NoTrust]
         \/ /\ StartGovernedWorkload /\ capsule' = fence
            /\ ledger' = [state |-> "RUNNING", gen |-> ledger.gen + 1, trust |-> NoTrust]
<1>1. CASE ApplyRuntimeTrustLease /\ capsule' = capsule /\ ledger' # ledger
  <2>1. leases' = leases /\ now' = now /\ leases \subseteq Lease
    BY <1>1, Zenon DEF TypeOK, ApplyRuntimeTrustLease, artifacts, clock
  <2>2. \E l \in leases :
          /\ ledger.state = "RUNNING" /\ ledger.gen = l.gen
          /\ l.epoch = ledger.trust.epoch + 1 /\ InTime(ledger.trust) /\ now < l.expires
          /\ ledger' = [state |-> "RUNNING", gen |-> ledger.gen, trust |-> Binding(l)]
    BY <1>1, LedgerSteps, Zenon
  <2> QED BY <1>1, <2>1, <2>2, Zenon
<1>2. CASE ReconcileApply /\ capsule' = capsule /\ ledger' # ledger
  BY <1>2, LedgerSteps, Zenon
<1>3. CASE WaitGovernedWorkload /\ capsule' = capsule
  BY <1>3, LedgerSteps, Zenon
<1>4. CASE StartGovernedWorkload
  BY <1>4, Zenon DEF StartGovernedWorkload
<1> QED BY <1>1, <1>2, <1>3, <1>4, Movers, Zenon

\* The ledger's record of a running generation that binds a lease.
LEMMA Bound ==
  ASSUME TypeOK, NEW l \in Lease, NEW x, NEW g, x = [state |-> "RUNNING", gen |-> g, trust |-> Binding(l)]
  PROVE  /\ x.state = "RUNNING" /\ x.gen = g /\ x.trust.epoch = l.epoch /\ x.trust.lease = l
         /\ x.trust.installed = now /\ x.trust.deadline = l.expires /\ x.trust.boot = boot
<1>1. x.state = "RUNNING" /\ x.gen = g /\ x.trust = Binding(l)
  BY Zenon
<1> QED BY <1>1, Binds, Zenon

\* The ledger's record of a generation without trust.
LEMMA Unbound ==
  ASSUME NEW x, NEW s, NEW g, x = [state |-> s, gen |-> g, trust |-> NoTrust]
  PROVE  x.state = s /\ x.gen = g /\ x.trust = NoTrust /\ x.trust.epoch = 0
<1>1. x.state = s /\ x.gen = g /\ x.trust = NoTrust
  BY Zenon
<1> QED BY <1>1, TrustShapes, Zenon

\* A lease that is signed continues the trust in force.
LEMMA Signed ==
  ASSUME TypeOK, RuntimeTrustIssue, NEW l \in leases' \ leases
  PROVE  l.issued <= now /\ LeaseOK(l, ledger.gen, ledger.state, ledger.trust)
<1>1. PICK prev \in leases \cup {None} : IssueRuntimeTrustLease(prev)
  BY Zenon DEF RuntimeTrustIssue
<1> DEFINE e == IF prev = None THEN 1 ELSE prev.epoch + 1
<1>2. /\ remote # None /\ (prev = None => ledger.trust.epoch = 0) /\ (prev # None => Renewable(prev, remote))
      /\ l = [epoch |-> e, gen |-> ledger.gen, remote |-> remote.at, issued |-> now,
              expires |-> LeaseExpiry(remote)]
  BY <1>1, Zenon DEF IssueRuntimeTrustLease
<1>3. /\ LeaseExpiry(remote) \in Nat /\ LeaseExpiry(remote) <= remote.at + MaxAge
      /\ LeaseExpiry(remote) <= now + TTL
  BY <1>2, NewLease, Zenon
<1>4. /\ l.epoch = e /\ l.gen = ledger.gen /\ l.remote = remote.at /\ l.issued = now
      /\ l.expires = LeaseExpiry(remote)
  BY <1>2, Zenon
<1>5. now \in Nat /\ ledger.gen \in Nat /\ ledger.trust.epoch \in Nat
  BY LedgerShapes, TrustShapes, Zenon DEF TypeOK
<1>6. /\ l.epoch <= ledger.trust.epoch + 1
      /\ l.epoch = ledger.trust.epoch + 1 /\ ledger.trust.epoch # 0 => l.remote > ledger.trust.lease.remote
  <2>1. CASE prev = None
    BY <1>2, <1>4, <2>1
  <2>2. CASE prev # None
    <3>1. /\ ledger.trust.epoch = prev.epoch /\ ledger.trust.lease = prev /\ remote.at > prev.remote
      BY <1>2, <2>2, Zenon DEF Renewable, Current
    <3> HIDE DEF e
    <3>2. e = ledger.trust.epoch + 1
      BY <2>2, <3>1, Zenon DEF e
    <3> QED BY <1>4, <1>5, <3>1, <3>2
  <2> QED BY <2>1, <2>2, Zenon
<1> HIDE DEF e
<1> QED BY <1>3, <1>4, <1>5, <1>6 DEF LeaseOK

\* Leases and trust stay within the attestations they rest on.
LEMMA LeaseInd ==
  ASSUME TypeOK, LeaseInv, TrustWithinAttestation, [Next]_vars
  PROVE  LeaseInv' /\ TrustWithinAttestation'
<1>1. /\ now \in Nat /\ (now' = now \/ now' = now + 1) /\ leases \subseteq Lease /\ ledger.gen \in Nat
      /\ ledger.trust.epoch \in Nat
  <2>1. ledger.trust \in Trust
    BY LedgerSteps, Zenon
  <2> QED BY <2>1, Movers, LedgerSteps, TrustShapes, Zenon DEF TypeOK
<1>2. \A l \in leases : /\ l.issued \in Nat /\ l.issued <= now /\ l.expires \in Nat /\ l.remote \in Nat
                        /\ l.gen \in Nat /\ l.epoch \in Nat \ {0}
                        /\ LeaseOK(l, ledger.gen, ledger.state, ledger.trust)
  BY <1>1, TrustShapes, Zenon DEF LeaseInv
<1>3. CASE UNCHANGED ledger
  <2>1. TrustWithinAttestation'
    BY <1>3, Zenon DEF TrustWithinAttestation
  <2>2. ASSUME NEW l \in leases'
        PROVE  l.issued <= now' /\ LeaseOK(l, ledger.gen, ledger.state, ledger.trust)
    <3>1. CASE l \in leases
      BY <1>1, <1>2, <3>1
    <3>2. CASE l \notin leases
      <4>1. RuntimeTrustIssue /\ now' = now
        BY <3>2, Movers, Zenon
      <4> QED BY <3>2, <4>1, Signed, Zenon
    <3> QED BY <3>1, <3>2, Zenon
  <2> QED BY <1>3, <2>1, <2>2, Zenon DEF LeaseInv
<1>4. ASSUME ledger' # ledger PROVE leases' = leases
  BY <1>4, Movers, Zenon
<1>5. ASSUME \A l \in leases : LeaseOK(l, ledger'.gen, ledger'.state, ledger'.trust), ledger' # ledger
      PROVE  LeaseInv'
  <2>1. \A l \in leases : l.issued <= now'
    BY <1>1, <1>2
  <2> QED BY <1>4, <1>5, <2>1, Zenon DEF LeaseInv
<1>6. ASSUME NEW l \in leases, l \in Lease, ledger # ledger', now' = now,
             ledger.state = "RUNNING", ledger.gen = l.gen, l.epoch = ledger.trust.epoch + 1,
             ledger' = [state |-> "RUNNING", gen |-> ledger.gen, trust |-> Binding(l)]
      PROVE  LeaseInv' /\ TrustWithinAttestation'
  <2>1. /\ ledger'.state = "RUNNING" /\ ledger'.gen = ledger.gen /\ ledger'.trust.epoch = l.epoch
        /\ ledger'.trust.lease = l /\ ledger'.trust.installed = now /\ ledger'.trust.deadline = l.expires
    BY <1>6, Bound, Zenon
  <2>2. ASSUME NEW m \in leases PROVE LeaseOK(m, ledger.gen, "RUNNING", ledger'.trust)
    BY <1>1, <1>2, <1>6, <2>1 DEF LeaseOK
  <2>3. LeaseInv'
    BY <1>5, <1>6, <2>1, <2>2, Zenon
  <2>4. l.expires <= l.remote + MaxAge /\ l.expires - now <= TTL
    BY <1>1, <1>2, Numbers DEF LeaseOK
  <2> QED BY <2>1, <2>3, <2>4, Zenon DEF TrustWithinAttestation
<1>7. ASSUME NEW s \in {"EXITED", "EXITED_UNKNOWN", "QUARANTINED"}, ledger # ledger',
             ledger' = [state |-> s, gen |-> ledger.gen, trust |-> NoTrust]
      PROVE  LeaseInv' /\ TrustWithinAttestation'
  <2>1. ledger'.state # "RUNNING" /\ ledger'.gen = ledger.gen /\ ledger'.trust.epoch = 0
    BY <1>7, Unbound, Zenon
  <2>2. ASSUME NEW m \in leases PROVE LeaseOK(m, ledger'.gen, ledger'.state, ledger'.trust)
    BY <1>2, <2>1, Zenon DEF LeaseOK
  <2> QED BY <1>5, <1>7, <2>1, <2>2, Zenon DEF TrustWithinAttestation
<1>8. ASSUME ledger' = [state |-> "RUNNING", gen |-> ledger.gen + 1, trust |-> NoTrust], ledger # ledger'
      PROVE  LeaseInv' /\ TrustWithinAttestation'
  <2>1. ledger'.gen = ledger.gen + 1 /\ ledger'.trust.epoch = 0
    BY <1>8, Unbound, Zenon
  <2>2. ASSUME NEW m \in leases PROVE LeaseOK(m, ledger'.gen, ledger'.state, ledger'.trust)
    BY <1>1, <1>2, <2>1 DEF LeaseOK
  <2> QED BY <1>5, <1>8, <2>1, <2>2, Zenon DEF TrustWithinAttestation
<1> QED BY <1>3, <1>6, <1>7, <1>8, LedgerMoves, Zenon

\* The steps that move the watchdog or sign an expiry.
LEMMA Watchers ==
  ASSUME [Next]_vars
  PROVE  \/ UNCHANGED <<watchdog, evidence>> \/ WatchdogStart \/ WatchdogLoop \/ WatchdogWake \/ Enforce
         \/ EnforcePut \/ EnforceSign \/ Reboot
<1>1. ASSUME NEW v \in {"ALLOW", "BLOCK"}, RemoteDecision(v) PROVE UNCHANGED <<watchdog, evidence>>
  BY <1>1, Zenon DEF RemoteDecision
<1>2. CASE RuntimeTrustIssue
  BY <1>2, Zenon DEF RuntimeTrustIssue
<1>3. CASE RuntimeTrustEvaluate \/ RuntimeTrustReconcile \/ RuntimeTrustExpiryReconcile
  BY <1>3, Zenon DEF RuntimeTrustEvaluate, RuntimeTrustReconcile, RuntimeTrustExpiryReconcile
<1>4. CASE ApplyVerify \/ ApplyRuntimeTrustLease
  BY <1>4, Zenon DEF ApplyVerify, ApplyRuntimeTrustLease, artifacts
<1>5. CASE ContainStart \/ ContainGet \/ ContainPut \/ ContainObserve
  BY <1>5, Zenon DEF ContainStart, ContainGet, ContainPut, ContainObserve, artifacts
<1>6. CASE ReconcileApply \/ WaitGovernedWorkload \/ StartGovernedWorkload
  BY <1>6, Zenon DEF ReconcileApply, WaitGovernedWorkload, StartGovernedWorkload, artifacts
<1>7. CASE ProcessChange \/ Tick
  BY <1>7, Zenon DEF ProcessChange, Tick, artifacts
<1>8. CASE UNCHANGED vars
  BY <1>8, Zenon DEF vars
<1> QED BY <1>1, <1>2, <1>3, <1>4, <1>5, <1>6, <1>7, <1>8, Zenon DEF Next, Watchdog

\* An expiry is enforced, and signed, on a clock that has passed.
LEMMA ExpiryInd ==
  ASSUME TypeOK, ExpiryInv, [Next]_vars
  PROVE  ExpiryInv'
<1> DEFINE Watched == watchdog.pc \in {"enforce", "put", "sign"} => watchdog.now <= now
           Witnessed == evidence # None => /\ evidence.trust.epoch > 0 /\ evidence.trust.deadline <= evidence.at
                                           /\ evidence.at <= now
<1>0. Watched /\ Witnessed /\ (Watched' /\ Witnessed' => ExpiryInv')
  BY Zenon DEF ExpiryInv
<1>1. now \in Nat /\ (now' = now \/ now' = now + 1)
  BY Movers, Zenon DEF TypeOK
<1>2. watchdog \in Watch => watchdog.now \in Nat
  BY WatchShapes, Zenon
<1>3. evidence # None => evidence.at \in Nat /\ evidence.trust.deadline \in Nat
  BY TrustShapes, Zenon DEF TypeOK, Evidence
<1>4. watchdog.pc \in {"enforce", "put", "sign"} => watchdog \in Watch
  BY WatchSteps, Zenon
<1>5. UNCHANGED watchdog => Watched'
  BY <1>0, <1>1, <1>2, <1>4
<1>6. UNCHANGED evidence => Witnessed'
  BY <1>0, <1>1, <1>3
<1>7. ASSUME watchdog'.pc \notin {"enforce", "put", "sign"} PROVE Watched'
  BY <1>7, Zenon
<1>8. ASSUME watchdog'.pc \in {"enforce", "put", "sign"}, watchdog.pc \in {"enforce", "put", "sign"},
             watchdog'.now = watchdog.now
      PROVE  Watched'
  BY <1>0, <1>1, <1>2, <1>4, <1>8
<1> HIDE DEF Watched, Witnessed
<1>9. CASE WatchdogStart
  <2>1. watchdog' = Watching("loop", ledger.gen, 0, 0, 0) /\ evidence' = evidence
    BY <1>9, Zenon DEF WatchdogStart, artifacts, Watching
  <2> QED BY <1>0, <1>6, <1>7, <2>1, Zenon DEF Watching
<1>10. CASE WatchdogLoop
  <2>1. evidence' = evidence
    BY <1>10, Zenon DEF WatchdogLoop, artifacts
  <2>2. CASE watchdog' = Watching("enforce", watchdog.gen, now, boot, watchdog.fence)
    <3>1. watchdog'.now = now
      BY <2>2, Zenon DEF Watching
    <3>2. now' = now
      BY <1>10, Zenon DEF WatchdogLoop, clock
    <3> QED BY <1>0, <1>1, <1>6, <2>1, <3>1, <3>2 DEF Watched
  <2>3. CASE watchdog' = Stopped \/ watchdog' = Watching("wait", watchdog.gen, now, watchdog.boot, watchdog.fence)
    BY <1>0, <1>6, <1>7, <2>1, <2>3, Numbers DEF Watching
  <2> QED BY <1>10, <2>2, <2>3, WatchSteps, Zenon
<1>11. CASE WatchdogWake
  <2>1. evidence' = evidence
    BY <1>11, Zenon DEF WatchdogWake, artifacts
  <2> QED BY <1>0, <1>6, <1>7, <1>11, <2>1, WatchSteps DEF Watching
<1>12. CASE Enforce
  <2>1. evidence' = evidence /\ watchdog.pc = "enforce"
    BY <1>12, Zenon DEF Enforce, artifacts
  <2>2. watchdog'.pc \notin {"enforce", "put", "sign"} \/ (watchdog'.pc = "put" /\ watchdog'.now = watchdog.now)
    <3>1. \/ watchdog' = Stopped
          \/ watchdog' = Watching("loop", watchdog.gen, watchdog.now, watchdog.boot, watchdog.fence)
          \/ watchdog' = Watching("put", watchdog.gen, watchdog.now, watchdog.boot, fence)
      BY <1>12, WatchSteps, Zenon
    <3> QED BY <3>1, Numbers DEF Watching
  <2> QED BY <1>0, <1>6, <1>7, <1>8, <2>1, <2>2, Zenon
<1>13. CASE EnforcePut
  <2>1. evidence' = evidence /\ watchdog.pc = "put"
    BY <1>13, Zenon DEF EnforcePut, artifacts
  <2>2. watchdog'.pc \notin {"enforce", "put", "sign"} \/ (watchdog'.pc = "sign" /\ watchdog'.now = watchdog.now)
    <3>1. \/ watchdog' = Stopped
          \/ watchdog' = Watching("sign", watchdog.gen, watchdog.now, watchdog.boot, watchdog.fence)
      BY <1>13, WatchSteps, Zenon
    <3> QED BY <3>1, Numbers DEF Watching
  <2> QED BY <1>0, <1>6, <1>7, <1>8, <2>1, <2>2, Zenon
<1>14. CASE EnforceSign
  <2>1. /\ watchdog.pc = "sign" /\ watchdog' = Stopped /\ now' = now /\ ValidateRuntimeTrustExpiryEvidence(evidence')
        /\ evidence' = [gen |-> ledger.gen, trust |-> ledger.trust, process |-> ProcessState,
                        revocation |-> watchdog.fence + 1, at |-> watchdog.now]
    BY <1>14, Zenon DEF EnforceSign, clock
  <2>2. evidence'.at = watchdog.now /\ evidence'.trust = ledger.trust
    BY <2>1, Zenon
  <2>3. watchdog.now \in Nat /\ watchdog.now <= now /\ ledger.trust.deadline \in Nat
    BY <1>0, <1>2, <1>4, <2>1, LedgerSteps, TrustShapes, Zenon DEF Watched
  <2>4. evidence'.trust.epoch > 0 /\ evidence'.at >= evidence'.trust.deadline
    BY <2>1, Zenon DEF ValidateRuntimeTrustExpiryEvidence
  <2>5. Witnessed'
    BY <2>1, <2>2, <2>3, <2>4, Zenon DEF Witnessed
  <2> QED BY <1>0, <1>7, <2>1, <2>5, Numbers, Zenon
<1>15. CASE Reboot
  <2>1. evidence' = evidence /\ watchdog' = Off
    BY <1>15, Zenon DEF Reboot, artifacts
  <2> QED BY <1>0, <1>6, <1>7, <2>1, Numbers, Zenon
<1>16. CASE UNCHANGED <<watchdog, evidence>>
  BY <1>0, <1>5, <1>6, <1>16, Zenon
<1> QED BY <1>9, <1>10, <1>11, <1>12, <1>13, <1>14, <1>15, <1>16, Watchers, Zenon

\* In a step that leaves the generation running, trust stays or is bound anew: on
\* the next epoch and a newer attestation, before the deadline it replaces.
LEMMA TrustStep ==
  ASSUME TypeOK, LeaseInv, [Next]_vars, ledger'.gen = ledger.gen, ledger'.state = "RUNNING",
         ledger'.trust # ledger.trust
  PROVE  /\ ledger'.trust.epoch = ledger.trust.epoch + 1
         /\ ledger.trust.epoch # 0 => ledger'.trust.lease.remote > ledger.trust.lease.remote
         /\ InTime(ledger.trust)
<1>1. ASSUME NEW s \in {"EXITED", "EXITED_UNKNOWN", "QUARANTINED"},
             ledger' = [state |-> s, gen |-> ledger.gen, trust |-> NoTrust]
      PROVE  FALSE
  BY <1>1, Unbound, Zenon
<1>2. ASSUME ledger' = [state |-> "RUNNING", gen |-> ledger.gen + 1, trust |-> NoTrust] PROVE FALSE
  <2>1. ledger.gen \in Nat /\ ledger'.gen = ledger.gen + 1
    BY <1>2, LedgerSteps, Unbound, Zenon
  <2> QED BY <2>1
<1>3. PICK l \in leases :
        /\ l \in Lease /\ ledger.state = "RUNNING" /\ ledger.gen = l.gen
        /\ l.epoch = ledger.trust.epoch + 1 /\ InTime(ledger.trust)
        /\ ledger' = [state |-> "RUNNING", gen |-> ledger.gen, trust |-> Binding(l)]
  BY <1>1, <1>2, LedgerMoves, Zenon
<1>4. ledger'.trust.epoch = l.epoch /\ ledger'.trust.lease = l
  BY <1>3, Bound, Zenon
<1>5. ledger.trust.epoch # 0 => l.remote > ledger.trust.lease.remote
  BY <1>3, Zenon DEF LeaseInv, LeaseOK
<1> QED BY <1>3, <1>4, <1>5, Zenon

-----------------------------------------------------------------------------
(* Revocation.                                                             *)

\* The steps that move what the revocation is about.
LEMMA Revokings ==
  ASSUME TypeOK, [Next]_vars
  PROVE  \/ /\ UNCHANGED <<fence, capsule, decision, observation, evidence, recon, contain, watchdog>>
            /\ ledger'.gen = ledger.gen
         \/ RuntimeTrustEvaluate \/ ContainStart \/ ContainGet \/ ContainPut \/ ContainObserve
         \/ WatchdogStart \/ WatchdogLoop \/ WatchdogWake \/ Enforce \/ EnforcePut \/ EnforceSign
         \/ RuntimeTrustReconcile \/ RuntimeTrustExpiryReconcile \/ StartGovernedWorkload \/ Reboot
<1>1. ASSUME NEW v \in {"ALLOW", "BLOCK"}, RemoteDecision(v)
      PROVE  UNCHANGED <<fence, capsule, decision, observation, evidence, recon, contain, watchdog, ledger>>
  BY <1>1, Zenon DEF RemoteDecision, kernel
<1>2. CASE RuntimeTrustIssue
  BY <1>2, Zenon DEF RuntimeTrustIssue, kernel
<1>3. CASE ApplyVerify \/ ProcessChange \/ Tick
  BY <1>3, Zenon DEF ApplyVerify, ProcessChange, Tick, artifacts, kernel
<1>4. CASE ApplyRuntimeTrustLease \/ ReconcileApply \/ WaitGovernedWorkload
  <2>1. UNCHANGED <<fence, capsule, decision, observation, evidence, recon, contain, watchdog>>
    BY <1>4, Zenon DEF ApplyRuntimeTrustLease, ReconcileApply, WaitGovernedWorkload, artifacts, kernel
  <2>2. ledger'.gen = ledger.gen
    BY <1>4, LedgerSteps
  <2> QED BY <2>1, <2>2, Zenon
<1>5. CASE UNCHANGED vars
  BY <1>5, Zenon DEF vars
<1> QED BY <1>1, <1>2, <1>3, <1>4, <1>5, Zenon DEF Next, Watchdog

\* The numbers that the revocation compares.
LEMMA RevokeTypes ==
  ASSUME TypeOK
  PROVE  /\ fence \in Nat /\ capsule \in Nat /\ ledger.gen \in Nat
         /\ decision # None => decision.gen \in Nat
         /\ observation # None => observation.gen \in Nat
         /\ evidence # None => evidence.gen \in Nat
         /\ recon # None => recon.gen \in Nat
         /\ contain # Off => contain.fence \in Nat /\ contain.decision.gen \in Nat
         /\ watchdog \in Watch => watchdog.fence \in Nat
<1>1. fence \in Nat /\ capsule \in Nat /\ ledger.gen \in Nat
  BY LedgerSteps, Zenon DEF TypeOK
<1>2. decision # None => decision.gen \in Nat
  BY Zenon DEF TypeOK, Decision
<1>3. observation # None => observation.gen \in Nat
  BY Zenon DEF TypeOK, Observation
<1>4. evidence # None => evidence.gen \in Nat
  BY Zenon DEF TypeOK, Evidence
<1>5. recon # None => recon.gen \in Nat
  BY Zenon DEF TypeOK, Reconciliation
<1>6. contain # Off => contain.fence \in Nat /\ contain.decision.gen \in Nat
  <2>1. contain # Off => contain.fence \in Nat /\ contain.decision \in Decision
    BY ContainSteps, ContainShapes, Zenon
  <2> QED BY <2>1, Zenon DEF Decision
<1>7. watchdog \in Watch => watchdog.fence \in Nat
  BY WatchShapes, Zenon
<1> QED BY <1>1, <1>2, <1>3, <1>4, <1>5, <1>6, <1>7, Zenon

\* Every step keeps the revocations in order.
LEMMA RevokeInd ==
  ASSUME TypeOK, TypeOK', RevokeInv, [Next]_vars
  PROVE  RevokeInv'
<1>0. /\ fence \in Nat /\ capsule \in Nat /\ ledger.gen \in Nat
      /\ decision # None => decision.gen \in Nat
      /\ observation # None => observation.gen \in Nat
      /\ evidence # None => evidence.gen \in Nat
      /\ recon # None => recon.gen \in Nat
      /\ contain # Off => contain.fence \in Nat /\ contain.decision.gen \in Nat
      /\ watchdog \in Watch => watchdog.fence \in Nat
  BY RevokeTypes, Zenon
<1>1. CASE /\ UNCHANGED <<fence, capsule, decision, observation, evidence, recon, contain, watchdog>>
           /\ ledger'.gen = ledger.gen
  BY <1>1 DEF RevokeInv, Artifacts, About, ContainInv, PutOK, WatchdogInv
<1>2. CASE RuntimeTrustEvaluate
  <2>1. UNCHANGED <<fence, capsule, observation, evidence, recon, contain, watchdog, ledger>>
    BY <1>2, Zenon DEF RuntimeTrustEvaluate, kernel
  <2>2. decision'.gen = ledger.gen
    <3>1. \E l, o : decision' = [gen |-> ledger.gen, lease |-> l, outcome |-> o, at |-> now]
      BY <1>2, Zenon DEF RuntimeTrustEvaluate, EvaluateRuntimeTrust
    <3> QED BY <3>1
  <2> QED BY <1>0, <2>1, <2>2 DEF RevokeInv, Artifacts, About, ContainInv, PutOK, WatchdogInv
<1>3. CASE ContainStart
  <2>1. UNCHANGED <<fence, capsule, decision, observation, evidence, recon, watchdog, ledger>>
    BY <1>3, Zenon DEF ContainStart, artifacts, kernel
  <2>2. contain'.pc = "get" /\ contain'.decision = decision /\ decision # None
    BY <1>3, Zenon DEF ContainStart
  <2> QED BY <1>0, <2>1, <2>2, Zenon DEF RevokeInv, Artifacts, About, ContainInv, PutOK, WatchdogInv
<1>4. CASE ContainGet
  <2>1. /\ UNCHANGED <<fence, capsule, decision, observation, evidence, recon, watchdog, ledger>>
        /\ contain.pc = "get"
    BY <1>4, Zenon DEF ContainGet, artifacts, kernel
  <2>2. \/ contain' = Off
        \/ contain'.pc = "put" /\ contain'.decision = contain.decision /\ contain'.fence = fence
    <3>1. contain' = Off \/ contain' = Containing("put", contain.decision, contain.at, fence)
      BY <1>4, ContainSteps, Zenon
    <3> QED BY <3>1 DEF Containing
  <2>3. watchdog.pc = "put" => watchdog \in Watch
    BY WatchSteps, Zenon
  <2> QED BY <1>0, <2>1, <2>2, <2>3, Numbers DEF RevokeInv, Artifacts, About, ContainInv, PutOK, WatchdogInv
<1>5. CASE ContainPut
  <2>1. UNCHANGED <<capsule, decision, observation, evidence, recon, watchdog, ledger>> /\ contain.pc = "put"
    BY <1>5, Zenon DEF ContainPut, artifacts
  <2>2. \/ contain' = Off /\ fence' = fence
        \/ /\ contain'.pc = "observe" /\ contain'.decision = contain.decision
           /\ fence' = contain.fence + 1
    <3>1. contain \in Containment
      BY <2>1, ContainSteps, Zenon
    <3>2. \/ fence' = contain.fence + 1 /\ contain' = [contain EXCEPT !.pc = "observe"]
          \/ contain' = Off /\ fence' = fence
      BY <1>5, Zenon DEF ContainPut
    <3>3. \A p : [contain EXCEPT !.pc = p] = Containing(p, contain.decision, contain.at, contain.fence)
      BY <3>1, ContainShapes, Zenon
    <3>4. \/ fence' = contain.fence + 1 /\ contain' = Containing("observe", contain.decision, contain.at, contain.fence)
          \/ contain' = Off /\ fence' = fence
      BY <3>2, <3>3, Zenon
    <3> QED BY <3>4 DEF Containing
  <2>3. watchdog.pc \in {"put", "sign"} => watchdog \in Watch
    BY WatchSteps, Zenon
  <2> QED BY <1>0, <2>1, <2>2, <2>3, Numbers DEF RevokeInv, Artifacts, About, ContainInv, PutOK, WatchdogInv
<1>6. CASE ContainObserve
  <2>1. /\ UNCHANGED <<fence, capsule, decision, evidence, recon, watchdog, ledger>>
        /\ contain.pc = "observe" /\ contain' = Off
    BY <1>6, Zenon DEF ContainObserve, kernel
  <2>2. observation' = observation \/ observation'.gen = contain.decision.gen
    BY <1>6, Zenon DEF ContainObserve
  <2> QED BY <1>0, <2>1, <2>2, Numbers, Zenon DEF RevokeInv, Artifacts, About, ContainInv, PutOK, WatchdogInv
<1>7. CASE WatchdogStart
  <2>1. /\ UNCHANGED <<fence, capsule, decision, observation, evidence, recon, contain, ledger>>
        /\ watchdog = Off /\ watchdog'.pc = "loop"
    BY <1>7, Zenon DEF WatchdogStart, artifacts, kernel
  <2> QED BY <1>0, <2>1, Numbers, Zenon DEF RevokeInv, Artifacts, About, ContainInv, PutOK, WatchdogInv
<1>8. ASSUME UNCHANGED <<fence, capsule, decision, observation, evidence, recon, contain, ledger>>,
             watchdog.pc \in {"loop", "wait", "enforce", "put"},
             watchdog'.pc \in {"loop", "wait", "enforce", "stopped"}
      PROVE  RevokeInv'
  BY <1>0, <1>8 DEF RevokeInv, Artifacts, About, ContainInv, PutOK, WatchdogInv
<1>9. CASE WatchdogLoop
  <2>1. /\ UNCHANGED <<fence, capsule, decision, observation, evidence, recon, contain, ledger>>
        /\ watchdog.pc = "loop"
    BY <1>9, Zenon DEF WatchdogLoop, artifacts, kernel
  <2>2. watchdog'.pc \in {"wait", "enforce", "stopped"}
    <3>1. \/ watchdog' = Stopped
          \/ watchdog' = Watching("enforce", watchdog.gen, now, boot, watchdog.fence)
          \/ watchdog' = Watching("wait", watchdog.gen, now, watchdog.boot, watchdog.fence)
      BY <1>9, WatchSteps, Zenon
    <3> QED BY <3>1, Numbers DEF Watching
  <2> QED BY <1>8, <2>1, <2>2, Zenon
<1>10. CASE WatchdogWake
  <2>1. /\ UNCHANGED <<fence, capsule, decision, observation, evidence, recon, contain, ledger>>
        /\ watchdog.pc = "wait"
    BY <1>10, Zenon DEF WatchdogWake, artifacts, kernel
  <2>2. watchdog'.pc = "loop"
    <3>1. watchdog' = Watching("loop", watchdog.gen, watchdog.now, watchdog.boot, watchdog.fence)
      BY <1>10, WatchSteps, Zenon
    <3> QED BY <3>1, Zenon DEF Watching
  <2> QED BY <1>8, <2>1, <2>2, Zenon
<1>11. CASE Enforce
  <2>1. /\ UNCHANGED <<fence, capsule, decision, observation, evidence, recon, contain, ledger>>
        /\ watchdog.pc = "enforce"
    BY <1>11, Zenon DEF Enforce, artifacts, kernel
  <2>2. \/ watchdog'.pc \in {"loop", "stopped"}
        \/ watchdog'.pc = "put" /\ watchdog'.fence = fence
    <3>1. \/ watchdog' = Stopped
          \/ watchdog' = Watching("loop", watchdog.gen, watchdog.now, watchdog.boot, watchdog.fence)
          \/ watchdog' = Watching("put", watchdog.gen, watchdog.now, watchdog.boot, fence)
      BY <1>11, WatchSteps, Zenon
    <3> QED BY <3>1, Numbers DEF Watching
  <2>3. CASE watchdog'.pc = "put" /\ watchdog'.fence = fence
    BY <1>0, <2>1, <2>3, Numbers DEF RevokeInv, Artifacts, About, ContainInv, PutOK, WatchdogInv
  <2> QED BY <1>8, <2>1, <2>2, <2>3, Zenon
<1>12. CASE EnforcePut
  <2>1. /\ UNCHANGED <<capsule, decision, observation, evidence, recon, contain, ledger>>
        /\ watchdog.pc = "put"
    BY <1>12, Zenon DEF EnforcePut, artifacts
  <2>2. \/ watchdog'.pc = "stopped" /\ fence' = fence
        \/ watchdog'.pc = "sign" /\ fence' = watchdog.fence + 1
    <3>1. \/ watchdog' = Stopped /\ fence' = fence
          \/ /\ watchdog' = Watching("sign", watchdog.gen, watchdog.now, watchdog.boot, watchdog.fence)
             /\ fence' = watchdog.fence + 1
      BY <1>12, WatchSteps, Zenon
    <3> QED BY <3>1, Numbers DEF Watching
  <2>3. watchdog \in Watch
    BY <2>1, WatchSteps, Zenon
  <2>4. CASE watchdog'.pc = "sign" /\ fence' = watchdog.fence + 1
    BY <1>0, <2>1, <2>3, <2>4, Numbers DEF RevokeInv, Artifacts, About, ContainInv, PutOK, WatchdogInv
  <2> QED BY <1>8, <2>1, <2>2, <2>4, Zenon
<1>13. CASE EnforceSign
  <2>1. /\ UNCHANGED <<fence, capsule, decision, observation, recon, contain, ledger>>
        /\ watchdog.pc = "sign" /\ watchdog' = Stopped
    BY <1>13, Zenon DEF EnforceSign, kernel
  <2>2. evidence'.gen = ledger.gen
    BY <1>13, Zenon DEF EnforceSign
  <2> QED BY <1>0, <2>1, <2>2, Numbers DEF RevokeInv, Artifacts, About, ContainInv, PutOK, WatchdogInv
<1>14. CASE RuntimeTrustReconcile
  <2>1. /\ UNCHANGED <<fence, capsule, decision, observation, evidence, contain, watchdog, ledger>>
        /\ observation # None /\ observation.gen = ledger.gen
    BY <1>14, Zenon DEF RuntimeTrustReconcile, kernel
  <2>2. recon'.gen = ledger.gen
    BY <1>14, Zenon DEF RuntimeTrustReconcile
  <2> QED BY <1>0, <2>1, <2>2, Zenon DEF RevokeInv, Artifacts, About, ContainInv, PutOK, WatchdogInv
<1>15. CASE RuntimeTrustExpiryReconcile
  <2>1. /\ UNCHANGED <<fence, capsule, decision, observation, evidence, contain, watchdog, ledger>>
        /\ evidence # None /\ evidence.gen = ledger.gen
    BY <1>15, Zenon DEF RuntimeTrustExpiryReconcile, kernel
  <2>2. recon'.gen = ledger.gen
    BY <1>15, Zenon DEF RuntimeTrustExpiryReconcile
  <2> QED BY <1>0, <2>1, <2>2, Zenon DEF RevokeInv, Artifacts, About, ContainInv, PutOK, WatchdogInv
<1>16. CASE StartGovernedWorkload
  <2>1. /\ UNCHANGED <<fence, decision, observation, evidence, recon, contain, watchdog>> /\ capsule' = fence
        /\ ~lock
    BY <1>16, Zenon DEF StartGovernedWorkload, artifacts
  <2>2. ledger'.gen = ledger.gen + 1
    BY <1>16, Zenon DEF StartGovernedWorkload
  <2>3. watchdog.pc \notin {"put", "sign"}
    BY <2>1, Zenon DEF TypeOK
  <2>4. contain.pc \in {"put", "observe"} => contain # Off
    BY Numbers, Zenon
  <2> QED BY <1>0, <2>1, <2>2, <2>3, <2>4 DEF RevokeInv, Artifacts, About, ContainInv, PutOK, WatchdogInv
<1>17. CASE Reboot
  <2>1. /\ UNCHANGED <<fence, capsule, decision, observation, evidence, recon, ledger>>
        /\ contain' = Off /\ watchdog' = Off
    BY <1>17, Zenon DEF Reboot, artifacts, kernel
  <2> QED BY <1>0, <2>1, Numbers, Zenon DEF RevokeInv, Artifacts, About, ContainInv, PutOK, WatchdogInv
<1> QED BY Zenon, <1>1, <1>2, <1>3, <1>4, <1>5, <1>6, <1>7, <1>9, <1>10, <1>11, <1>12, <1>13, <1>14, <1>15, <1>16,
           <1>17, Revokings, Zenon

-----------------------------------------------------------------------------
(* The theorems.                                                           *)

\* The invariant holds initially.
LEMMA IndInvInit == Init => IndInv
<1> SUFFICES ASSUME Init PROVE IndInv
  BY Zenon
<1>1. ledger.state = "RUNNING" /\ ledger.gen = 1 /\ ledger.trust = NoTrust
  BY Zenon DEF Init
<1>2. TypeOK
  <2>1. ledger \in Ledger /\ ValidateTrust(ledger)
    BY <1>1, TrustShapes, Zenon DEF Init, Ledger, ValidateTrust
  <2>2. watchdog \in Watch \cup {Off, Stopped} /\ lock \in BOOLEAN /\ (lock <=> watchdog.pc \in {"put", "sign"})
    BY Numbers, Zenon DEF Init
  <2> QED BY <2>1, <2>2 DEF Init, TypeOK
<1>3. TrustWithinAttestation /\ LeaseInv
  BY <1>1, TrustShapes, Zenon DEF Init, TrustWithinAttestation, LeaseInv
<1>4. ExpiryInv
  BY Numbers, Zenon DEF Init, ExpiryInv
<1>5. RevokeInv
  BY Numbers DEF Init, RevokeInv, Artifacts, About, ContainInv, WatchdogInv
<1> QED BY <1>2, <1>3, <1>4, <1>5, Zenon DEF IndInv

\* Every step keeps the invariant.
LEMMA IndInvNext == IndInv /\ [Next]_vars => IndInv'
BY TypeInd, LeaseInd, ExpiryInd, RevokeInd, Zenon DEF IndInv

\* For any policy and any instance: trust in force lies within its attestation,
\* and a generation is reconciled for lost trust (RuntimeTrustReconcile,
\* RuntimeTrustExpiryReconcile) only after the containment or the watchdog has
\* revoked its scope, although both read the fence before they write it.
THEOREM LostTrust == Spec => []LostTrustIsRevoked
<1>1. IndInv => LostTrustIsRevoked
  BY Zenon DEF IndInv, LostTrustIsRevoked, RevokeInv, Artifacts, About, RevokedBeforeReconciled
<1> QED BY <1>1, IndInvInit, IndInvNext, PTL DEF Spec

\* A renewal advances the trust of a generation by one lease on a newer
\* attestation, and ApplyRuntimeTrustLease never replaces a lease whose expiry the
\* watchdog has signed.
THEOREM Renewals == Spec => RenewalNeverRevives
<1> DEFINE Advances == ledger'.gen = ledger.gen /\ ledger'.state = "RUNNING" /\ ledger'.trust # ledger.trust =>
                         /\ ledger'.trust.epoch = ledger.trust.epoch + 1
                         /\ ledger.trust.epoch # 0 => ledger'.trust.lease.remote > ledger.trust.lease.remote
           Final == evidence # None /\ evidence.gen = ledger.gen /\ evidence.trust = ledger.trust
                    /\ ledger'.gen = ledger.gen /\ ledger'.state = "RUNNING" => ledger'.trust = ledger.trust
<1>1. IndInv /\ [Next]_vars => [Advances]_vars
  BY TrustStep, Zenon DEF IndInv
<1>2. IndInv /\ [Next]_vars => [Final]_vars
  <2> SUFFICES ASSUME IndInv, [Next]_vars, evidence # None, evidence.trust = ledger.trust,
                      ledger'.gen = ledger.gen, ledger'.state = "RUNNING", ledger'.trust # ledger.trust
               PROVE  FALSE
    BY Zenon
  <2>1. InTime(ledger.trust)
    BY TrustStep, Zenon DEF IndInv
  <2>2. /\ ledger.trust.epoch > 0 /\ ledger.trust.deadline <= evidence.at /\ evidence.at <= now
        /\ ledger.trust.deadline \in Nat /\ evidence.at \in Nat /\ now \in Nat /\ ledger.trust.epoch \in Nat
    BY LedgerSteps, TrustShapes, Zenon DEF IndInv, ExpiryInv, TypeOK, Evidence
  <2> QED BY <2>1, <2>2 DEF InTime
<1> HIDE DEF Advances, Final
<1>3. Spec => [][Advances]_vars /\ [][Final]_vars
  BY <1>1, <1>2, IndInvInit, IndInvNext, PTL DEF Spec
<1> QED BY <1>3, Zenon DEF RenewalNeverRevives, TrustAdvances, EnforcedIsFinal, Advances, Final
=============================================================================
