------------------------ MODULE ExecutionLeaseProofs ------------------------
(***************************************************************************)
(* Proofs about ExecutionLease, for any set of runs, any Duration and any  *)
(* bounds: the lock excludes for the Duration of an acknowledged write,    *)
(* only its holder deletes a Lease, and renewals never set it back.  First *)
(* what the steps have in common: a step that leaves the Lease alone, one  *)
(* that writes it and one that deletes it.                                 *)
(***************************************************************************)
EXTENDS ExecutionLease, TLAPS

\* Threads are pairs; the proofs use these facts and leave the pairs folded.
LEMMA ThreadFacts ==
  /\ \A h \in Holders : /\ Main(h) \in Threads /\ Loop(h) \in Threads
                        /\ Main(h)[1] = h /\ Main(h)[2] = "main"
                        /\ Loop(h)[1] = h /\ Loop(h)[2] = "loop"
  /\ \A g, h \in Holders : Main(g) # Loop(h)
  /\ \A t \in Threads : /\ t[1] \in Holders
                        /\ \/ t[2] = "main" /\ t = Main(t[1])
                           \/ t[2] = "loop" /\ t = Loop(t[1])
BY DEF Threads, Main, Loop

WriteType == [base : Nat, holder : Holders \cup {None}, renew : Nat]

\* The invariant holds before any run has started.
LEMMA InitInd == Init => IndInv
<1> SUFFICES ASSUME Init PROVE IndInv
  BY Zenon
<1> USE NoneAssumption, DurationAssumption, ThreadFacts
<1>1. TypeOK
  BY DEF Init, TypeOK, Absent, NoCall, Locals, LeaseType, MainLabels, LoopLabels
<1>2. TimesAndVersions /\ WritesAreChecked /\ OrphansAreHarmless
  BY DEF Init, TimesAndVersions, WritesAreChecked, OrphansAreHarmless, Absent, NoCall, LoopLabels
<1>3. NotYetHolders /\ WindowsHold
  BY Zenon DEF Init, NotYetHolders, WindowsHold, Absent, NoCall, Working
<1> QED
  BY <1>1, <1>2, <1>3, Zenon DEF IndInv

\* Thread t may move to label l with locals c: it remembers the Lease as it is or
\* what it remembered before, and what the label promises has been checked.
Earned(t, l, c) ==
  /\ c \in Locals /\ c.now <= clock
  /\ c.seen = lease \/ c.seen = call[t].seen \/ c.seen = Absent
  /\ t[2] = "main" => l \in MainLabels
  /\ t[2] = "loop" => l \in LoopLabels
  /\ l \in BeforeLabels => pc[t] \in BeforeLabels
  /\ pc[t] = "done" => l = "done"
  /\ pc[t] = "off" => l = "off"
  /\ t[2] = "main" => (l \in BeforeLabels \cup {"done"} \/ Working(t[1]))
  /\ l = "acquireWrite" => c.seen.rv = 0 \/ c.seen.holder = t[1] \/ Expired(c.seen, clock)
  /\ l \in {"renewStamp", "renewWrite", "releaseDelete"} => c.seen.holder = t[1]
  /\ l = "renewStamp" => c.seen.renew <= clock
  /\ l = "renewWrite" => c.seen.renew <= c.now

\* The writes a step abandons are harmless.
AbandonsHarmless ==
  \A w \in orphans' \ orphans :
    /\ w \in WriteType
    /\ w.holder # None => pc'[Main(w.holder)] \notin BeforeLabels
    /\ Harmless(w)'

\* A step that gives up no write abandons nothing harmful.
LEMMA NothingAbandoned == UNCHANGED orphans => AbandonsHarmless
BY Zenon DEF AbandonsHarmless

\* A step of one thread that leaves the Lease alone preserves the invariant.
LEMMA QuietStep ==
  ASSUME IndInv,
         NEW t \in Threads, NEW l, NEW c, Earned(t, l, c), AbandonsHarmless,
         UNCHANGED <<lease, top, clock, confirmed>>,
         pc' = [pc EXCEPT ![t] = l],
         call' = [call EXCEPT ![t] = c],
         lost' \in [Holders -> BOOLEAN], cancelled' \in [Holders -> BOOLEAN], faults' \in Nat
  PROVE  IndInv'
<1> USE NoneAssumption, DurationAssumption, ThreadFacts DEF Earned, AbandonsHarmless
<1>1. TypeOK'
  <2>1. \A w \in orphans' : w \in WriteType
    BY Zenon DEF IndInv, TypeOK, WriteType
  <2> QED
    BY <2>1 DEF IndInv, TypeOK, WriteType, MainLabels, LoopLabels
<1>2. TimesAndVersions'
  BY DEF IndInv, TypeOK, TimesAndVersions, Locals, LeaseType, Absent
<1>3. WritesAreChecked'
  BY DEF IndInv, TypeOK, WritesAreChecked, Locals, LeaseType, Expired
<1>4. OrphansAreHarmless'
  <2> SUFFICES ASSUME NEW w \in orphans' PROVE Harmless(w)'
    BY Zenon DEF OrphansAreHarmless
  <2>1. CASE w \in orphans
    <3>1. Harmless(w) /\ w \in WriteType
      BY <2>1, Zenon DEF IndInv, OrphansAreHarmless, TypeOK, WriteType
    <3>2. \A h \in Holders : pc[Main(h)] = "done" => pc'[Main(h)] = "done"
      BY DEF IndInv, TypeOK
    <3>3. lease \in LeaseType /\ (lease.holder = None => lease.rv = 0)
      BY Zenon DEF IndInv, TypeOK
    <3> QED
      BY <3>1, <3>2, <3>3, Zenon DEF Harmless, Expired, WriteType, LeaseType
  <2> QED
    BY <2>1, Zenon
<1>5. NotYetHolders'
  <2> SUFFICES ASSUME NEW h \in Holders, pc'[Main(h)] \in BeforeLabels
               PROVE  /\ lease.holder # h
                      /\ pc'[Loop(h)] = "off"
                      /\ \A w \in orphans' : w.holder # h
                      /\ \A u \in Threads : call'[u].seen.holder # h
    BY Zenon DEF NotYetHolders
  <2>1. pc[Main(h)] \in BeforeLabels
    BY Zenon DEF IndInv, TypeOK
  <2>2. lease.holder # h /\ pc'[Loop(h)] = "off"
    BY <2>1 DEF IndInv, TypeOK, NotYetHolders
  <2>3. ASSUME NEW w \in orphans' PROVE w.holder # h
    BY <2>1 DEF IndInv, NotYetHolders
  <2>4. ASSUME NEW u \in Threads PROVE call'[u].seen.holder # h
    BY <2>1 DEF IndInv, TypeOK, NotYetHolders, Absent
  <2> QED
    BY <2>2, <2>3, <2>4, Zenon
<1>6. WindowsHold'
  BY DEF IndInv, TypeOK, WindowsHold, Working, BeforeLabels
<1> QED
  BY <1>1, <1>2, <1>3, <1>4, <1>5, <1>6, Zenon DEF IndInv

\* In a step that writes the Lease the threads that move return from their call.
ThreadsMoved ==
  \A u \in Threads :
    /\ call'[u] \in {call[u], NoCall}
    /\ \/ pc'[u] = pc[u] /\ call'[u] = call[u]
       \/ u[2] = "main" /\ pc'[u] \in {"holding", "checked"}
       \/ u[2] = "loop" /\ pc'[u] = "ticking"

RunsMoved(w) ==
  \A h \in Holders :
    /\ pc[Main(h)] = "done" => pc'[Main(h)] = "done"
    /\ pc'[Main(h)] \in BeforeLabels => h # w.holder /\ pc'[Loop(h)] = pc[Loop(h)]
    /\ Working(h)' => Working(h) \/ (h = w.holder /\ confirmed'[h] = w.renew)
    /\ confirmed'[h] = confirmed[h] \/ (h = w.holder /\ confirmed'[h] = w.renew)

\* A write that is accepted and harmless preserves the invariant, whether the
\* thread that asked for it is told (its window then begins at the time it
\* stored) or has given up on it.
LEMMA StoreStep ==
  ASSUME IndInv,
         NEW w \in WriteType, w.holder # None, w.renew <= clock,
         Accepts(w), Store(w),
         \/ lease.holder = w.holder /\ lease.renew <= w.renew
         \/ /\ lease.rv = 0 \/ Expired(lease, clock)
            /\ Working(w.holder)' => confirmed'[w.holder] = w.renew,
         orphans' \subseteq orphans, UNCHANGED <<clock, lost, cancelled>>, faults' \in Nat,
         pc' \in [Threads -> MainLabels \cup LoopLabels],
         call' \in [Threads -> Locals],
         confirmed' \in [Holders -> Nat],
         ThreadsMoved, RunsMoved(w)
  PROVE  IndInv'
<1> USE NoneAssumption, DurationAssumption, ThreadFacts DEF ThreadsMoved, RunsMoved
<1>1. lease' = [rv |-> top + 1, holder |-> w.holder, renew |-> w.renew] /\ top' = top + 1
  BY Zenon DEF Store
<1>2. lease'.rv = top + 1 /\ lease'.holder = w.holder /\ lease'.renew = w.renew /\ lease' \in LeaseType
  BY <1>1 DEF WriteType, LeaseType, IndInv, TypeOK
<1>3. TypeOK'
  <2>1. /\ lease' \in LeaseType /\ top' \in Nat /\ lease'.rv <= top'
        /\ lease'.rv # 0 /\ lease'.holder # None
    BY <1>1, <1>2 DEF IndInv, TypeOK, WriteType
  <2>2. \A h \in Holders : pc'[Main(h)] \in MainLabels /\ pc'[Loop(h)] \in LoopLabels
    BY SMTT(30) DEF IndInv, TypeOK, MainLabels, LoopLabels
  <2> QED
    BY <2>1, <2>2, Zenon DEF IndInv, TypeOK
<1>4. TimesAndVersions'
  <2> SUFFICES ASSUME NEW u \in Threads
               PROVE  /\ lease'.renew <= clock
                      /\ call'[u].now <= clock
                      /\ call'[u].seen.rv <= top'
                      /\ call'[u].seen.rv = lease'.rv => call'[u].seen = lease'
                      /\ call'[u].seen.rv = 0 => call'[u].seen = Absent
    BY <1>2, Zenon DEF TimesAndVersions, IndInv, TypeOK, Absent
  <2>1. /\ call[u] \in Locals /\ top \in Nat /\ clock \in Nat
        /\ call[u].now <= clock /\ call[u].seen.rv <= top
        /\ call[u].seen.rv = 0 => call[u].seen = Absent
    BY DEF IndInv, TypeOK, TimesAndVersions
  <2>2. CASE call'[u] = call[u]
    BY <1>1, <1>2, <2>1, <2>2, SMTT(30) DEF Locals, LeaseType, Absent
  <2>3. CASE call'[u] = NoCall
    BY <1>1, <1>2, <2>1, <2>3 DEF NoCall, Absent
  <2> QED
    BY <2>2, <2>3, Zenon
<1>5. WritesAreChecked'
  <2> SUFFICES ASSUME NEW u \in Threads
               PROVE  /\ u[2] = "loop" => pc'[u] \in LoopLabels
                      /\ pc'[u] = "acquireWrite" => call'[u].seen.rv = 0 \/ call'[u].seen.holder = u[1]
                                                     \/ Expired(call'[u].seen, clock)
                      /\ pc'[u] \in {"renewStamp", "renewWrite", "releaseDelete"} =>
                           call'[u].seen.holder = u[1]
                      /\ pc'[u] = "renewStamp" => call'[u].seen.renew <= clock
                      /\ pc'[u] = "renewWrite" => call'[u].seen.renew <= call'[u].now
    BY Zenon DEF WritesAreChecked, Expired
  <2> QED
    BY DEF IndInv, WritesAreChecked, LoopLabels
<1>6. OrphansAreHarmless'
  <2> SUFFICES ASSUME NEW v \in orphans PROVE Harmless(v)'
    BY Zenon DEF OrphansAreHarmless
  <2>1. Harmless(v) /\ v \in WriteType
    BY Zenon DEF IndInv, OrphansAreHarmless, TypeOK, WriteType
  <2>2. v.base < lease'.rv /\ top \in Nat
    BY <1>2, <2>1 DEF Harmless, WriteType, IndInv, TypeOK
  <2> QED
    BY <1>1, <2>1, <2>2 DEF Harmless, WriteType
<1>7. NotYetHolders'
  <2> SUFFICES ASSUME NEW h \in Holders, pc'[Main(h)] \in BeforeLabels
               PROVE  /\ lease'.holder # h
                      /\ pc'[Loop(h)] = "off"
                      /\ \A v \in orphans' : v.holder # h
                      /\ \A u \in Threads : call'[u].seen.holder # h
    BY Zenon DEF NotYetHolders
  <2>1. pc[Main(h)] \in BeforeLabels
    BY Zenon DEF BeforeLabels
  <2>2. ASSUME NEW u \in Threads PROVE call'[u].seen.holder # h
    BY <2>1 DEF IndInv, NotYetHolders, NoCall, Absent
  <2> QED
    BY <1>2, <2>1, <2>2 DEF IndInv, NotYetHolders
<1>8. WindowsHold'
  <2> SUFFICES ASSUME NEW h \in Holders, Working(h)'
               PROVE  /\ confirmed'[h] <= clock
                      /\ lease'.holder = h => confirmed'[h] <= lease'.renew
                      /\ clock < confirmed'[h] + Duration => lease'.holder = h
    BY SMTT(30) DEF WindowsHold
  <2>1. lease \in LeaseType /\ clock \in Nat /\ confirmed \in [Holders -> Nat] /\ lease.renew <= clock
    BY Zenon DEF IndInv, TypeOK, TimesAndVersions
  <2>2. CASE h = w.holder /\ confirmed'[h] = w.renew
    BY <1>2, <2>1, <2>2 DEF WriteType
  <2>3. CASE Working(h) /\ confirmed'[h] = confirmed[h]
    <3>1. /\ confirmed[h] <= clock
          /\ lease.holder = h => confirmed[h] <= lease.renew
          /\ clock < confirmed[h] + Duration => lease.holder = h
      BY <2>3, Zenon DEF IndInv, WindowsHold
    <3>2. lease.rv = 0 => lease.holder = None
      BY DEF IndInv, TypeOK, Absent
    <3> QED
      BY <1>2, <2>1, <2>3, <3>1, <3>2, SMTT(30) DEF LeaseType, WriteType, Expired
  <2> QED
    BY <2>2, <2>3, Zenon
<1> QED
  BY <1>3, <1>4, <1>5, <1>6, <1>7, <1>8, Zenon DEF IndInv

\* Deleting the Lease of a run that is over preserves the invariant.
LEMMA DeleteStep ==
  ASSUME IndInv,
         lease' = Absent, lease.rv > 0,
         orphans' \subseteq orphans, UNCHANGED <<top, clock, lost, cancelled, confirmed>>,
         faults' \in Nat,
         NEW t \in Threads,
         pc' = [pc EXCEPT ![t] = "done"], t = Main(lease.holder),
         call' = [call EXCEPT ![t] = NoCall] \/ call' = call
  PROVE  IndInv'
<1> USE NoneAssumption, DurationAssumption, ThreadFacts
<1>1. lease.holder \in Holders
  BY DEF IndInv, TypeOK, LeaseType
<1>2. NoCall \in Locals /\ Absent \in LeaseType
  BY Zenon DEF NoCall, Locals, Absent, LeaseType
<1>3. TypeOK'
  BY <1>1, <1>2 DEF IndInv, TypeOK, Absent, MainLabels, LoopLabels
<1>4. TimesAndVersions'
  <2> SUFFICES ASSUME NEW u \in Threads
               PROVE  /\ lease'.renew <= clock
                      /\ call'[u].now <= clock
                      /\ call'[u].seen.rv <= top'
                      /\ call'[u].seen.rv = lease'.rv => call'[u].seen = lease'
                      /\ call'[u].seen.rv = 0 => call'[u].seen = Absent
    BY <1>2, Zenon DEF TimesAndVersions, IndInv, TypeOK, Absent
  <2>1. /\ call[u] \in Locals /\ top \in Nat /\ clock \in Nat
        /\ call[u].now <= clock /\ call[u].seen.rv <= top
        /\ call[u].seen.rv = 0 => call[u].seen = Absent
    BY SMTT(30) DEF IndInv, TypeOK, TimesAndVersions
  <2>2. CASE call'[u] = call[u]
    BY <1>2, <2>1, <2>2 DEF Locals, LeaseType, Absent
  <2>3. CASE call'[u] = NoCall
    BY <1>2, <2>1, <2>3 DEF NoCall, Absent
  <2> QED
    BY <2>2, <2>3 DEF IndInv, TypeOK
<1>5. WritesAreChecked'
  BY <1>1 DEF IndInv, TypeOK, WritesAreChecked, LoopLabels
<1>6. OrphansAreHarmless'
  <2> SUFFICES ASSUME NEW v \in orphans PROVE Harmless(v)'
    BY Zenon DEF OrphansAreHarmless
  <2>1. Harmless(v) /\ v \in WriteType
    BY Zenon DEF IndInv, OrphansAreHarmless, TypeOK, WriteType
  <2> QED
    BY <1>1, <2>1 DEF Harmless, WriteType, Absent
<1>7. NotYetHolders'
  <2> SUFFICES ASSUME NEW h \in Holders, pc'[Main(h)] \in BeforeLabels
               PROVE  /\ lease'.holder # h
                      /\ pc'[Loop(h)] = "off"
                      /\ \A w \in orphans' : w.holder # h
                      /\ \A u \in Threads : call'[u].seen.holder # h
    BY Zenon DEF NotYetHolders
  <2>1. pc \in [Threads -> MainLabels \cup LoopLabels] /\ call \in [Threads -> Locals]
    BY Zenon DEF IndInv, TypeOK
  <2>2. pc[Main(h)] \in BeforeLabels
    <3>1. pc'[t] = "done" /\ "done" \notin BeforeLabels
      BY <2>1, Zenon DEF BeforeLabels
    <3> QED
      BY <2>1, <3>1, ZenonT(30)
  <2>3. /\ lease.holder # h /\ pc[Loop(h)] = "off"
        /\ \A w \in orphans : w.holder # h
        /\ \A u \in Threads : call[u].seen.holder # h
    BY <2>2, Zenon DEF IndInv, NotYetHolders
  <2>4. lease'.holder # h
    BY Zenon DEF Absent
  <2>5. pc'[Loop(h)] = "off"
    BY <1>1, <2>1, <2>3, ZenonT(30)
  <2>6. ASSUME NEW u \in Threads PROVE call'[u].seen.holder # h
    <3>1. call'[u] = call[u] \/ call'[u] = NoCall
      BY <2>1, ZenonT(30)
    <3>2. NoCall.seen.holder # h
      BY Zenon DEF NoCall, Absent
    <3> QED
      BY <2>3, <3>1, <3>2, Zenon
  <2> QED
    BY <2>3, <2>4, <2>5, <2>6, Zenon
<1>8. WindowsHold'
  BY <1>1 DEF IndInv, TypeOK, WindowsHold, Working, Absent
<1> QED
  BY <1>3, <1>4, <1>5, <1>6, <1>7, <1>8, Zenon DEF IndInv

\* What the invariant says of one thread.
LEMMA ThreadInv ==
  ASSUME IndInv, NEW t \in Threads
  PROVE  /\ call[t] \in Locals /\ call[t].seen \in LeaseType
         /\ call[t].now \in Nat /\ call[t].tries \in Nat
         /\ pc[t] \in MainLabels \cup LoopLabels
         /\ t[2] = "main" => pc[t] \in MainLabels
         /\ t[2] = "loop" => pc[t] \in LoopLabels
         /\ t[1] \in Holders /\ t[2] \in {"main", "loop"}
         /\ call[t].now <= clock /\ clock \in Nat
BY ThreadFacts DEF IndInv, TypeOK, TimesAndVersions, Locals

\* The locals of a thread between two calls are well typed and name no Lease.
LEMMA NoCallType == NoCall \in Locals /\ NoCall.now = 0 /\ NoCall.seen = Absent
BY NoneAssumption, Zenon DEF NoCall, Locals, LeaseType, Absent

\* The write a thread is about to make, if it is accepted, is for the Lease
\* the thread has checked.
LEMMA PendingFacts ==
  ASSUME IndInv, NEW t \in Threads
  PROVE  /\ pc[t] \in {"acquireWrite", "renewWrite"} =>
              /\ Pending(t) \in WriteType
              /\ Pending(t).base = call[t].seen.rv
              /\ Pending(t).holder = t[1] /\ Pending(t).renew = call[t].now
         /\ pc[t] = "releaseDelete" =>
              /\ Pending(t) \in WriteType
              /\ Pending(t).base = call[t].seen.rv
              /\ Pending(t).holder = None /\ Pending(t).renew = 0
         /\ call[t].seen.rv = lease.rv => call[t].seen = lease
         /\ call[t].seen.rv <= top
         /\ call[t].seen.rv = 0 => call[t].seen = Absent
<1>1. call[t].seen.rv \in Nat
  BY ThreadInv, Zenon DEF LeaseType
<1> QED
  BY <1>1, ThreadInv, Zenon DEF Pending, Write, WriteType, IndInv, TimesAndVersions

-----------------------------------------------------------------------------
(* The steps a run takes preserve the inductive invariant.                 *)

\* Every step of a run, apart from its failing calls.
RunStep ==
  \/ \E h \in Holders : HolderStep(h)
  \/ \E t \in Threads : RenewGet(t) \/ RenewStamp(t) \/ RenewWrite(t)

\* What a run does preserves the invariant.
LEMMA RunInd ==
  ASSUME IndInv, RunStep
  PROVE  IndInv'
<1> USE NoneAssumption, DurationAssumption, ThreadFacts
<1>0. /\ lost \in [Holders -> BOOLEAN] /\ cancelled \in [Holders -> BOOLEAN] /\ faults \in Nat
      /\ clock \in Nat /\ lease \in LeaseType /\ lease.renew \in Nat /\ lease.rv \in Nat
      /\ lease.renew <= clock
  BY Zenon DEF IndInv, TypeOK, TimesAndVersions, LeaseType
<1>1. ASSUME NEW h \in Holders, AcquireStart(h) PROVE IndInv'
  <2> DEFINE c == [call[Main(h)] EXCEPT !.now = clock]
  <2>1. c \in Locals /\ c.now = clock /\ c.seen = call[Main(h)].seen
    BY <1>0, ThreadInv DEF Locals
  <2>2. call' = [call EXCEPT ![Main(h)] = c]
    BY <1>1, Zenon DEF AcquireStart
  <2> HIDE DEF c
  <2>3. Earned(Main(h), "acquireGet", c)
    BY <1>0, <1>1, <2>1 DEF AcquireStart, Earned, MainLabels, BeforeLabels
  <2> QED
    BY <1>0, <1>1, <2>2, <2>3, NothingAbandoned, QuietStep, Zenon DEF AcquireStart, Goto
<1>2. ASSUME NEW h \in Holders, AcquireGet(h) PROVE IndInv'
  <2> DEFINE c == [call[Main(h)] EXCEPT !.seen = lease]
  <2>1. c \in Locals /\ c.now = call[Main(h)].now /\ c.seen = lease
    BY <1>0, ThreadInv DEF Locals
  <2>2. call' = [call EXCEPT ![Main(h)] = c]
    BY <1>2, Zenon DEF AcquireGet, Got
  <2> HIDE DEF c
  <2>3. Earned(Main(h), "acquireCheck", c)
    BY <1>0, <1>2, <2>1, ThreadInv, Zenon DEF AcquireGet, Earned, MainLabels, BeforeLabels
  <2> QED
    BY <1>0, <1>2, <2>2, <2>3, NothingAbandoned, QuietStep, Zenon DEF AcquireGet, Goto
<1>3. ASSUME NEW h \in Holders, AcquireCheck(h) PROVE IndInv'
  <2> DEFINE t == Main(h)
  <2>0. t \in Threads /\ t[1] = h /\ t[2] = "main" /\ pc[t] = "acquireCheck"
    BY <1>3, Zenon DEF AcquireCheck
  <2>1. CASE /\ Goto(t, "acquireWrite") /\ UNCHANGED call
             /\ call[t].seen.rv = 0 \/ call[t].seen.holder = h \/ Expired(call[t].seen, clock)
    <3>1. Earned(t, "acquireWrite", call[t])
      BY <2>0, <2>1, ThreadInv, Zenon DEF Earned, MainLabels, BeforeLabels
    <3>2. call' = [call EXCEPT ![t] = call[t]]
      BY <2>0, <2>1, Zenon DEF IndInv, TypeOK
    <3> HIDE DEF t
    <3> QED
      BY <1>0, <1>3, <2>0, <2>1, <3>1, <3>2, NothingAbandoned, QuietStep, Zenon DEF AcquireCheck, Goto
  <2>2. CASE Return(t, "done")
    <3>1. Earned(t, "done", NoCall)
      BY <1>0, <2>0, NoCallType DEF Earned, MainLabels, BeforeLabels
    <3> HIDE DEF t
    <3> QED
      BY <1>0, <1>3, <2>0, <2>2, <3>1, NothingAbandoned, QuietStep, Zenon DEF AcquireCheck, Return, Goto
  <2> QED
    BY <1>3, <2>1, <2>2, Zenon DEF AcquireCheck
<1>4. ASSUME NEW h \in Holders,
             \/ EnsureHeld(h) \/ Mutate(h) \/ Finish(h) \/ Close(h)
      PROVE  IndInv'
  <2> DEFINE t == Main(h)
  <2>1. call' = [call EXCEPT ![t] = call[t]]
    BY <1>4 DEF EnsureHeld, Mutate, Finish, Close, IndInv, TypeOK
  <2>2. PICK l \in {"closing", "renewGet", "holding", "releaseGet", "done"} : Goto(t, l)
    BY <1>4, Zenon DEF EnsureHeld, Mutate, Finish, Close
  <2>3. Working(h) /\ pc[t] # "done" /\ pc[t] # "off" /\ t[1] = h /\ t[2] = "main" /\ t \in Threads
    BY <1>4, Zenon DEF Working, EnsureHeld, Mutate, Finish, Close
  <2>4. UNCHANGED <<lease, top, orphans, clock, lost, cancelled, confirmed, faults>>
    BY <1>4, Zenon DEF EnsureHeld, Mutate, Finish, Close
  <2> HIDE DEF t
  <2>5. Earned(t, l, call[t])
    BY <2>3, ThreadInv, Zenon DEF Earned, MainLabels, BeforeLabels
  <2> QED
    BY <1>0, <2>1, <2>2, <2>3, <2>4, <2>5, NothingAbandoned, QuietStep, Zenon DEF Goto
<1>5. ASSUME NEW h \in Holders, LoopTick(h) \/ LoopExit(h) PROVE IndInv'
  <2> DEFINE t == Loop(h)
  <2>1. call' = [call EXCEPT ![t] = call[t]]
    BY <1>5 DEF LoopTick, LoopExit, IndInv, TypeOK
  <2>2. PICK l \in {"renewGet", "exited"} : Goto(t, l)
    BY <1>5, Zenon DEF LoopTick, LoopExit
  <2>3. pc[t] # "done" /\ pc[t] # "off" /\ t[1] = h /\ t[2] = "loop" /\ t \in Threads
    BY <1>5, Zenon DEF LoopTick, LoopExit
  <2>4. UNCHANGED <<lease, top, orphans, clock, lost, cancelled, confirmed, faults>>
    BY <1>5, Zenon DEF LoopTick, LoopExit
  <2> HIDE DEF t
  <2>5. Earned(t, l, call[t])
    BY <2>3, ThreadInv, Zenon DEF Earned, LoopLabels, BeforeLabels
  <2> QED
    BY <1>0, <2>1, <2>2, <2>3, <2>4, <2>5, NothingAbandoned, QuietStep, Zenon DEF Goto
<1>6. ASSUME NEW h \in Holders, Cancel(h) PROVE IndInv'
  BY <1>0, <1>6 DEF Cancel, IndInv, TypeOK, TimesAndVersions, WritesAreChecked, OrphansAreHarmless,
     Harmless, NotYetHolders, WindowsHold, Working, Expired
\* A thread that returns from its call without having written.
<1>7. ASSUME NEW t \in Threads, NEW l, Return(t, l),
             pc[t] \notin {"done", "off"},
             t[2] = "main" => l = "done" \/ (l \in {"closing", "releaseGet"} /\ Working(t[1])),
             t[2] = "loop" => l = "exited",
             UNCHANGED <<lease, top, orphans, clock, confirmed>>,
             lost' \in [Holders -> BOOLEAN], cancelled' \in [Holders -> BOOLEAN], faults' \in Nat
      PROVE  IndInv'
  <2>1. Earned(t, l, NoCall)
    BY <1>0, <1>7, NoCallType, ThreadInv DEF Earned, MainLabels, LoopLabels, BeforeLabels
  <2> QED
    BY <1>0, <1>7, <2>1, NothingAbandoned, QuietStep, Zenon DEF Return, Goto
<1>8. ASSUME NEW t \in Threads, RenewFailed(t), pc[t] \in {"renewGet", "renewWrite"},
             UNCHANGED <<lease, top, orphans, clock, confirmed>>,
             cancelled' \in [Holders -> BOOLEAN], faults' \in Nat
      PROVE  IndInv'
  <2>1. t[2] = "main" => Working(t[1])
    BY <1>8, Zenon DEF Working
  <2>2. lost' \in [Holders -> BOOLEAN]
    BY <1>0, <1>8, Zenon DEF RenewFailed
  <2> QED
    BY <1>7, <1>8, <2>1, <2>2, ThreadInv, Zenon DEF RenewFailed
<1>9. ASSUME NEW t \in Threads, NEW l \in {"start", "renewGet"}, Retry(t, l),
             l = "start" => pc[t] = "acquireWrite" /\ t[2] = "main",
             l = "renewGet" => pc[t] = "renewWrite",
             UNCHANGED <<lease, top, orphans, clock, confirmed, lost, cancelled, faults>>
      PROVE  IndInv'
  <2> DEFINE c == [NoCall EXCEPT !.tries = call[t].tries + 1]
  <2>1. c \in Locals /\ c.now = 0 /\ c.seen = Absent
    BY ThreadInv, NoCallType DEF Locals, NoCall
  <2>2. call' = [call EXCEPT ![t] = c]
    BY <1>9, Zenon DEF Retry
  <2>3. t[2] = "main" => l \in BeforeLabels \/ Working(t[1])
    BY <1>9, Zenon DEF Working, BeforeLabels
  <2> HIDE DEF c
  <2>4. Earned(t, l, c)
    BY <1>0, <1>9, <2>1, <2>3, ThreadInv DEF Earned, MainLabels, LoopLabels, BeforeLabels
  <2> QED
    BY <1>0, <1>9, <2>2, <2>4, NothingAbandoned, QuietStep, Zenon DEF Retry, Goto
<1>10. ASSUME NEW t \in Threads, RenewGet(t) PROVE IndInv'
  <2>1. CASE lease.holder # t[1] /\ RenewFailed(t)
    BY <1>0, <1>8, <1>10, <2>1, Zenon DEF RenewGet
  <2>2. CASE lease.holder = t[1] /\ Goto(t, "renewStamp") /\ Got(t) /\ UNCHANGED lost
    <3> DEFINE c == [call[t] EXCEPT !.seen = lease]
    <3>1. c \in Locals /\ c.now = call[t].now /\ c.seen = lease
      BY <1>0, ThreadInv DEF Locals
    <3>2. call' = [call EXCEPT ![t] = c]
      BY <2>2, Zenon DEF Got
    <3>3. t[2] = "main" => Working(t[1])
      BY <1>10, Zenon DEF RenewGet, Working
    <3> HIDE DEF c
    <3>4. Earned(t, "renewStamp", c)
      BY <1>0, <1>10, <2>2, <3>1, <3>3, ThreadInv, Zenon DEF RenewGet, Earned, MainLabels, LoopLabels, BeforeLabels
    <3> QED
      BY <1>0, <1>10, <2>2, <3>2, <3>4, NothingAbandoned, QuietStep, Zenon DEF RenewGet, Goto
  <2> QED
    BY <1>10, <2>1, <2>2, Zenon DEF RenewGet
<1>11. ASSUME NEW t \in Threads, RenewStamp(t) PROVE IndInv'
  <2> DEFINE c == [call[t] EXCEPT !.now = clock]
  <2>1. c \in Locals /\ c.now = clock /\ c.seen = call[t].seen
    BY <1>0, ThreadInv DEF Locals
  <2>2. call' = [call EXCEPT ![t] = c]
    BY <1>11, Zenon DEF RenewStamp
  <2>3. t[2] = "main" => Working(t[1])
    BY <1>11, Zenon DEF RenewStamp, Working
  <2>4. call[t].seen.holder = t[1] /\ call[t].seen.renew <= clock
    BY <1>11, Zenon DEF RenewStamp, IndInv, WritesAreChecked
  <2> HIDE DEF c
  <2>5. Earned(t, "renewWrite", c)
    BY <1>0, <1>11, <2>1, <2>3, <2>4, ThreadInv, SMTT(30) DEF RenewStamp, Earned, MainLabels, LoopLabels, BeforeLabels
  <2> QED
    BY <1>0, <1>11, <2>2, <2>5, NothingAbandoned, QuietStep, Zenon DEF RenewStamp, Goto
<1>12. ASSUME NEW t \in Threads, RenewWrite(t) PROVE IndInv'
  <2>1. CASE ~Accepts(Pending(t))
    BY <1>0, <1>8, <1>9, <1>12, <2>1, Zenon DEF RenewWrite
  <2>2. CASE Accepts(Pending(t))
    <3>0. PICK w : w = Pending(t)
      BY Zenon
    <3>1. w \in WriteType /\ w.holder = t[1] /\ w.renew = call[t].now /\ t[1] \in Holders
      BY <1>12, <3>0, PendingFacts, ThreadInv, ZenonT(30) DEF RenewWrite
    <3>2. call[t].seen = lease /\ lease.holder = t[1] /\ lease.renew <= call[t].now
      BY <1>12, <2>2, PendingFacts, SMTT(30) DEF Accepts, RenewWrite, IndInv, WritesAreChecked
    <3>3. PICK l : /\ Return(t, l)
                   /\ t[2] = "main" => l = "checked"
                   /\ t[2] = "loop" => l = "ticking"
      BY <1>12, <2>2, ThreadInv, Zenon DEF RenewWrite
    <3>4. /\ pc' = [pc EXCEPT ![t] = l] /\ call' = [call EXCEPT ![t] = NoCall]
          /\ Store(w) /\ confirmed' = [confirmed EXCEPT ![t[1]] = w.renew]
          /\ UNCHANGED <<orphans, clock, lost, cancelled, faults>>
      BY <1>12, <2>2, <3>0, <3>1, <3>3, Zenon DEF RenewWrite, Return, Goto
    <3>5. /\ pc' \in [Threads -> MainLabels \cup LoopLabels] /\ call' \in [Threads -> Locals]
          /\ confirmed' \in [Holders -> Nat]
      BY <3>1, <3>3, <3>4, NoCallType, ThreadInv, Zenon DEF IndInv, TypeOK, MainLabels, LoopLabels
    <3>6. ThreadsMoved
      BY <3>3, <3>4, ThreadInv, SMTT(30) DEF ThreadsMoved, IndInv, TypeOK
    <3>7. pc[Main(t[1])] \notin BeforeLabels
      <4>1. pc[t] = "renewWrite" /\ "renewWrite" \notin BeforeLabels
        BY <1>12, Zenon DEF RenewWrite, BeforeLabels
      <4>2. pc[Main(t[1])] = "renewWrite" \/ pc[Loop(t[1])] = "renewWrite"
        BY <3>1, <4>1, Zenon
      <4> QED
        BY <3>1, <4>1, <4>2, Zenon DEF IndInv, NotYetHolders
    <3>8. RunsMoved(w)
      <4> SUFFICES ASSUME NEW h \in Holders
                   PROVE  /\ pc[Main(h)] = "done" => pc'[Main(h)] = "done"
                          /\ pc'[Main(h)] \in BeforeLabels => h # w.holder /\ pc'[Loop(h)] = pc[Loop(h)]
                          /\ Working(h)' => Working(h) \/ (h = w.holder /\ confirmed'[h] = w.renew)
                          /\ confirmed'[h] = confirmed[h] \/ (h = w.holder /\ confirmed'[h] = w.renew)
        BY Zenon DEF RunsMoved
      <4> QED
        BY <1>12, <3>1, <3>3, <3>4, <3>7, ThreadInv DEF RenewWrite, IndInv, TypeOK, BeforeLabels, Working
    <3>9. Accepts(w) /\ w.renew <= clock /\ w.holder # None
      BY <2>2, <3>0, <3>1, ThreadInv
    <3> QED
      BY <1>0, <3>1, <3>2, <3>4, <3>5, <3>6, <3>8, <3>9, StoreStep, Zenon
  <2> QED
    BY <2>1, <2>2, Zenon
<1>13. ASSUME NEW h \in Holders, AcquireWrite(h) PROVE IndInv'
  <2> DEFINE t == Main(h)
  <2>0. t \in Threads /\ t[1] = h /\ t[2] = "main" /\ pc[t] = "acquireWrite" /\ t # Loop(h)
    BY <1>13, Zenon DEF AcquireWrite
  <2>1. CASE ~Accepts(Pending(t))
    BY <1>0, <1>7, <1>9, <1>13, <2>0, <2>1, Zenon DEF AcquireWrite
  <2>2. CASE Accepts(Pending(t))
    <3>0. PICK w : w = Pending(t)
      BY Zenon
    <3>1. w \in WriteType /\ w.holder = h /\ w.renew = call[t].now /\ w.renew <= clock /\ Accepts(w)
      BY <2>0, <2>2, <3>0, PendingFacts, ThreadInv, Zenon
    <3>2. lease.rv = 0 \/ Expired(lease, clock)
      <4>1. call[t].seen = lease
        BY <2>0, <2>2, PendingFacts DEF Accepts
      <4>2. lease.holder # h
        BY <2>0, Zenon DEF IndInv, NotYetHolders, BeforeLabels
      <4> QED
        BY <2>0, <4>1, <4>2, Zenon DEF IndInv, WritesAreChecked
    <3>3. /\ pc' = [pc EXCEPT ![t] = "holding", ![Loop(h)] = "ticking"]
          /\ call' = [call EXCEPT ![t] = NoCall]
          /\ Store(w) /\ confirmed' = [confirmed EXCEPT ![h] = w.renew]
          /\ UNCHANGED <<orphans, clock, lost, cancelled, faults>>
      BY <1>13, <2>2, <3>0, <3>1, Zenon DEF AcquireWrite
    <3>4. /\ pc' \in [Threads -> MainLabels \cup LoopLabels] /\ call' \in [Threads -> Locals]
          /\ confirmed' \in [Holders -> Nat]
      BY <2>0, <3>1, <3>3, NoCallType, ThreadInv, Zenon DEF IndInv, TypeOK, MainLabels, LoopLabels
    <3>5. ThreadsMoved
      BY <2>0, <3>3 DEF ThreadsMoved, IndInv, TypeOK
    <3>6. RunsMoved(w)
      BY <2>0, <3>1, <3>3 DEF RunsMoved, IndInv, TypeOK, BeforeLabels, Working
    <3>7. confirmed'[h] = w.renew
      BY <3>1, <3>3, Zenon DEF IndInv, TypeOK
    <3> HIDE DEF t
    <3> QED
      BY <1>0, <3>1, <3>2, <3>3, <3>4, <3>5, <3>6, <3>7, StoreStep, Zenon
  <2> QED
    BY <2>1, <2>2, Zenon
<1>14. ASSUME NEW h \in Holders, ReleaseGet(h) PROVE IndInv'
  <2> DEFINE t == Main(h)
  <2>0. t \in Threads /\ t[1] = h /\ t[2] = "main" /\ pc[t] = "releaseGet" /\ Working(h)
    BY <1>14, Zenon DEF ReleaseGet, Working
  <2>1. CASE lease.holder # h /\ Return(t, "done")
    BY <1>0, <1>7, <1>14, <2>0, <2>1, Zenon DEF ReleaseGet
  <2>2. CASE lease.holder = h /\ Goto(t, "releaseDelete") /\ Got(t)
    <3> DEFINE c == [call[t] EXCEPT !.seen = lease]
    <3>1. c \in Locals /\ c.now = call[t].now /\ c.seen = lease
      BY <1>0, <2>0, ThreadInv DEF Locals
    <3>2. call' = [call EXCEPT ![t] = c]
      BY <2>2, Zenon DEF Got
    <3> HIDE DEF c, t
    <3>3. Earned(t, "releaseDelete", c)
      BY <1>0, <2>0, <2>2, <3>1, ThreadInv, Zenon DEF Earned, MainLabels, BeforeLabels
    <3> QED
      BY <1>0, <1>14, <2>0, <2>2, <3>2, <3>3, NothingAbandoned, QuietStep, Zenon DEF ReleaseGet, Goto
  <2> QED
    BY <1>14, <2>1, <2>2, Zenon DEF ReleaseGet
<1>15. ASSUME NEW h \in Holders, ReleaseDelete(h) PROVE IndInv'
  <2> DEFINE t == Main(h)
  <2>0. t \in Threads /\ t[1] = h /\ t[2] = "main" /\ pc[t] = "releaseDelete"
    BY <1>15, Zenon DEF ReleaseDelete
  <2>1. CASE ~Accepts(Pending(t)) /\ UNCHANGED <<lease, top>>
    BY <1>0, <1>7, <1>15, <2>0, <2>1, Zenon DEF ReleaseDelete
  <2>2. CASE Accepts(Pending(t)) /\ Store(Pending(t))
    <3>1. lease = call[t].seen /\ Pending(t).holder = None /\ lease.holder = h
      BY <2>0, <2>2, PendingFacts DEF Accepts, IndInv, WritesAreChecked
    <3>2. lease' = Absent /\ top' = top
      BY <2>2, <3>1, Zenon DEF Store
    <3>3. lease.rv > 0
      BY <1>0, <3>1 DEF IndInv, TypeOK, Absent
    <3> HIDE DEF t
    <3> QED
      BY <1>0, <1>15, <2>0, <3>1, <3>2, <3>3, DeleteStep, Zenon DEF ReleaseDelete, Return, Goto, t
  <2> QED
    BY <1>15, <2>1, <2>2, Zenon DEF ReleaseDelete
<1> QED
  BY <1>1, <1>2, <1>3, <1>4, <1>5, <1>6, <1>10, <1>11, <1>12, <1>13, <1>14, <1>15, Zenon
     DEF RunStep, HolderStep

-----------------------------------------------------------------------------
(* All the steps, and what follows.                                        *)

\* Every step preserves the invariant.
LEMMA NextInd ==
  ASSUME IndInv, [Next]_vars
  PROVE  IndInv'
<1> USE NoneAssumption, DurationAssumption, ThreadFacts
<1>0. /\ lost \in [Holders -> BOOLEAN] /\ cancelled \in [Holders -> BOOLEAN] /\ faults \in Nat
      /\ clock \in Nat /\ lease \in LeaseType /\ lease.renew \in Nat /\ lease.rv \in Nat
      /\ lease.renew <= clock
  BY Zenon DEF IndInv, TypeOK, TimesAndVersions, LeaseType
<1>1. ASSUME NEW t \in Threads, CallFails(t) PROVE IndInv'
  <2> DEFINE l == IF pc[t] \in {"renewGet", "renewWrite"}
                  THEN IF t[2] = "main" THEN "closing" ELSE "exited"
                  ELSE "done"
  <2>1. Return(t, l) /\ UNCHANGED <<lease, top, clock, cancelled, confirmed>>
    BY <1>1, Zenon DEF CallFails, RenewFailed
  <2>2. lost' \in [Holders -> BOOLEAN] /\ faults' \in Nat
    <3>1. faults' \in Nat
      BY <1>0, <1>1 DEF CallFails
    <3>2. lost' = lost \/ lost' = [lost EXCEPT ![t[1]] = TRUE]
      BY <1>1, Zenon DEF CallFails, RenewFailed
    <3> QED
      BY <1>0, <3>1, <3>2, ZenonT(30)
  <2>3. pc[t] \in CallLabels /\ pc[t] \notin {"done", "off"}
    BY <1>1, Zenon DEF CallFails, CallLabels, WriteLabels
  <2>4. /\ t[2] = "main" => l = "done" \/ (l = "closing" /\ Working(t[1]))
        /\ t[2] = "loop" => l = "exited"
    BY <2>3, ThreadInv, Zenon DEF Working, CallLabels, WriteLabels, LoopLabels
  <2>5. Earned(t, l, NoCall)
    <3> HIDE DEF l
    <3> QED
      BY <1>0, <2>3, <2>4, NoCallType, ThreadInv DEF Earned, MainLabels, LoopLabels, BeforeLabels
  <2>6. CASE UNCHANGED orphans
    <3> HIDE DEF l
    <3> QED
      BY <1>0, <2>1, <2>2, <2>6, <2>5, NothingAbandoned, QuietStep, Zenon DEF Return, Goto
  <2>7. CASE pc[t] \in WriteLabels /\ orphans' = orphans \cup {Pending(t)}
    <3>0. PICK w : w = Pending(t)
      BY Zenon
    <3>1. w \in WriteType /\ w.base = call[t].seen.rv /\ w.base <= top /\ w.renew <= clock
      BY <1>0, <2>7, <3>0, PendingFacts, ThreadInv DEF WriteLabels
    <3>2. t[2] = "main" => pc'[t] = l
      BY <2>1, ZenonT(30) DEF Return, Goto, IndInv, TypeOK
    <3>3. CASE pc[t] = "acquireWrite"
      <4>1. t[2] = "main" /\ t = Main(t[1]) /\ l = "done" /\ pc'[t] = "done" /\ w.holder = t[1]
        BY <2>4, <3>2, <3>0, <3>3, PendingFacts, ThreadInv, Zenon DEF LoopLabels
      <4>2. lease.holder # t[1]
        BY <3>3, <4>1, ThreadInv DEF IndInv, NotYetHolders, BeforeLabels
      <4>3. w.base = lease.rv => lease.rv = 0 \/ Expired(lease, clock)
        <5>1. call[t].seen.rv = 0 \/ call[t].seen.holder = t[1] \/ Expired(call[t].seen, clock)
          BY <3>3, Zenon DEF IndInv, WritesAreChecked
        <5>2. w.base = lease.rv => call[t].seen = lease
          BY <3>1, PendingFacts, ZenonT(30)
        <5> QED
          BY <4>2, <5>1, <5>2, Zenon
      <4> QED
        <5>1. Harmless(w)' /\ (w.holder # None => pc'[Main(w.holder)] \notin BeforeLabels)
          BY <2>1, <3>1, <4>1, <4>2, <4>3, ThreadInv DEF Harmless, Expired, BeforeLabels
        <5>2. AbandonsHarmless
          BY <2>7, <3>0, <3>1, <5>1 DEF AbandonsHarmless
        <5> HIDE DEF l
        <5> QED
          BY <1>0, <2>1, <2>2, <2>5, <5>2, QuietStep, Zenon DEF Return, Goto
    <3>4. CASE pc[t] = "renewWrite"
      <4>1. w.holder = t[1] /\ w.renew = call[t].now
        BY <3>0, <3>4, PendingFacts, Zenon
      <4>2. call[t].seen.holder = t[1] /\ call[t].seen.renew <= call[t].now /\ call[t].seen.rv # 0
        BY <3>4, PendingFacts, ThreadInv DEF IndInv, WritesAreChecked, Absent
      <4>3. pc'[Main(t[1])] \notin BeforeLabels
        <5>1. pc[Main(t[1])] \notin BeforeLabels
          <6>1. "renewWrite" \notin BeforeLabels /\ t[1] \in Holders
            BY ThreadInv, Zenon DEF BeforeLabels
          <6>2. pc[Main(t[1])] = "renewWrite" \/ pc[Loop(t[1])] = "renewWrite"
            BY <3>4, <6>1, Zenon
          <6> QED
            BY <3>4, <6>1, <6>2, Zenon DEF IndInv, NotYetHolders
        <5> QED
          BY <2>1, <2>4, <5>1, ThreadInv, SMTT(30) DEF Return, Goto, IndInv, TypeOK, BeforeLabels
      <4>4. Harmless(w)'
        BY <2>1, <3>1, <4>1, <4>2, PendingFacts, ThreadInv, SMTT(30) DEF Harmless
      <4>5. AbandonsHarmless
        BY <2>7, <3>0, <3>1, <4>1, <4>3, <4>4, ZenonT(30) DEF AbandonsHarmless
      <4> HIDE DEF l
      <4> QED
        BY <1>0, <2>1, <2>2, <2>5, <4>5, QuietStep, Zenon DEF Return, Goto
    <3>5. CASE pc[t] = "releaseDelete"
      <4>1. t[2] = "main" /\ t = Main(t[1]) /\ l = "done" /\ pc'[t] = "done" /\ w.holder = None
        BY <2>4, <3>2, <3>0, <3>5, PendingFacts, ThreadInv, Zenon DEF LoopLabels
      <4>2. call[t].seen.holder = t[1] /\ call[t].seen.rv # 0
        BY <3>5, PendingFacts, ThreadInv DEF IndInv, WritesAreChecked, Absent
      <4>3. Harmless(w)'
        BY <2>1, <3>1, <4>1, <4>2, PendingFacts, ThreadInv, SMTT(30) DEF Harmless
      <4>4. AbandonsHarmless
        BY <2>7, <3>0, <3>1, <4>1, <4>3, ZenonT(30) DEF AbandonsHarmless
      <4> HIDE DEF l
      <4> QED
        BY <1>0, <2>1, <2>2, <2>5, <4>4, QuietStep, Zenon DEF Return, Goto
    <3> QED
      BY <2>7, <3>3, <3>4, <3>5, Zenon DEF WriteLabels
  <2> QED
    BY <1>1, <2>6, <2>7, Zenon DEF CallFails
<1>2. CASE OrphanArrives
  <2>1. PICK w \in orphans :
          /\ orphans' = orphans \ {w}
          /\ IF Accepts(w) THEN Store(w) ELSE UNCHANGED <<lease, top>>
          /\ UNCHANGED <<clock, pc, call, lost, cancelled, confirmed, faults>>
    BY <1>2, Zenon DEF OrphanArrives
  <2>2. w \in WriteType /\ Harmless(w)
    BY Zenon DEF IndInv, TypeOK, OrphansAreHarmless, WriteType
  <2>3. CASE ~Accepts(w)
    BY <2>1, <2>3 DEF IndInv, TypeOK, TimesAndVersions, WritesAreChecked, OrphansAreHarmless,
       Harmless, NotYetHolders, WindowsHold, Working, Expired
  <2>4. CASE Accepts(w) /\ w.holder = None
    <3>1. lease.rv > 0 /\ pc[Main(lease.holder)] = "done" /\ lease' = Absent /\ top' = top
      <4>1. w.base = lease.rv /\ w.holder = None
        BY <2>4, Zenon DEF Accepts
      <4>2. w.base # 0 /\ pc[Main(lease.holder)] = "done"
        BY <2>2, <4>1, Zenon DEF Harmless
      <4>3. lease' = Absent /\ top' = top
        BY <2>1, <2>4, <4>1, Zenon DEF Store
      <4> HIDE ThreadFacts
      <4> QED
        BY <1>0, <4>1, <4>2, <4>3
    <3>2. lease.holder \in Holders
      BY <1>0, <3>1 DEF IndInv, TypeOK, LeaseType
    <3>3. pc' = [pc EXCEPT ![Main(lease.holder)] = "done"]
      BY <2>1, <3>1, <3>2 DEF IndInv, TypeOK
    <3> QED
      BY <1>0, <2>1, <3>1, <3>2, <3>3, DeleteStep, ZenonT(30)
  <2>5. CASE Accepts(w) /\ w.holder # None
    <3>1. \/ lease.holder = w.holder /\ lease.renew <= w.renew
          \/ (lease.rv = 0 \/ Expired(lease, clock)) /\ ~Working(w.holder)
      BY <2>2, <2>5, Zenon DEF Harmless, Accepts, Working
    <3>2. w.renew <= clock
      BY <2>2, Zenon DEF Harmless
    <3>3. \A h \in Holders : (Working(h)' <=> Working(h)) /\ (pc[Main(h)] \in BeforeLabels => h # w.holder)
      BY <2>1 DEF Working, IndInv, NotYetHolders
    <3>4. /\ pc' \in [Threads -> MainLabels \cup LoopLabels] /\ call' \in [Threads -> Locals]
          /\ confirmed' \in [Holders -> Nat]
      BY <2>1, Zenon DEF IndInv, TypeOK
    <3> QED
      <4>1. ThreadsMoved /\ RunsMoved(w)
        BY <2>1, <3>3, Zenon DEF ThreadsMoved, RunsMoved
      <4>2. Store(w) /\ Accepts(w) /\ w.holder # None /\ orphans' \subseteq orphans
        BY <2>1, <2>5, Zenon
      <4>3. w.holder \in Holders
        BY <2>2, <4>2, Zenon DEF WriteType
      <4>4. \/ lease.holder = w.holder /\ lease.renew <= w.renew
            \/ /\ lease.rv = 0 \/ Expired(lease, clock)
               /\ Working(w.holder)' => confirmed'[w.holder] = w.renew
        BY <3>1, <3>3, <4>3, Zenon
      <4> QED
        BY <1>0, <2>1, <2>2, <3>2, <3>4, <4>1, <4>2, <4>4, StoreStep, Zenon
  <2> QED
    BY <2>3, <2>4, <2>5, Zenon
<1>3. CASE Tick
  <2>1. clock' = clock + 1 /\ UNCHANGED <<lease, top, orphans, pc, call, lost, cancelled, confirmed, faults>>
    BY <1>3, Zenon DEF Tick
  <2>2. TypeOK'
    <3>1. clock' \in Nat
      BY <1>0, <2>1
    <3> QED
      BY <2>1, <3>1, ZenonT(30) DEF IndInv, TypeOK
  <2>3. TimesAndVersions'
    BY <1>0, <2>1, ThreadInv DEF IndInv, TimesAndVersions
  <2>4. WritesAreChecked'
    <3> SUFFICES ASSUME NEW t \in Threads
                 PROVE  /\ Expired(call[t].seen, clock) => Expired(call[t].seen, clock')
                        /\ call[t].seen.renew <= clock => call[t].seen.renew <= clock'
      BY <2>1, Zenon DEF IndInv, WritesAreChecked, Expired
    <3>1. call[t].seen.renew \in Nat
      BY ThreadInv, Zenon DEF LeaseType
    <3> QED
      BY <1>0, <2>1, <3>1 DEF Expired
  <2>5. OrphansAreHarmless'
    <3> SUFFICES ASSUME NEW w \in orphans PROVE Harmless(w)'
      BY <2>1, Zenon DEF OrphansAreHarmless
    <3>1. w \in WriteType /\ Harmless(w)
      BY Zenon DEF IndInv, TypeOK, OrphansAreHarmless, WriteType
    <3> QED
      BY <1>0, <2>1, <3>1 DEF Harmless, Expired, WriteType
  <2>6. NotYetHolders'
    BY <2>1, Zenon DEF IndInv, NotYetHolders
  <2>7. WindowsHold'
    <3> SUFFICES ASSUME NEW h \in Holders, Working(h)
                 PROVE  /\ confirmed[h] <= clock'
                        /\ lease.holder = h => confirmed[h] <= lease.renew
                        /\ clock' < confirmed[h] + Duration => lease.holder = h
      BY <2>1, Zenon DEF WindowsHold, Working
    <3>1. confirmed[h] \in Nat
      BY ZenonT(30) DEF IndInv, TypeOK
    <3> QED
      BY <1>0, <2>1, <3>1 DEF IndInv, WindowsHold
  <2> QED
    BY <2>2, <2>3, <2>4, <2>5, <2>6, <2>7, Zenon DEF IndInv
<1>4. CASE UNCHANGED vars
  BY <1>4 DEF vars, IndInv, TypeOK, TimesAndVersions, WritesAreChecked, OrphansAreHarmless,
     Harmless, NotYetHolders, WindowsHold, Working, Expired
<1> QED
  BY <1>1, <1>2, <1>3, <1>4, RunInd, Zenon DEF Next, RunStep, ThreadStep

\* IndInv is an invariant: the times, versions, checked writes, abandoned
\* writes and windows of ExecutionLease are always as it says.
THEOREM Invariance == Spec => []IndInv
<1>1. Init => IndInv
  BY InitInd, Zenon
<1>2. IndInv /\ [Next]_vars => IndInv'
  BY NextInd, Zenon
<1> QED
  BY <1>1, <1>2, PTL DEF Spec

\* Types, and the Lease is absent exactly when it names no holder.
THEOREM TypeCorrect == Spec => []TypeOK
<1>1. IndInv => TypeOK
  BY Zenon DEF IndInv
<1> QED
  BY <1>1, Invariance, PTL

\* The lock excludes for the Duration of an acknowledged acquisition or
\* renewal, for any number of runs, faults and late writes.
THEOREM Exclusion == Spec => []HeldForDuration
<1>1. IndInv => HeldForDuration
  BY Zenon DEF IndInv, WindowsHold, HeldForDuration
<1> QED
  BY <1>1, Invariance, PTL

\* How one step may change the Lease.
LEMMA LeaseStep ==
  ASSUME IndInv, [Next]_vars, lease' # lease
  PROVE  /\ lease'.rv = 0 => pc[Main(lease.holder)] \in {"releaseDelete", "done"}
         /\ lease'.rv # 0 /\ lease'.holder = lease.holder => lease'.renew >= lease.renew
<1> USE NoneAssumption, DurationAssumption, ThreadFacts
<1>0. top \in Nat /\ clock \in Nat /\ lease \in LeaseType /\ lease.rv \in Nat /\ lease.renew \in Nat
  BY Zenon DEF IndInv, TypeOK, LeaseType
<1>1. ASSUME NEW h \in Holders, AcquireWrite(h)
      PROVE  lease'.rv # 0 /\ lease'.holder = h /\ lease.holder # h
  <2>1. Store(Pending(Main(h))) /\ Pending(Main(h)).holder = h
    BY <1>1, PendingFacts DEF AcquireWrite
  <2>2. lease.holder # h
    BY <1>1, ZenonT(30) DEF AcquireWrite, IndInv, NotYetHolders, BeforeLabels
  <2> QED
    <3>1. Pending(Main(h)).holder # None
      BY <2>1
    <3>2. lease' = [rv |-> top + 1, holder |-> h, renew |-> Pending(Main(h)).renew]
      BY <2>1, <3>1, Zenon DEF Store
    <3>3. lease'.rv = top + 1 /\ lease'.holder = h
      BY <3>2, Zenon
    <3> HIDE ThreadFacts
    <3> QED
      BY <1>0, <2>2, <3>3
<1>2. ASSUME NEW t \in Threads, RenewWrite(t)
      PROVE  lease'.rv # 0 /\ lease'.renew >= lease.renew
  <2>1. /\ Store(Pending(t)) /\ Accepts(Pending(t))
        /\ Pending(t).holder = t[1] /\ Pending(t).renew = call[t].now
        /\ Pending(t).base = call[t].seen.rv
    BY <1>2, PendingFacts, SMTT(30) DEF RenewWrite
  <2>2. lease = call[t].seen /\ lease.renew <= call[t].now
    <3>1. pc[t] = "renewWrite"
      BY <1>2, Zenon DEF RenewWrite
    <3>2. call[t].seen = lease
      BY <2>1, PendingFacts, SMTT(30) DEF Accepts
    <3>3. call[t].seen.renew <= call[t].now
      BY <3>1, Zenon DEF IndInv, WritesAreChecked
    <3> QED BY <3>2, <3>3, Zenon
  <2> QED
    <3>1. Pending(t).holder # None
      BY <2>1, ThreadInv, SMTT(30)
    <3>2. lease' = [rv |-> top + 1, holder |-> t[1], renew |-> call[t].now]
      BY <2>1, <3>1, Zenon DEF Store
    <3>3. lease'.rv = top + 1 /\ lease'.renew = call[t].now /\ call[t].now \in Nat
      BY <3>2, ThreadInv, Zenon
    <3> HIDE ThreadFacts
    <3> QED
      BY <1>0, <2>2, <3>3
<1>3. ASSUME NEW h \in Holders, ReleaseDelete(h)
      PROVE  lease'.rv = 0 /\ pc[Main(lease.holder)] = "releaseDelete"
  <2>1. /\ Store(Pending(Main(h))) /\ Accepts(Pending(Main(h)))
        /\ Pending(Main(h)).holder = None /\ Pending(Main(h)).base = call[Main(h)].seen.rv
    BY <1>3, PendingFacts, ZenonT(30) DEF ReleaseDelete
  <2>2. lease.holder = h
    BY <1>3, <2>1, PendingFacts DEF ReleaseDelete, Accepts, IndInv, WritesAreChecked
  <2> QED
    BY <1>3, <2>1, <2>2, SMTT(30) DEF Store, Absent, ReleaseDelete
<1>4. CASE OrphanArrives
  <2>1. PICK w \in orphans : Accepts(w) /\ Store(w)
    BY <1>4, Zenon DEF OrphanArrives
  <2>2. Harmless(w) /\ w \in WriteType
    BY Zenon DEF IndInv, OrphansAreHarmless, TypeOK, WriteType
  <2>3. CASE w.holder = None
    BY <1>0, <2>1, <2>2, <2>3, Zenon DEF Harmless, Accepts, Store, Absent
  <2>4. CASE w.holder # None
    <3>1. lease'.rv = top + 1 /\ lease'.holder = w.holder /\ lease'.renew = w.renew
      BY <2>1, <2>4, Zenon DEF Store
    <3>2. lease.holder = w.holder => lease.renew <= w.renew
      BY <1>0, <2>1, <2>2, <2>4, Zenon DEF Harmless, Accepts, WriteType, IndInv, TypeOK, Absent
    <3> QED
      BY <1>0, <2>2, <3>1, <3>2, SMTT(30) DEF WriteType
  <2> QED
    BY <2>3, <2>4, Zenon
<1>5. CASE /\ ~OrphanArrives
           /\ \A h \in Holders : ~AcquireWrite(h) /\ ~ReleaseDelete(h)
           /\ \A t \in Threads : ~RenewWrite(t)
  BY <1>5, Zenon DEF Next, vars, HolderStep, ThreadStep, AcquireStart, AcquireGet, AcquireCheck, EnsureHeld,
     LoopTick, Mutate, Finish, Cancel, LoopExit, Close, ReleaseGet, RenewGet, RenewStamp, CallFails, Tick
<1> QED
  BY <1>1, <1>2, <1>3, <1>4, <1>5, ZenonT(30)

\* Only the run a Lease names deletes it.
THEOREM OwnReleases == Spec => ReleasesOnlyOwn
<1>1. IndInv /\ [Next]_vars =>
        [lease.rv > 0 /\ lease'.rv = 0 => pc[Main(lease.holder)] \in {"releaseDelete", "done"}]_lease
  BY LeaseStep, Zenon
<1> QED
  BY <1>1, Invariance, PTL DEF Spec, ReleasesOnlyOwn

\* No renewal, of either thread or arriving late, sets a Lease back.
THEOREM ForwardRenewals == Spec => RenewalsMoveForward
<1>1. IndInv /\ [Next]_vars =>
        [lease.rv > 0 /\ lease'.holder = lease.holder => lease'.renew >= lease.renew]_lease
  <2> SUFFICES ASSUME IndInv, [Next]_vars, lease' # lease, lease.rv > 0, lease'.holder = lease.holder
               PROVE  lease'.renew >= lease.renew
    BY Zenon
  <2>1. lease.holder # None /\ TypeOK'
    BY NextInd, Zenon DEF IndInv, TypeOK, LeaseType
  <2>2. lease'.rv # 0
    BY <2>1 DEF TypeOK, Absent
  <2> QED
    BY <2>2, LeaseStep, Zenon
<1> QED
  BY <1>1, Invariance, PTL DEF Spec, RenewalsMoveForward
=============================================================================
