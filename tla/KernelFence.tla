---------------------------- MODULE KernelFence ----------------------------
(***************************************************************************)
(* The kernel network authority of one cgroup: the installer of decision   *)
(* capsules (internal/kernelfabric/installer.go, lease.go, abi.go), the    *)
(* pinned maps it writes through bpftool (bpftool_store_linux.go) and the  *)
(* connect program that evaluates them (kernel/bpf/aegis_connect.bpf.c,    *)
(* evaluator.go).                                                          *)
(*                                                                         *)
(* The maps are one fence of the scope and one capsule under each of two   *)
(* keys, an exact destination and the wildcard.  An installer call writes  *)
(* the fence and then the capsule; a revocation reads the fence and writes *)
(* it back; a connect reads the fence and then a capsule.  The clock is    *)
(* the monotonic one; a reboot empties the maps.  The authority term is    *)
(* compared in the same place as the decision epoch and stays constant.    *)
(***************************************************************************)
EXTENDS Naturals, FiniteSets

CONSTANTS
    Installers,    \* concurrent calls of Install
    Revokers,      \* concurrent calls of RevokeCurrentScope
    MaxDecision,   \* bound: decisions installed
    MaxRevocation, \* bound: the exhaustion of the revocation epoch
    MaxTime,       \* bound: monotonic clock
    MaxLifetime,   \* the lease's max lifetime
    MaxBoot,       \* bound: reboots
    None

VARIABLES
    mono, boot,
    fence,      \* the scope fence, None when the map has none
    capsules,   \* the capsule under each key
    decisions,  \* decision epochs handed to an installer so far
    inst, rev,  \* the calls under way
    conn,       \* the connect under way
    live,       \* history: capsules that matched the fence when they were written
    dead        \* history: capsules of live that a later fence contradicted

vars == <<mono, boot, fence, capsules, decisions, inst, rev, conn, live, dead>>
Keys == {"exact", "wildcard"}
Off == [pc |-> "off"]

-----------------------------------------------------------------------------
\* BindExternalLease: the rest of the external validity, at most MaxLifetime,
\* from the clock of the installation.
BindExternalLease(rest, t) ==
    [installed |-> t, deadline |-> t + (IF rest <= MaxLifetime THEN rest ELSE MaxLifetime), boot |-> boot]

\* ValidateCapsule.
ValidateCapsule(c) ==
    /\ c.boot > 0 /\ c.decision > 0 /\ c.deadline > c.installed
    /\ c.verdict \in {"ALLOW", "BLOCK"}

\* The epochs a capsule shares with the fence.
Matches(f, c) == c.boot = f.boot /\ c.decision = f.decision /\ c.revocation = f.revocation

\* EvaluateReference and enforce_connect: the verdict on a fence and a capsule.
EvaluateReference(f, c, t) ==
    /\ f # None /\ c # None
    /\ Matches(f, c)
    /\ c.deadline # 0 /\ t <= c.deadline
    /\ c.verdict = "ALLOW"

\* lookup_capsule: the exact destination before the wildcard.
LookupCapsule == IF capsules["exact"] # None THEN capsules["exact"] ELSE capsules["wildcard"]

\* The history follows every write to the maps.
Track(f, cs) ==
    LET here == {cs[k] : k \in Keys} \ {None} IN
    /\ live' = live \cup {c \in here : f # None /\ Matches(f, c)}
    /\ dead' = dead \cup {c \in live : f = None \/ ~Matches(f, c)}

-----------------------------------------------------------------------------
(* BPFToolStore.                                                           *)

PutFence(f) == fence' = f /\ Track(f, capsules) /\ UNCHANGED capsules
PutCapsule(k, c) ==
    capsules' = [capsules EXCEPT ![k] = c] /\ Track(fence, capsules') /\ UNCHANGED fence
DeleteCapsule(k) ==
    capsules' = [capsules EXCEPT ![k] = None] /\ Track(fence, capsules') /\ UNCHANGED fence

-----------------------------------------------------------------------------
(* Install.                                                                *)

\* The request and the lease are bound before the first write.  The epochs come
\* with the request: a new decision, and the revocation epoch that its author
\* saw in the fence.
Install(i) ==
    /\ inst[i] = Off /\ decisions < MaxDecision
    /\ decisions' = decisions + 1
    /\ \E k \in Keys, v \in {"ALLOW", "BLOCK"}, rest \in 1..MaxLifetime + 1 :
          LET lease == BindExternalLease(rest, mono)
              c == [decision |-> decisions + 1,
                    revocation |-> IF fence = None THEN 0 ELSE fence.revocation,
                    boot |-> lease.boot, installed |-> lease.installed,
                    deadline |-> lease.deadline, verdict |-> v] IN
          /\ ValidateCapsule(c)
          /\ inst' = [inst EXCEPT ![i] = [pc |-> "fence", key |-> k, capsule |-> c]]
    /\ UNCHANGED <<mono, boot, fence, capsules, rev, conn, live, dead>>

\* Fence first; a failed write ends the call.
InstallFence(i) ==
    LET c == inst[i].capsule IN
    /\ inst[i].pc = "fence"
    /\ \/ /\ PutFence([boot |-> c.boot, decision |-> c.decision, revocation |-> c.revocation])
          /\ inst' = [inst EXCEPT ![i].pc = "capsule"]
       \/ inst' = [inst EXCEPT ![i] = Off] /\ UNCHANGED <<fence, capsules, live, dead>>
    /\ UNCHANGED <<mono, boot, decisions, rev, conn>>

\* Then the capsule; when that fails the key is deleted, if the deletion works.
InstallCapsule(i) ==
    /\ inst[i].pc = "capsule"
    /\ inst' = [inst EXCEPT ![i] = Off]
    /\ \/ PutCapsule(inst[i].key, inst[i].capsule)
       \/ DeleteCapsule(inst[i].key)
       \/ UNCHANGED <<fence, capsules, live, dead>>
    /\ UNCHANGED <<mono, boot, decisions, rev, conn>>

-----------------------------------------------------------------------------
(* RevokeCurrentScope.                                                     *)

\* GetFence and the checks on it.
GetFence(r) ==
    /\ rev[r] = Off /\ fence # None
    /\ fence.revocation < MaxRevocation
    /\ rev' = [rev EXCEPT ![r] = [pc |-> "put", fence |-> fence]]
    /\ UNCHANGED <<mono, boot, fence, capsules, decisions, inst, conn, live, dead>>

\* RevokeScope: the fence that was read, with the next revocation epoch.
RevokeScope(r) ==
    /\ rev[r].pc = "put"
    /\ PutFence([rev[r].fence EXCEPT !.revocation = @ + 1])
    /\ rev' = [rev EXCEPT ![r] = Off]
    /\ UNCHANGED <<mono, boot, decisions, inst, conn>>

-----------------------------------------------------------------------------
(* The connect program.                                                    *)

\* enforce_connect takes the time and looks up the fence.
EnforceConnect ==
    /\ conn.pc # "capsule"
    /\ conn' = [pc |-> "capsule", at |-> mono, fence |-> fence, dead |-> dead, capsule |-> None,
                allow |-> FALSE]
    /\ UNCHANGED <<mono, boot, fence, capsules, decisions, inst, rev, live, dead>>

\* Mutant: an expired capsule is not refused.
VerdictUnexpired ==
    /\ conn.pc = "capsule"
    /\ conn' = [conn EXCEPT !.pc = "done", !.capsule = LookupCapsule,
                            !.allow = EvaluateReference(conn.fence, LookupCapsule, 0)]
    /\ UNCHANGED <<mono, boot, fence, capsules, decisions, inst, rev, live, dead>>

\* Then it looks up the capsule and decides.
ConnectVerdict ==
    /\ conn.pc = "capsule"
    /\ conn' = [conn EXCEPT !.pc = "done", !.capsule = LookupCapsule,
                            !.allow = EvaluateReference(conn.fence, LookupCapsule, conn.at)]
    /\ UNCHANGED <<mono, boot, fence, capsules, decisions, inst, rev, live, dead>>

-----------------------------------------------------------------------------
Tick ==
    /\ mono < MaxTime /\ mono' = mono + 1
    /\ UNCHANGED <<boot, fence, capsules, decisions, inst, rev, conn, live, dead>>

\* A reboot: new boot id, clock from the start, no pinned maps, no callers.
Reboot ==
    /\ boot < MaxBoot /\ boot' = boot + 1 /\ mono' = 1
    /\ fence' = None /\ capsules' = [k \in Keys |-> None] /\ Track(None, capsules')
    /\ inst' = [i \in Installers |-> Off] /\ rev' = [r \in Revokers |-> Off] /\ conn' = Off
    /\ UNCHANGED decisions

Init ==
    /\ mono = 1 /\ boot = 1 /\ fence = None /\ capsules = [k \in Keys |-> None] /\ decisions = 0
    /\ inst = [i \in Installers |-> Off] /\ rev = [r \in Revokers |-> Off] /\ conn = Off
    /\ live = {} /\ dead = {}

Next ==
    \/ \E i \in Installers : Install(i) \/ InstallFence(i) \/ InstallCapsule(i)
    \/ \E r \in Revokers : GetFence(r) \/ RevokeScope(r)
    \/ EnforceConnect \/ ConnectVerdict \/ Tick \/ Reboot

Spec == Init /\ [][Next]_vars

-----------------------------------------------------------------------------
(* Properties.                                                             *)

\* The maps hold what ValidateCapsule accepts, for the boot they belong to.
TypeOK ==
    /\ mono \in 1..MaxTime /\ boot \in 1..MaxBoot
    /\ \A k \in Keys : capsules[k] # None => ValidateCapsule(capsules[k]) /\ capsules[k].boot = boot
    /\ fence # None => fence.boot = boot /\ fence.revocation <= MaxRevocation /\ fence.decision <= decisions

\* A capsule that a newer decision, a revocation or a reboot has invalidated is
\* never valid again, although a revocation writes back a fence it read before
\* the newer decision was installed.
InvalidatedStaysInvalid ==
    fence # None => \A k \in Keys : capsules[k] \in dead => ~Matches(fence, capsules[k])

\* A connect that is allowed used a capsule no write had invalidated before the
\* connect began, within its lease on the clock of this boot.
AllowedIsCurrent ==
    conn.pc = "done" /\ conn.allow =>
        /\ conn.capsule \notin conn.dead
        /\ conn.at <= conn.capsule.installed + MaxLifetime
        /\ conn.capsule.boot = boot

\* No connect is allowed by a capsule older than one that some fence has
\* already superseded.  This is what the enforcement document says of decision
\* epochs; it needs the calls of Install to be one after another.
NewerDecisionHolds ==
    fence # None => \A k \in Keys : capsules[k] # None /\ Matches(fence, capsules[k]) =>
        \A c \in live : c.boot = boot => c.decision <= capsules[k].decision
=============================================================================
