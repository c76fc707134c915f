--------------------------- MODULE MonotonicRoot ---------------------------
(***************************************************************************)
(* What the comment on CapabilityMonotonicRoot                             *)
(* (internal/server/capability_monotonic_root.go) promises: one high-water *)
(* mark per scope, which only rises, and of which every answer is a        *)
(* reading.  An implementation may raise the mark for a caller it never    *)
(* answers, and may answer nobody at all.  DurableHeadAnchor               *)
(* (internal/kernelfabric/durable_head_anchor.go) promises the same of one *)
(* head, which rises by one sequence number at a time.                     *)
(***************************************************************************)
CONSTANTS
    Scopes, None,
    Above(_, _)     \* Above(v, r): a mark r may rise to v

VARIABLES root, told

\* Advance: the mark of a scope is set, or rises from what it was.
Raise(s) ==
    /\ \E v \in {root'[s]} :
           /\ root' = [root EXCEPT ![s] = v]
           /\ root[s] = None \/ (v # None /\ Above(v, root[s]))
    /\ UNCHANGED told

\* Advance and Current return the mark.
Answer(s) ==
    /\ root[s] # None
    /\ told' = [told EXCEPT ![s] = root[s]]
    /\ UNCHANGED root

Init == root = [s \in Scopes |-> None] /\ told = [s \in Scopes |-> None]

Next == \E s \in Scopes : Raise(s) \/ Answer(s)

Spec == Init /\ [][Next]_<<root, told>>
=============================================================================
