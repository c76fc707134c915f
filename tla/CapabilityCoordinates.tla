----------------------- MODULE CapabilityCoordinates -----------------------
(***************************************************************************)
(* The coordinates of an authority (egeproto.CapabilityAuthoritySnapshot)  *)
(* and the order in which monotonic roots compare them                     *)
(* (internal/server/capability_monotonic_root.go).                         *)
(***************************************************************************)
EXTENDS Naturals

Snapshot == [dom : STRING, term : Nat, dec : Nat, rev : Nat]

\* validateCapabilityAuthoritySnapshot: domain, term and decision epoch are set.
ValidSnapshot(a) == a.dom # "" /\ a.term # 0 /\ a.dec # 0

Ahead(a, b) ==
    /\ a.term >= b.term
    /\ \/ a.term > b.term
       \/ a.dec >= b.dec /\ a.rev >= b.rev /\ (a.dec > b.dec \/ a.rev > b.rev)

\* compareCapabilityMonotonicRoot(root, observed): "equal", "ahead", "behind",
\* or "error" for two domains and for epochs that cross within one term.
Compare(root, observed) ==
    CASE ~ValidSnapshot(root) \/ ~ValidSnapshot(observed) -> "error"
      [] root.dom # observed.dom -> "error"
      [] root = observed -> "equal"
      [] Ahead(root, observed) -> "ahead"
      [] Ahead(observed, root) -> "behind"
      [] OTHER -> "error"

\* One domain, and ahead in it: how a mark may rise.
Supersedes(a, b) == a.dom = b.dom /\ Ahead(a, b)

AtLeast(a, b) == a = b \/ Supersedes(a, b)
=============================================================================
