----------------------- MODULE MCAuthorizedExecution ------------------------
(***************************************************************************)
(* The prepare and execute handlers of the server, and the rooted          *)
(* capability authority that their fences are read from. The handlers take *)
(* the authority's answers as a counter that only rises; that it does,     *)
(* through restores of everything below the root, is what the root is for. *)
(* A behaviour moves one of the two and leaves the other in its initial    *)
(* state.                                                                  *)
(***************************************************************************)
EXTENDS EGEExecution, TLC

CONSTANTS Parts, f1, f2, u1, c1, c2, s1, s2, None, Nobody, Torn

VARIABLE part   \* the component this behaviour moves

MCFenced == {f1, f2}
MCAll == {f1, f2, u1}
MCSymmetry == Permutations(MCFenced) \cup Permutations({c1, c2})

\* Two steps of one authority domain, and one of another.
Step(n) == [dom |-> "d1", term |-> 1, dec |-> n, rev |-> 0]
MCSnapshots == {Step(1), Step(2), [Step(1) EXCEPT !.dom = "d2"]}

\* CapabilityRoot.
VARIABLES r_ledger, r_durable, r_head, r_late, r_flock, r_pc, r_loc, r_told, r_restores
rootVars == <<r_ledger, r_durable, r_head, r_late, r_flock, r_pc, r_loc, r_told,
              r_restores>>
Root == INSTANCE CapabilityRoot WITH
    Callers <- {c1, c2}, Scopes <- {s1, s2}, Snapshots <- MCSnapshots, MaxSequence <- 2,
    MaxLate <- 1, MaxRestores <- 1, None <- None, Nobody <- Nobody, Torn <- Torn,
    ledger <- r_ledger, durable <- r_durable, head <- r_head, late <- r_late,
    flock <- r_flock, pc <- r_pc, loc <- r_loc, told <- r_told, restores <- r_restores

SuiteVars == <<part, vars, rootVars>>

\* The root with one scope and writes that arrive late, or with two
\* scopes, where the sequence runs out, and one authority domain.
RootNext ==
  /\ part # "handlers"
  /\ Root!Next
  /\ part = "late" => \A c \in {c1, c2} : r_loc'[c].scope # s2
  /\ part = "scopes" => r_late' = {} /\ r_restores' = 0 /\ \A c \in {c1, c2} : r_loc'[c].obs \in {Step(1), Step(2), None}

SuiteInit ==
  /\ part \in Parts
  /\ Init
  /\ Root!Init

SuiteNext ==
  /\ UNCHANGED part
  /\ \/ part = "handlers" /\ Next /\ UNCHANGED <<rootVars>>
     \/ RootNext /\ UNCHANGED <<vars>>

SuiteSpec == SuiteInit /\ [][SuiteNext]_SuiteVars

-----------------------------------------------------------------------------
\* Through restores of the authority and of the ledger, torn lines, lost tails
\* and late writes, nobody is told coordinates below what the root had returned
\* for the scope before, nor below what the authority reported to that call; and
\* what was told is in the history that the external head commits to.  The root
\* is a MonotonicRoot: one mark per scope, which only rises and of which every
\* answer is a reading; while the ledger differs from the committed history, by a
\* half-done advance or a restored copy, nobody is told anything.
RootIsMonotonic ==
  /\ [](Root!TypeOK /\ Root!AnswersNeverFall /\ Root!AnswersCoverObservation /\ Root!ToldIsAnchored)
  /\ Root!RefinesMonotonicRoot /\ Root!HeadOnlyExtends /\ Root!ClosedWhileApart
=============================================================================
