-------------------------- MODULE MCAdminProposals -------------------------
(* The instance of AdminProposals that TLC checks: every connection is      *)
(* approved by the one person u1.  No symmetry: the run checks liveness.    *)
EXTENDS AdminProposals

CONSTANTS u1

MCPersonOf == [c \in Conns |-> u1]
============================================================================
