------------------------ MODULE MCDocumentLifecycle ------------------------
(* Instances of DocumentLifecycle for TLC. *)
EXTENDS DocumentLifecycle, TLC

\* Passes and requests have no identity but the row lock they hold.
WorkerSymmetry == Permutations(Workers)
ClientSymmetry == Permutations(Clients)

=============================================================================
