----------------------------- MODULE MCSessions -----------------------------
(* Instances of Sessions for TLC. *)
EXTENDS Sessions, TLC

\* Calls have no identity but the locks they hold.
CallSymmetry == Permutations(Calls)

=============================================================================
