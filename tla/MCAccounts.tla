----------------------------- MODULE MCAccounts ----------------------------
(* The instance of Accounts that TLC checks.                                *)
EXTENDS Accounts, TLC

AccountSymmetry == Permutations(Calls) \cup Permutations(Challenges) \cup Permutations(Codes)
============================================================================
