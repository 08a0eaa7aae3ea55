----------------------------- MODULE GroupGraph -----------------------------
(* Group membership: who a principal acts as (packages/core/authz/principals.ts). *)

CONSTANT Principals   \* users, service accounts and groups

\* The principal and every group it is in, however deep and around whatever
\* cycle: what belongs to every set that holds it and is closed under membership.
EffectivePrincipals(edges, p) ==
    {q \in Principals : \A S \in SUBSET Principals :
        p \in S /\ (\A e \in edges : e[1] \in S => e[2] \in S) => q \in S}

=============================================================================
