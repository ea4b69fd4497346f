-------------------------- MODULE MCVoteDelegation --------------------------
(***************************************************************************)
(* Model checking of VoteDelegation: the delegations at the beginning.     *)
(***************************************************************************)
EXTENDS VoteDelegation, TLC

Symmetry == Permutations(Member)

Row(m, scope, t) == [truster |-> m, scope |-> scope, trustee |-> t]

\* Every graph of delegations for the area: trees, chains and cycles.  Members
\* add those of another scope by UpdateDelegation.
AreaGraphs ==
    {{Row(m, "area", f[m]) : m \in {k \in Member : f[k] # k}} : f \in [Member -> Member]}

=============================================================================
