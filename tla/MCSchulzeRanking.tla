-------------------------- MODULE MCSchulzeRanking --------------------------
(***************************************************************************)
(* Model checking of SchulzeRanking: ballots and policies.                 *)
(***************************************************************************)
EXTENDS SchulzeRanking, TLC

Symmetry == Permutations(Voter)

\* Every weak order of the candidates, once: the grades a ballot uses on
\* either side of the status quo are consecutive.
AllBallots ==
    {g \in [Initiatives -> (1 - Dim) .. (Dim - 1)] :
        \A i \in Initiatives :
            /\ g[i] > 1  => \E j \in Initiatives : g[j] = g[i] - 1
            /\ g[i] < -1 => \E j \in Initiatives : g[j] = g[i] + 1}

\* Rejection, abstention and approval, or an order of all initiatives.
Grades ==
    [Initiatives -> {-1, 0, 1}] \cup
    {g \in [Initiatives -> 1 .. Dim - 1] : \A i, j \in Initiatives : i # j => g[i] # g[j]}

\* Abstention and two grades of approval.
Approvals == [Initiatives -> {0, 1, 2}]

\* More than half, the default; other majorities a policy may require.
Half    == [num |-> 1, den |-> 2, strict |-> TRUE,  positive |-> 0, non_negative |-> 0]
Third   == [num |-> 1, den |-> 3, strict |-> FALSE, positive |-> 1, non_negative |-> 1]
TwoThirds == [num |-> 2, den |-> 3, strict |-> TRUE, positive |-> 0, non_negative |-> 0]
Nothing == [num |-> 0, den |-> 1, strict |-> FALSE, positive |-> 0, non_negative |-> 0]

\* The default policy (core.sql 378-391).
Default == [defeat_strength |-> "tuple", tie_breaking |-> "variant1",
            direct |-> Half, indirect |-> Half,
            no_reverse_beat_path |-> FALSE, no_multistage_majority |-> FALSE]

\* The ways to measure defeats and to break ties, but "simple" tie-breaking.
Variants == {Default,
             [Default EXCEPT !.defeat_strength = "simple", !.tie_breaking = "variant2"]}

SimpleTieBreaking == {[Default EXCEPT !.tie_breaking = "simple"]}

\* Policies that restrict who may win, each in its own way, and one without
\* sequential tie-breaking.
Restrictions ==
    LET free   == [Default EXCEPT !.direct = Nothing]
        simple == [Default EXCEPT !.no_reverse_beat_path = TRUE]
    IN  SimpleTieBreaking \cup
        {free, simple,
         [free EXCEPT !.indirect = Nothing], [simple EXCEPT !.indirect = Nothing],
         [Default EXCEPT !.direct = TwoThirds, !.no_multistage_majority = TRUE],
         [simple EXCEPT !.direct = Third, !.indirect = Third]}
=============================================================================
