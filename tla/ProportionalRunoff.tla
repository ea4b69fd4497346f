------------------------- MODULE ProportionalRunoff -------------------------
(***************************************************************************)
(* The proportional runoff of lf_update_suggestion_order.c, which          *)
(* lf_update_issue_order.c repeats for ballots of one section: seats are   *)
(* given from the worst to the best, each to the candidate that is the     *)
(* last to fill its score when all ballots pour their weight, evenly, over *)
(* the candidates they prefer among those left.                            *)
(*                                                                         *)
(* A candidate is its id.  A ballot is [weight, sections], its sections    *)
(* being sets of candidates, the preferred ones first.  Scores are exact   *)
(* here, multiples of 1/one, where the code has doubles: a tie that        *)
(* doubles would round is a tie.                                           *)
(***************************************************************************)
EXTENDS Integers, Sequences, FiniteSets, FiniteSetsExt

VARIABLES
    ballots,        \* the ballot of each member who has one
    seat,           \* candidates[]: their seats, 0 for none yet
    score, one      \* score[c] / one is the score of candidate c in this round

runoff == <<ballots, seat, score, one>>

Unseated == {c \in DOMAIN seat : seat[c] = 0}

\* The candidates that are left in this round: they have no seat, and a score
\* below 1.
Left == {c \in Unseated : score[c] < one}

\* Variant: all sections count at once ("break" is missing).
MatchesAll(b) == Left \cap UNION {b.sections[j] : j \in DOMAIN b.sections}

\* The candidates a ballot counts for: those that are left in its first section
\* that has any.
Matches(b) ==
    LET some == {j \in DOMAIN b.sections : b.sections[j] \cap Left # {}}
    IN  IF some = {} THEN {} ELSE b.sections[Min(some)] \cap Left

\* The part of a ballot's weight that each of its matches gets, in units that
\* make it a whole number.
Share(b) == b.weight * (ProductSet(1 .. Cardinality(Left)) \div Cardinality(Matches(b)))

ScorePerStep ==
    [c \in Left |->
        MapThenSumSet(LAMBDA v : Share(ballots[v]),
                      {v \in DOMAIN ballots : c \in Matches(ballots[v])})]

Need(c) == one - score[c]
Moving(step) == {c \in Left : step[c] > 0}

\* Variant: the comparison is turned around.
LastFull(step) ==
    {c \in Moving(step) : \A d \in Moving(step) : Need(c) * step[d] >= Need(d) * step[c]}

\* Those that are the first to fill their score.
FirstFull(step) ==
    {c \in Moving(step) : \A d \in Moving(step) : Need(c) * step[d] <= Need(d) * step[c]}

\* The ballots and the candidates of a new runoff.
SetUp(b, candidates) ==
    /\ ballots' = b
    /\ seat' = [c \in candidates |-> 0]
    /\ score' = [c \in candidates |-> 0] /\ one' = 1

\* One turn of the loop: all scores grow at their pace until the first is full.
\* The loop is left when one candidate remains, so that of those which fill
\* their scores together the last one, by id, may stay.
Turn ==
    /\ Cardinality(Left) > 1
    /\ \E step \in {ScorePerStep} : \E first \in {FirstFull(step)} :
        \E f \in {c \in first : \A d \in first : c <= d} :
            /\ score' = [c \in DOMAIN seat |->
                            IF c \in Left /\ ~(first = Left /\ c = Max(Left))
                              THEN score[c] * step[f] + Need(f) * step[c]
                              ELSE score[c] * step[f]]
            /\ one' = one * step[f]
    /\ UNCHANGED <<ballots, seat>>

\* The candidate that remains gets the worst of the seats there are, and the
\* scores of all are reset.
GiveSeat ==
    /\ Cardinality(Left) = 1
    /\ \E c \in Left : seat' = [seat EXCEPT ![c] = Cardinality(Unseated)]
    /\ score' = [c \in DOMAIN seat |-> 0] /\ one' = 1
    /\ UNCHANGED ballots

Seated == Unseated = {}

-----------------------------------------------------------------------------
RunoffTypeOK ==
    /\ \A v \in DOMAIN ballots :
        /\ ballots[v].weight \in Nat \ {0}
        /\ \A j \in DOMAIN ballots[v].sections : ballots[v].sections[j] \subseteq DOMAIN seat
    /\ seat \in [DOMAIN seat -> Nat] /\ score \in [DOMAIN seat -> Nat] /\ one \in Nat \ {0}
    /\ \A c \in DOMAIN seat : score[c] <= one

\* What proportional means.  The ballots that put the candidates of a group
\* before all others are its supporters ...
Advocates(group) ==
    {v \in DOMAIN ballots :
        \E j \in DOMAIN ballots[v].sections :
            UNION {ballots[v].sections[k] : k \in 1 .. j} = group}

WeightOf(voters) == MapThenSumSet(LAMBDA v : ballots[v].weight, voters)

\* ... and as long as they have more than their share of the seats that are
\* left, no candidate of the group gets the worst of them.
Proportional ==
    \A group \in (SUBSET DOMAIN seat) \ {{}} :
        LET part == WeightOf(Advocates(group))
            all  == WeightOf(DOMAIN ballots)
        IN  \A m \in Cardinality(group) + 1 .. Cardinality(DOMAIN seat) :
                part * m > Cardinality(group) * all =>
                    \A c \in group : seat[c] < m
=============================================================================
