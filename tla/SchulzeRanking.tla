--------------------------- MODULE SchulzeRanking ---------------------------
(***************************************************************************)
(* The result of a vote: close_voting counts the ballots of an issue pair  *)
(* by pair, calculate_ranks orders the candidates by the Schulze method    *)
(* and selects the winner.                                                 *)
(*                                                                         *)
(* Candidates are numbered as the arrays of calculate_ranks are: 1 is the  *)
(* status quo, the others are the admitted initiatives by ascending id.    *)
(* Every action is one pass of one of the program's loops, or the          *)
(* straight-line code between two of them.                                 *)
(***************************************************************************)
EXTENDS Integers, FiniteSets

CONSTANTS
    Voter,      \* members with voting right; a delegated vote is one more voter
    Dim,        \* "dimension_v": number of candidates, the status quo included
    Ballot,     \* the ballots that may be cast: a grade for every initiative
    Policy,     \* the policies an issue may have
    Null        \* SQL NULL

Candidate   == 1 .. Dim
StatusQuo   == 1
Initiatives == Candidate \ {StatusQuo}
Pairs       == {q \in Candidate \X Candidate : q[1] # q[2]}
Reverse(q)  == <<q[2], q[1]>>

Majority == [num : Nat, den : Nat, strict : BOOLEAN, positive : Nat, non_negative : Nat]

PolicyRow == {pol \in [defeat_strength : {"simple", "tuple"},
                       tie_breaking : {"simple", "variant1", "variant2"},
                       direct : Majority, indirect : Majority,
                       no_reverse_beat_path : BOOLEAN,
                       no_multistage_majority : BOOLEAN] :
                 pol.no_reverse_beat_path => pol.defeat_strength = "tuple"}

ASSUME VoterAssumption  == IsFiniteSet(Voter)
ASSUME DimAssumption    == Dim \in Nat /\ Dim >= 2
ASSUME BallotAssumption == Ballot \subseteq [Initiatives -> Int] /\ Null \notin Ballot
ASSUME PolicyAssumption == Policy \subseteq PolicyRow

VARIABLES
    policy,       \* the row of the issue's policy
    ballot,       \* the votes of every direct voter; Null: did not vote
    step,         \* where the two functions are
    battle,       \* table "battle": how many prefer the first to the second
    first_preference_votes,
    voter_count,
    matrix_t,     \* paths under construction: find_best_paths, tie-breaking
    pivot,        \* "i" of find_best_paths
    forbidden,    \* "matrix_f": links ignored for tie-breaking
    matrix_p,     \* strengths of the best paths, before tie-breaking
    beats,        \* "matrix_b": pairs for which it is TRUE; NULL if in neither order
    rank_ary,     \* Schulze ranks; 0: not assigned
    rank_v,       \* the next rank
    result        \* the columns of table "initiative" that hold the result

vars == <<policy, ballot, step, battle, first_preference_votes, voter_count, matrix_t,
          pivot, forbidden, matrix_p, beats, rank_ary, rank_v, result>>

count == <<battle, first_preference_votes, voter_count>>
paths == <<matrix_t, pivot, forbidden>>
ranks == <<rank_ary, rank_v>>

-----------------------------------------------------------------------------
(* Counting: close_voting. *)

DirectVoter == {v \in Voter : ballot[v] # Null}

Grade(v, c) == IF c = StatusQuo THEN 0 ELSE ballot[v][c]

Prefers(v, q) == Grade(v, q[1]) > Grade(v, q[2])

FirstPreference(v, c) ==
    /\ Grade(v, c) > 0
    /\ \A d \in Initiatives : Grade(v, d) <= Grade(v, c)

CloseVoting ==
    /\ step = "close"
    /\ battle' = [q \in Pairs |-> Cardinality({v \in DirectVoter : Prefers(v, q)})]
    /\ first_preference_votes' = [c \in Initiatives |->
                                    Cardinality({v \in DirectVoter : FirstPreference(v, c)})]
    /\ voter_count' = Cardinality(DirectVoter)
    /\ step' = "links"
    /\ UNCHANGED <<policy, ballot, paths, matrix_p, beats, ranks, result>>

-----------------------------------------------------------------------------
(* Links and their strengths.  The program packs two numbers into 64 bits, *)
(* the first times 2^31; any factor greater than the numbers keeps the     *)
(* order.                                                                  *)

VoteFactor == Cardinality(Voter) + 1
OrdFactor  == Dim + 1

DefeatStrength(positive, negative) ==
    IF policy.defeat_strength = "simple"
    THEN IF positive > negative THEN positive ELSE 0
    ELSE IF positive > negative THEN positive * VoteFactor - negative
         ELSE IF positive = negative THEN 0 ELSE -1

SecondaryLinkStrength(i, j) ==
    IF policy.tie_breaking = "simple" THEN 0
    ELSE (IF i < j THEN 2 * OrdFactor * OrdFactor ELSE 0)
         + (IF policy.tie_breaking = "variant2" THEN j * OrdFactor - i ELSE j - i * OrdFactor)

Link(q) == [primary   |-> DefeatStrength(battle[q], battle[Reverse(q)]),
            secondary |-> SecondaryLinkStrength(q[1], q[2])]

LinkStrength == [primary : Int, secondary : Int]

\* No link is as weak as a forbidden one.
WorstLink == [primary |-> -2, secondary |-> 0]

\* Variant: the columns of the type are in the other order.
WeakerSecondaryFirst(x, y) == \/ x.secondary < y.secondary
                              \/ x.secondary = y.secondary /\ x.primary < y.primary

Weaker(x, y) == \/ x.primary < y.primary
                \/ x.primary = y.primary /\ x.secondary < y.secondary

Stronger(x, y) == IF Weaker(x, y) THEN y ELSE x
Weakest(x, y)  == IF Weaker(x, y) THEN x ELSE y

FindDirectLinks ==
    /\ step = "links"
    /\ matrix_t' = [q \in Pairs |-> Link(q)]
    /\ pivot' = 1
    /\ step' = "paths"
    /\ UNCHANGED <<policy, ballot, count, forbidden, matrix_p, beats, ranks, result>>

\* Paths may lead through candidate k.
Through(m, k) ==
    [q \in Pairs |->
        IF k \in {q[1], q[2]} THEN m[q]
        ELSE Stronger(m[q], Weakest(m[<<q[1], k>>], m[<<k, q[2]>>]))]

\* Variant: the loops over the ends of a path are outside the one over the
\* candidate in the middle.
FindBestPathsOutside ==
    /\ step = "paths"
    /\ matrix_t' = [q \in Pairs |->
            IF q[1] # pivot THEN matrix_t[q]
            ELSE LET Over(k) == IF k \in {q[1], q[2]} THEN matrix_t[q]
                                ELSE Weakest(matrix_t[<<q[1], k>>], matrix_t[<<k, q[2]>>])
                 IN  Over(CHOOSE k \in Candidate :
                            \A d \in Candidate : ~Weaker(Over(k), Over(d)))]
    /\ pivot' = pivot + 1
    /\ step' = IF pivot = Dim THEN "order" ELSE "paths"
    /\ UNCHANGED <<policy, ballot, count, forbidden, matrix_p, beats, ranks, result>>

\* One pass of the outer loop of find_best_paths.
FindBestPaths ==
    /\ step = "paths"
    /\ matrix_t' = Through(matrix_t, pivot)
    /\ pivot' = pivot + 1
    /\ step' = IF pivot = Dim THEN "order" ELSE "paths"
    /\ UNCHANGED <<policy, ballot, count, forbidden, matrix_p, beats, ranks, result>>

-----------------------------------------------------------------------------
(* Order of the candidates, and tie-breaking. *)

Beaten(q) == Weaker(matrix_t[Reverse(q)], matrix_t[q])

Undecided(q) == q \notin beats /\ Reverse(q) \notin beats

CreatePartialOrder ==
    /\ step = "order"
    /\ forbidden = {}
    /\ matrix_p' = matrix_t
    /\ beats' = {q \in Pairs : Beaten(q)}
    /\ step' = "ties"
    /\ UNCHANGED <<policy, ballot, count, paths, ranks, result>>

Ties == {q \in Pairs : q[1] < q[2] /\ Undecided(q)}

\* Row by row, as two nested loops visit the pairs.
Visited(q, r) == q[1] < r[1] \/ (q[1] = r[1] /\ q[2] <= r[2])
First(q, S)   == q \in S /\ \A r \in S : Visited(q, r)

NextTie ==
    /\ step = "ties"
    /\ policy.tie_breaking # "simple"
    /\ Ties # {}
    /\ matrix_t' = matrix_p
    /\ step' = "forbid"
    /\ UNCHANGED <<policy, ballot, count, pivot, forbidden, matrix_p, beats, ranks, result>>

NoMoreTies ==
    /\ step = "ties"
    /\ policy.tie_breaking = "simple" \/ Ties = {}
    /\ step' = "ranks"
    /\ UNCHANGED <<policy, ballot, count, paths, matrix_p, beats, ranks, result>>

SharedLinks == {q \in Pairs : \E t \in Ties : First(t, Ties) /\ Link(q) = matrix_t[t]}

\* Variant: only the link found last is forbidden.
ForbidLastLink ==
    /\ step = "forbid"
    /\ \E q \in SharedLinks : First(q, SharedLinks) /\ forbidden' = {q}
    /\ matrix_t' = [q \in Pairs |-> IF q \in forbidden' THEN WorstLink ELSE Link(q)]
    /\ pivot' = 1
    /\ step' = "paths"
    /\ UNCHANGED <<policy, ballot, count, matrix_p, beats, ranks, result>>

ForbidLink ==
    /\ step = "forbid"
    /\ \E q \in SharedLinks :
         First(q, SharedLinks) /\ forbidden' = forbidden \cup {q}
    /\ matrix_t' = [q \in Pairs |-> IF q \in forbidden' THEN WorstLink ELSE Link(q)]
    /\ pivot' = 1
    /\ step' = "paths"
    /\ UNCHANGED <<policy, ballot, count, matrix_p, beats, ranks, result>>

\* "Did not find shared weakest link for tie-breaking (should not happen)"
NoSharedLink == step = "forbid" /\ SharedLinks = {}

\* The tie q is broken: the better of the two becomes part of the order.
Break(q) ==
    /\ Beaten(q)
    /\ beats' = beats \cup {q}
    /\ forbidden' = {}
    /\ step' = "ties"

\* Variant: the case in which the second candidate beats the first is missing.
ExtendOneWay ==
    /\ step = "order"
    /\ forbidden # {}
    /\ \E q \in Ties :
        /\ First(q, Ties)
        /\ \/ Break(q)
           \/ /\ ~Beaten(q)
              /\ step' = "forbid"
              /\ UNCHANGED <<beats, forbidden>>
    /\ UNCHANGED <<policy, ballot, count, matrix_t, pivot, matrix_p, ranks, result>>

ExtendPartialOrder ==
    /\ step = "order"
    /\ forbidden # {}
    /\ \E q \in Ties :
        /\ First(q, Ties)
        /\ \/ Break(q)
           \/ Break(Reverse(q))
           \/ /\ ~Beaten(q) /\ ~Beaten(Reverse(q))
              /\ step' = "forbid"
              /\ UNCHANGED <<beats, forbidden>>
    /\ UNCHANGED <<policy, ballot, count, matrix_t, pivot, matrix_p, ranks, result>>

-----------------------------------------------------------------------------
(* Ranks. *)

Unranked == {c \in Candidate : rank_ary[c] = 0}

\* Variant: the order of the ids is considered first.
BetterById(j, i) == j < i

\* j is better than i; ties that are left are broken by id.
Better(j, i) == \/ <<j, i>> \in beats
                \/ Undecided(<<j, i>>) /\ j < i

Unbeaten == {i \in Unranked : \A j \in Unranked \ {i} : ~Better(j, i)}

AssignRank ==
    /\ step = "ranks"
    /\ rank_v <= Dim
    /\ \E i \in Unbeaten :
         /\ \A j \in Unbeaten : i <= j
         /\ rank_ary' = [rank_ary EXCEPT ![i] = rank_v]
    /\ rank_v' = rank_v + 1
    /\ UNCHANGED <<policy, ballot, step, count, paths, matrix_p, beats, result>>

\* "Schulze ranking does not compute (should not happen)"
RankingDoesNotCompute == step = "ranks" /\ rank_v <= Dim /\ Unbeaten = {}

\* calculate_ranks raises an exception, and its transaction is lost.
RaiseException ==
    /\ NoSharedLink \/ RankingDoesNotCompute
    /\ step' = "failed"
    /\ UNCHANGED <<policy, ballot, count, paths, matrix_p, beats, ranks, result>>

-----------------------------------------------------------------------------
(* Majorities, eligibility and the winner. *)

Meets(maj, positive, negative) ==
    /\ IF maj.strict THEN positive * maj.den > maj.num * (positive + negative)
                     ELSE positive * maj.den >= maj.num * (positive + negative)
    /\ positive >= maj.positive
    /\ voter_count - negative >= maj.non_negative

PositiveVotes(i) == battle[<<i, StatusQuo>>]
NegativeVotes(i) == battle[<<StatusQuo, i>>]

ResultRow ==
    [direct_majority : SUBSET Initiatives, indirect_majority : SUBSET Initiatives,
     multistage_majority : SUBSET Initiatives, reverse_beat_path : SUBSET Initiatives,
     eligible : SUBSET Initiatives, winner : SUBSET Initiatives,
     rank : [Initiatives -> Nat]]

NoResult == [direct_majority |-> {}, indirect_majority |-> {}, multistage_majority |-> {},
             reverse_beat_path |-> {}, eligible |-> {}, winner |-> {},
             rank |-> [i \in Initiatives |-> 0]]

\* Variant: the first element of the arrays is taken for an initiative.
PreliminaryOffByOne ==
    /\ step = "ranks"
    /\ rank_v = Dim + 1
    /\ result' = [NoResult EXCEPT
            !.multistage_majority = {i \in Candidate : rank_ary[i] >= rank_ary[StatusQuo]}]
    /\ step' = "majorities"
    /\ UNCHANGED <<policy, ballot, count, paths, matrix_p, beats, ranks>>

Preliminary ==
    /\ step = "ranks"
    /\ rank_v = Dim + 1
    /\ result' = [NoResult EXCEPT
            !.direct_majority =
                {i \in Initiatives : Meets(policy.direct, PositiveVotes(i), NegativeVotes(i))},
            !.indirect_majority =
                {i \in Initiatives : Meets(policy.indirect, PositiveVotes(i), NegativeVotes(i))},
            !.multistage_majority = {i \in Initiatives : rank_ary[i] >= rank_ary[StatusQuo]},
            !.reverse_beat_path =
                {i \in Initiatives : /\ policy.defeat_strength = "tuple"
                                     /\ matrix_p[<<StatusQuo, i>>].primary >= 0}]
    /\ step' = "majorities"
    /\ UNCHANGED <<policy, ballot, count, paths, matrix_p, beats, ranks>>

\* Initiatives with a majority over one that has an (indirect) majority.
NewIndirect ==
    {i \in Initiatives \ result.indirect_majority :
        \E o \in result.indirect_majority :
            Meets(policy.indirect, battle[<<i, o>>], battle[<<o, i>>])}

ExtendIndirectMajority ==
    /\ step = "majorities"
    /\ NewIndirect # {}
    /\ result' = [result EXCEPT !.indirect_majority = @ \cup NewIndirect]
    /\ UNCHANGED <<policy, ballot, step, count, paths, matrix_p, beats, ranks>>

Multistage ==
    result.multistage_majority \cup
    {l \in Initiatives : \E w \in Initiatives :
        /\ rank_ary[w] < rank_ary[l]
        /\ battle[<<w, l>>] > battle[<<l, w>>]
        /\ \/ battle[<<w, l>>] > PositiveVotes(w)
           \/ battle[<<l, w>>] < NegativeVotes(l)}

\* Variant: "reverse_beat_path" is not looked at.
EligibleDespitePath(no_multistage_majority) ==
    {i \in result.direct_majority \cap result.indirect_majority :
        /\ rank_ary[i] < rank_ary[StatusQuo]
        /\ no_multistage_majority => i \notin Multistage}

EligibleIf(no_multistage_majority) ==
    {i \in result.direct_majority \cap result.indirect_majority :
        /\ rank_ary[i] < rank_ary[StatusQuo]
        /\ no_multistage_majority => i \notin Multistage
        /\ policy.no_reverse_beat_path => i \notin result.reverse_beat_path}

Eligible == EligibleIf(policy.no_multistage_majority)

BestOf(S) == {i \in S : \A j \in S : rank_ary[i] <= rank_ary[j]}

\* Variant: ORDER BY "schulze_rank" alone.
RanksBeforeBySchulze(j, i) == rank_ary[j] < rank_ary[i]

\* ORDER BY "winner" DESC, "eligible" DESC, "schulze_rank"
RanksBefore(j, i) ==
    IF j \in Eligible /\ i \notin Eligible THEN TRUE
    ELSE IF i \in Eligible /\ j \notin Eligible THEN FALSE
    ELSE rank_ary[j] < rank_ary[i]

FinalRank ==
    [i \in Initiatives |-> 1 + Cardinality({j \in Initiatives : RanksBefore(j, i)})]

SelectWinner ==
    /\ step = "majorities"
    /\ NewIndirect = {}
    /\ result' = [result EXCEPT !.multistage_majority = Multistage,
                                !.eligible = Eligible,
                                !.winner = BestOf(Eligible),
                                !.rank = FinalRank]
    /\ step' = "done"
    /\ UNCHANGED <<policy, ballot, count, paths, matrix_p, beats, ranks>>

-----------------------------------------------------------------------------
NoLinks == [q \in Pairs |-> WorstLink]

Init ==
    /\ policy \in Policy
    /\ ballot \in [Voter -> Ballot \cup {Null}]
    /\ step = "close"
    /\ battle = [q \in Pairs |-> 0]
    /\ first_preference_votes = [c \in Initiatives |-> 0]
    /\ voter_count = 0
    /\ matrix_t = NoLinks
    /\ pivot = 1
    /\ forbidden = {}
    /\ matrix_p = NoLinks
    /\ beats = {}
    /\ rank_ary = [c \in Candidate |-> 0]
    /\ rank_v = 1
    /\ result = NoResult

Next ==
    \/ CloseVoting
    \/ FindDirectLinks
    \/ FindBestPaths
    \/ CreatePartialOrder
    \/ NextTie
    \/ NoMoreTies
    \/ ForbidLink
    \/ ExtendPartialOrder
    \/ AssignRank
    \/ RaiseException
    \/ Preliminary
    \/ ExtendIndirectMajority
    \/ SelectWinner

Spec == Init /\ [][Next]_vars

FairSpec == Spec /\ WF_vars(Next)

-----------------------------------------------------------------------------
(* Properties. *)

\* Types of the variables.
TypeOK ==
    /\ policy \in Policy
    /\ ballot \in [Voter -> Ballot \cup {Null}]
    /\ step \in {"close", "links", "paths", "order", "ties", "forbid", "ranks",
                 "majorities", "done", "failed"}
    /\ battle \in [Pairs -> Nat]
    /\ first_preference_votes \in [Initiatives -> Nat]
    /\ voter_count \in Nat
    /\ matrix_t \in [Pairs -> LinkStrength]
    /\ pivot \in 1 .. Dim + 1
    /\ step = "paths" => pivot <= Dim
    /\ forbidden \subseteq Pairs
    /\ matrix_p \in [Pairs -> LinkStrength]
    /\ beats \subseteq Pairs
    /\ rank_ary \in [Candidate -> 0 .. Dim]
    /\ rank_v \in 1 .. Dim + 1
    /\ result \in ResultRow

\* None of the exceptions marked "should not happen" is raised
\* (core.sql 4549-4551, 4621-4623): every vote has a result.
RankingComputes == step # "failed"

\* The simple paths between two candidates, and the strength of the strongest
\* of them: what find_best_paths is said to compute.
PathsFrom(q) ==
    {s \in UNION {[1 .. n -> Candidate] : n \in 2 .. Dim} :
        LET n == Cardinality(DOMAIN s)
        IN  /\ s[1] = q[1] /\ s[n] = q[2]
            /\ \A i, j \in 1 .. n : i # j => s[i] # s[j]}

SimplePaths == [q \in Pairs |-> PathsFrom(q)]

LinksOf(s) == {<<s[i], s[i + 1]>> : i \in 1 .. Cardinality(DOMAIN s) - 1}

PathAsStrongAs(s, x) == \A l \in LinksOf(s) : ~Weaker(Link(l), x)

\* matrix_p holds the strengths of the best beat-paths (comment on
\* find_best_paths, core.sql 4408): there is a path of that strength and none
\* that is stronger.
BestPathsFound ==
    step = "ties" =>
        \A q \in Pairs :
            /\ \E s \in SimplePaths[q] : PathAsStrongAs(s, matrix_p[q])
            /\ \A s \in SimplePaths[q] :
                 \E l \in LinksOf(s) : ~Weaker(matrix_p[q], Link(l))

Ranked == step \in {"majorities", "done"}

\* The ranking is an order: no two candidates share a rank.
RanksDiffer ==
    Ranked => \A c, d \in Candidate : c # d => rank_ary[c] # rank_ary[d]

\* Who beats another by the best paths is ranked before, whatever ties the
\* other candidates were in (calculate_ranks, core.sql 4494-4627).
RankFollowsBestPaths ==
    Ranked => \A q \in Pairs :
                 Weaker(matrix_p[Reverse(q)], matrix_p[q]) => rank_ary[q[1]] < rank_ary[q[2]]

\* The ranking is that of the Schulze method: an order that extends the best paths.
RankingIsSchulze == RanksDiffer /\ RankFollowsBestPaths

Dominant(S) == \A c \in S, d \in Candidate \ S : battle[<<c, d>>] > battle[<<d, c>>]

\* A group of which everybody wins against everybody else is ranked before the
\* others; a Condorcet winner is first.
DominantSetFirst ==
    Ranked => \A S \in SUBSET Candidate :
        Dominant(S) => \A c \in S, d \in Candidate \ S : rank_ary[c] < rank_ary[d]

\* The CHECK and UNIQUE constraints on the result of a vote (core.sql 745-751)
\* hold, and whoever wins is the first of those who may.
ResultRowsAllowed ==
    step = "done" =>
        /\ result.eligible \subseteq result.direct_majority \cap result.indirect_majority
        /\ result.winner \subseteq result.eligible
        /\ \A i \in result.eligible : i \in result.winner <=> result.rank[i] = 1
        /\ \A i, j \in Initiatives : i # j => result.rank[i] # result.rank[j]
        /\ Cardinality(result.winner) = IF result.eligible = {} THEN 0 ELSE 1

\* An initiative has an indirect majority iff a chain of majorities leads from
\* it to the status quo (comment on "indirect_majority", core.sql 777).
IndirectMajorityIsChain ==
    step = "done" =>
        result.indirect_majority =
            {i \in Initiatives :
                \E s \in SimplePaths[<<i, StatusQuo>>] :
                    \A l \in LinksOf(s) : Meets(policy.indirect, battle[l], battle[Reverse(l)])}

\* Both loops over chains of candidates, find_best_paths and that over indirect
\* majorities, find what a search over all simple paths does.
PathsAreFound == BestPathsFound /\ IndirectMajorityIsChain

\* With "no_reverse_beat_path" a winner beats the status quo directly with a
\* simple majority (comment on the column, core.sql 443).
WinnerBeatsStatusQuo ==
    step = "done" /\ policy.no_reverse_beat_path =>
        \A w \in result.winner : PositiveVotes(w) > NegativeVotes(w)

\* Every vote gets its result: tie-breaking runs out of ties.
TiesAreBroken == <>(step = "done")

=============================================================================
