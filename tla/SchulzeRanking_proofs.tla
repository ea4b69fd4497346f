----------------------- MODULE SchulzeRanking_proofs -----------------------
(***************************************************************************)
(* What holds of the result of every vote, whatever the number of          *)
(* candidates and voters, the ballots and the policy; and that there is a  *)
(* result unless ties are broken in the "simple" way.                      *)
(***************************************************************************)
EXTENDS SchulzeRanking, FiniteSetTheorems, WellFoundedInduction, TLAPS

-----------------------------------------------------------------------------
(* The inductive invariant. *)

\* Until ranks are assigned there are none.
NoRanksYet ==
    step \in {"close", "links", "paths", "order", "ties", "forbid"}
        => rank_v = 1 /\ rank_ary = [c \in Candidate |-> 0]

\* rank_v counts the ranks assigned so far, which all differ.
RanksAssigned ==
    /\ Cardinality(Unranked) = Dim + 1 - rank_v
    /\ \A c \in Candidate : rank_ary[c] < rank_v
    /\ \A c, d \in Candidate : c # d /\ rank_ary[c] # 0 => rank_ary[c] # rank_ary[d]
    /\ step \in {"majorities", "done"} => rank_v = Dim + 1

\* Who beats a ranked candidate has a better rank.
BeatersFirst ==
    \A q \in beats : rank_ary[q[2]] # 0 => rank_ary[q[1]] # 0 /\ rank_ary[q[1]] < rank_ary[q[2]]

\* matrix_p and beats are there.
Ordered == \/ step \in {"ties", "forbid", "ranks", "majorities", "done"}
           \/ forbidden # {}

\* beats is never less than what the best paths say.
PathsDecide ==
    Ordered => \A q \in Pairs : Weaker(matrix_p[Reverse(q)], matrix_p[q]) => q \in beats

\* Matrix m is between the direct links and the strengths of real paths: no
\* entry is weaker than the direct link, and none leads by votes into a
\* dominant set.
Bounded(m) ==
    /\ \A q \in Pairs : ~Weaker(m[q], Link(q))
    /\ \A S \in SUBSET Candidate : Dominant(S) =>
         \A c \in S, d \in Candidate \ S : m[<<d, c>>].primary <= 0

PathsBounded ==
    /\ step \in {"close", "links"} => forbidden = {}
    /\ step \in {"paths", "order"} /\ forbidden = {} => Bounded(matrix_t)
    /\ Ordered => Bounded(matrix_p)

\* What the preliminary results say of paths from the status quo.
PathFlags ==
    /\ step \in {"majorities", "done"} =>
         result.reverse_beat_path =
            {i \in Initiatives : /\ policy.defeat_strength = "tuple"
                                 /\ matrix_p[<<StatusQuo, i>>].primary >= 0}
    /\ result.winner # {} => step = "done"
    /\ policy.no_reverse_beat_path => result.winner \cap result.reverse_beat_path = {}

\* What the program never loses from counting to the result.
IInv == /\ TypeOK
        /\ NoRanksYet
        /\ RanksAssigned
        /\ BeatersFirst
        /\ PathsDecide
        /\ PathsBounded
        /\ PathFlags

-----------------------------------------------------------------------------
(* Helpers. *)

\* Counting voters gives a number.
LEMMA CountType == \A S \in SUBSET Voter : Cardinality(S) \in Nat
  BY VoterAssumption, FS_Subset, FS_CardinalityType

\* A set of numbers has a least element.
LEMMA LeastOf ==
    ASSUME NEW T, T \subseteq Nat, T # {}
    PROVE  \E x \in T : \A y \in T : x <= y
<1>1. IsWellFoundedOn(OpToRel(<, Nat), Nat)
  BY NatLessThanWellFounded
<1>2. PICK x \in T : \A y \in T : ~(<<y, x>> \in OpToRel(<, Nat))
  BY <1>1, WFMin
<1>3. \A y \in T : y < x => <<y, x>> \in OpToRel(<, Nat)
  BY DEF OpToRel
<1>4. ASSUME NEW y \in T PROVE x <= y
  <2>1. x \in Nat /\ y \in Nat /\ ~(y < x)
    BY <1>2, <1>3
  <2>2. QED
    BY <2>1
<1>5. QED
  BY <1>4

\* The factor that packs two counts into one number is positive.
LEMMA FactorType == VoteFactor \in Nat /\ VoteFactor >= 1
  BY VoterAssumption, FS_CardinalityType DEF VoteFactor

\* A pair has two different candidates and a reverse.
LEMMA PairType ==
    /\ \A q \in Pairs : Reverse(q) \in Pairs /\ Reverse(Reverse(q)) = q
    /\ \A q \in Pairs : q = <<q[1], q[2]>> /\ q[1] \in Candidate /\ q[2] \in Candidate
    /\ \A c, d \in Candidate : c # d => <<c, d>> \in Pairs
  BY DEF Pairs, Reverse

\* A defeat has a positive strength; only a defeat has a negative one.
LEMMA StrengthType ==
    ASSUME NEW x \in Nat, NEW y \in Nat
    PROVE  /\ DefeatStrength(x, y) \in Int
           /\ x > y => DefeatStrength(x, y) > 0
           /\ x < y => DefeatStrength(x, y) <= 0
           /\ policy.defeat_strength # "simple" /\ DefeatStrength(x, y) < 0 => x < y
<1>1. x * VoteFactor \in Nat /\ x * VoteFactor >= x
  <2> DEFINE f == VoteFactor
  <2>1. f \in Nat /\ f >= 1
    BY FactorType
  <2>2. x * f \in Nat /\ x * f >= x
    <3> HIDE DEF f
    <3> QED
      BY <2>1
  <2> QED
    BY <2>2
<1>2. QED
  BY <1>1 DEF DefeatStrength

\* A link's strength is a pair of numbers.
LEMMA LinkType ==
    ASSUME battle \in [Pairs -> Nat], NEW q \in Pairs
    PROVE  Link(q) \in LinkStrength
<1>1. battle[q] \in Nat /\ battle[Reverse(q)] \in Nat
  BY PairType
<1>2. DefeatStrength(battle[q], battle[Reverse(q)]) \in Int
  BY <1>1, StrengthType
<1>3. SecondaryLinkStrength(q[1], q[2]) \in Int
  BY DimAssumption, PairType DEF SecondaryLinkStrength, OrdFactor, Candidate
<1>4. QED
  BY <1>2, <1>3 DEF Link, LinkStrength

\* So is the worst possible value.
LEMMA WorstLinkType == WorstLink \in LinkStrength
  BY DEF WorstLink, LinkStrength

\* The order of strengths is total.
LEMMA WeakerOrder ==
    ASSUME NEW x \in LinkStrength, NEW y \in LinkStrength, NEW z \in LinkStrength
    PROVE  /\ ~Weaker(x, x)
           /\ Weaker(x, y) => ~Weaker(y, x)
           /\ ~Weaker(x, y) /\ ~Weaker(y, z) => ~Weaker(x, z)
           /\ ~Weaker(x, y) => x.primary >= y.primary
           /\ Stronger(x, y) \in {x, y} /\ Weakest(x, y) \in {x, y}
           /\ ~Weaker(Stronger(x, y), x)
           /\ Weakest(x, y).primary <= x.primary /\ Weakest(x, y).primary <= y.primary
  BY DEF Weaker, Stronger, Weakest, LinkStrength

\* A pass of find_best_paths keeps the type of the matrix.
LEMMA ThroughType ==
    ASSUME NEW m \in [Pairs -> LinkStrength], NEW k \in Candidate
    PROVE  Through(m, k) \in [Pairs -> LinkStrength]
<1>1. \A q \in Pairs : k \notin {q[1], q[2]} =>
         Stronger(m[q], Weakest(m[<<q[1], k>>], m[<<k, q[2]>>])) \in LinkStrength
  <2>1. \A q \in Pairs : k \notin {q[1], q[2]} =>
           <<q[1], k>> \in Pairs /\ <<k, q[2]>> \in Pairs
    BY PairType
  <2>2. QED
    BY <2>1 DEF Stronger, Weakest
<1>2. QED
  BY <1>1 DEF Through

\* The matrices that are built from the battle table are of that type too.
LEMMA MatrixTypes ==
    ASSUME battle \in [Pairs -> Nat]
    PROVE  /\ [q \in Pairs |-> Link(q)] \in [Pairs -> LinkStrength]
           /\ NoLinks \in [Pairs -> LinkStrength]
  BY LinkType, WorstLinkType DEF NoLinks

-----------------------------------------------------------------------------
(* Types. *)

\* close_voting writes counts.
LEMMA CountingTypes ==
    ASSUME TypeOK, CloseVoting
    PROVE  /\ battle' \in [Pairs -> Nat]
           /\ first_preference_votes' \in [Initiatives -> Nat]
           /\ voter_count' \in Nat
<1>1. \A q \in Pairs : Cardinality({v \in DirectVoter : Prefers(v, q)}) \in Nat
  BY CountType DEF DirectVoter
<1>2. \A c \in Initiatives : Cardinality({v \in DirectVoter : FirstPreference(v, c)}) \in Nat
  BY CountType DEF DirectVoter
<1>3. Cardinality(DirectVoter) \in Nat
  BY CountType DEF DirectVoter
<1>4. QED
  BY <1>1, <1>2, <1>3 DEF CloseVoting

\* What calculate_ranks writes into the initiatives fits the columns.
LEMMA ResultTypes ==
    ASSUME TypeOK
    PROVE  /\ NoResult \in ResultRow
           /\ NewIndirect \subseteq Initiatives
           /\ Multistage \subseteq Initiatives
           /\ Eligible \subseteq Initiatives
           /\ BestOf(Eligible) \subseteq Initiatives
           /\ FinalRank \in [Initiatives -> Nat]
<1>1. result.multistage_majority \subseteq Initiatives
      /\ result.direct_majority \subseteq Initiatives
  BY DEF TypeOK, ResultRow
<1>2. Eligible \subseteq Initiatives /\ Multistage \subseteq Initiatives
  BY <1>1 DEF Eligible, EligibleIf, Multistage
<1>3. IsFiniteSet(Initiatives)
  <2>1. IsFiniteSet(Candidate)
    BY DimAssumption, FS_Interval DEF Candidate
  <2>2. Initiatives \subseteq Candidate
    BY DEF Initiatives
  <2>3. QED
    BY <2>1, <2>2, FS_Subset
<1>4. \A i \in Initiatives :
        1 + Cardinality({j \in Initiatives : RanksBefore(j, i)}) \in Nat
  <2>1. \A S \in SUBSET Initiatives : Cardinality(S) \in Nat
    BY <1>3, FS_Subset, FS_CardinalityType
  <2>2. QED
    BY <2>1
<1>5. FinalRank \in [Initiatives -> Nat]
  BY <1>4 DEF FinalRank
<1>6. QED
  BY <1>2, <1>5 DEF NoResult, ResultRow, NewIndirect, BestOf

\* The variables have their types when the voting is closed,
LEMMA InitTypes == Init => TypeOK
<1>1. ASSUME Init PROVE TypeOK
  <2>1. NoLinks \in [Pairs -> LinkStrength]
    BY WorstLinkType DEF NoLinks
  <2>2. NoResult \in ResultRow
    BY DEF NoResult, ResultRow
  <2>3. [c \in Candidate |-> 0] \in [Candidate -> 0 .. Dim] /\ 1 \in 1 .. Dim + 1
    BY DimAssumption
  <2>4. QED
    BY <1>1, <2>1, <2>2, <2>3 DEF Init, TypeOK
<1>2. QED
  BY <1>1

\* and every pass of a loop keeps them.
LEMMA StepTypes == TypeOK /\ [Next]_vars => TypeOK'
<1> SUFFICES ASSUME TypeOK, [Next]_vars PROVE TypeOK'
  OBVIOUS
<1> USE DEF count, paths, ranks
<1>1. CASE CloseVoting
  BY <1>1, CountingTypes DEF CloseVoting, TypeOK
<1>2. CASE FindDirectLinks
  <2>1. matrix_t' \in [Pairs -> LinkStrength]
    BY <1>2, MatrixTypes DEF FindDirectLinks, TypeOK
  <2>2. QED
    BY <1>2, <2>1, DimAssumption DEF FindDirectLinks, TypeOK
<1>3. CASE FindBestPaths
  <2>1. pivot \in Candidate
    BY <1>3 DEF FindBestPaths, TypeOK, Candidate
  <2>2. matrix_t' \in [Pairs -> LinkStrength]
    BY <1>3, <2>1, ThroughType DEF FindBestPaths, TypeOK
  <2>3. pivot' \in 1 .. Dim + 1 /\ (step' = "paths" => pivot' <= Dim)
    BY <1>3, DimAssumption DEF FindBestPaths, TypeOK
  <2>4. QED
    BY <1>3, <2>2, <2>3 DEF FindBestPaths, TypeOK
<1>4. CASE CreatePartialOrder
  BY <1>4 DEF CreatePartialOrder, TypeOK
<1>5. CASE NextTie
  BY <1>5 DEF NextTie, TypeOK
<1>6. CASE NoMoreTies
  BY <1>6 DEF NoMoreTies, TypeOK
<1>7. CASE ForbidLink
  <2>1. matrix_t' \in [Pairs -> LinkStrength]
    <3>1. \A q \in Pairs : Link(q) \in LinkStrength
      BY LinkType DEF TypeOK
    <3>2. QED
      BY <1>7, <3>1, WorstLinkType DEF ForbidLink
  <2>2. forbidden' \subseteq Pairs
    BY <1>7 DEF ForbidLink, SharedLinks, TypeOK
  <2>3. QED
    BY <1>7, <2>1, <2>2, DimAssumption DEF ForbidLink, TypeOK
<1>8. CASE ExtendPartialOrder
  <2>1. \A q \in Ties : q \in Pairs /\ Reverse(q) \in Pairs
    BY PairType DEF Ties
  <2>2. QED
    BY <1>8, <2>1 DEF ExtendPartialOrder, Break, TypeOK
<1>9. CASE AssignRank
  <2>1. rank_v \in 0 .. Dim /\ rank_v + 1 \in 1 .. Dim + 1
    BY <1>9, DimAssumption DEF AssignRank, TypeOK
  <2>2. rank_ary' \in [Candidate -> 0 .. Dim]
    BY <1>9, <2>1 DEF AssignRank, TypeOK
  <2>3. QED
    BY <1>9, <2>1, <2>2 DEF AssignRank, TypeOK
<1>10. CASE RaiseException
  BY <1>10 DEF RaiseException, NoSharedLink, RankingDoesNotCompute, TypeOK
<1>11. CASE Preliminary
  <2>1. result' \in ResultRow
    BY <1>11, ResultTypes DEF Preliminary, ResultRow, TypeOK
  <2>2. QED
    BY <1>11, <2>1 DEF Preliminary, TypeOK
<1>12. CASE ExtendIndirectMajority
  <2>1. result' \in ResultRow
    BY <1>12, ResultTypes DEF ExtendIndirectMajority, ResultRow, TypeOK
  <2>2. QED
    BY <1>12, <2>1 DEF ExtendIndirectMajority, TypeOK
<1>13. CASE SelectWinner
  <2>1. result' \in ResultRow
    BY <1>13, ResultTypes DEF SelectWinner, ResultRow, TypeOK
  <2>2. QED
    BY <1>13, <2>1 DEF SelectWinner, TypeOK
<1>14. CASE UNCHANGED vars
  BY <1>14 DEF vars, TypeOK
<1>15. QED
  BY <1>1, <1>2, <1>3, <1>4, <1>5, <1>6, <1>7, <1>8, <1>9, <1>10, <1>11, <1>12,
     <1>13, <1>14 DEF Next

\* Whatever the policy and the ballots, the variables of close_voting and
\* calculate_ranks keep their types: no array is indexed out of its bounds.
THEOREM TypeCorrect == Spec => []TypeOK
  BY InitTypes, StepTypes, PTL DEF Spec

-----------------------------------------------------------------------------
(* The ranks. *)

\* There are Dim candidates.
LEMMA CandidatesFinite == IsFiniteSet(Candidate) /\ Cardinality(Candidate) = Dim
  BY DimAssumption, FS_Interval DEF Candidate

\* No ranks are assigned at first.
LEMMA InitRanks == Init => NoRanksYet /\ RanksAssigned /\ BeatersFirst
<1> SUFFICES ASSUME Init PROVE NoRanksYet /\ RanksAssigned /\ BeatersFirst
  OBVIOUS
<1>1. Unranked = Candidate
  BY DEF Unranked, Init
<1>2. Cardinality(Unranked) = Dim + 1 - rank_v
  BY <1>1, CandidatesFinite, DimAssumption DEF Init
<1>3. QED
  BY <1>2 DEF Init, NoRanksYet, RanksAssigned, BeatersFirst

\* Assigning a rank: the heart of the order.
LEMMA AssignKeepsOrder ==
    ASSUME TypeOK, RanksAssigned, BeatersFirst, AssignRank
    PROVE  RanksAssigned' /\ BeatersFirst'
<1>1. PICK i \in Unbeaten : rank_ary' = [rank_ary EXCEPT ![i] = rank_v]
  BY DEF AssignRank
<1>2. i \in Candidate /\ rank_ary[i] = 0 /\ i \in Unranked
  BY <1>1 DEF Unbeaten, Unranked
<1>3. rank_v \in 1 .. Dim /\ rank_v' = rank_v + 1 /\ beats' = beats /\ step' = step
      /\ step = "ranks"
  BY DimAssumption DEF AssignRank, TypeOK
<1>4. \A c \in Candidate : rank_ary[c] \in Nat /\ rank_ary'[c] \in Nat
                           /\ rank_ary'[c] = IF c = i THEN rank_v ELSE rank_ary[c]
  BY <1>1, <1>2, <1>3, DimAssumption DEF TypeOK
<1>5. Cardinality(Unranked') = Dim + 1 - rank_v'
  <2>1. Unranked' = Unranked \ {i}
    BY <1>3, <1>4 DEF Unranked
  <2>2. IsFiniteSet(Unranked)
    BY CandidatesFinite, FS_Subset DEF Unranked
  <2>3. Cardinality(Unranked \ {i}) = Cardinality(Unranked) - 1
    BY <1>2, <2>2, FS_RemoveElement
  <2>4. Cardinality(Unranked) = Dim + 1 - rank_v
    BY DEF RanksAssigned
  <2>5. QED
    BY <1>3, <2>1, <2>3, <2>4, DimAssumption
<1>6. \A c \in Candidate : rank_ary'[c] < rank_v'
  BY <1>3, <1>4 DEF RanksAssigned
<1>7. \A c, d \in Candidate : c # d /\ rank_ary'[c] # 0 => rank_ary'[c] # rank_ary'[d]
  BY <1>3, <1>4 DEF RanksAssigned
<1>8. BeatersFirst'
  <2> SUFFICES ASSUME NEW q \in beats, rank_ary'[q[2]] # 0
               PROVE  rank_ary'[q[1]] # 0 /\ rank_ary'[q[1]] < rank_ary'[q[2]]
    BY <1>3 DEF BeatersFirst
  <2>1. q \in Pairs /\ q = <<q[1], q[2]>> /\ q[1] \in Candidate /\ q[2] \in Candidate
        /\ q[1] # q[2]
    BY DEF TypeOK, Pairs
  <2>2. CASE q[2] = i
    <3>1. q[1] \notin Unranked
      BY <1>1, <2>1, <2>2 DEF Unbeaten, Better
    <3>2. rank_ary[q[1]] # 0
      BY <2>1, <3>1 DEF Unranked
    <3>3. QED
      BY <1>4, <2>1, <2>2, <3>2 DEF RanksAssigned
  <2>3. CASE q[2] # i
    <3>1. rank_ary[q[2]] # 0
      BY <1>4, <2>1, <2>3
    <3>2. rank_ary[q[1]] # 0 /\ rank_ary[q[1]] < rank_ary[q[2]]
      BY <3>1 DEF BeatersFirst
    <3>3. q[1] # i
      BY <1>2, <3>2
    <3>4. QED
      BY <1>4, <2>1, <2>3, <3>2, <3>3
  <2>4. QED
    BY <2>2, <2>3
<1>9. QED
  BY <1>3, <1>5, <1>6, <1>7, <1>8 DEF RanksAssigned

\* No step but AssignRank touches the ranks, none but the two that extend the
\* order touches beats, and these come before the first rank.
LEMMA StepRanks ==
    ASSUME TypeOK, NoRanksYet, RanksAssigned, BeatersFirst, [Next]_vars
    PROVE  NoRanksYet' /\ RanksAssigned' /\ BeatersFirst'
<1> USE DEF count, paths, ranks
<1> DEFINE Kept == UNCHANGED ranks /\ UNCHANGED beats
           Later == step \in {"majorities", "done"} \/ rank_v = Dim + 1
                    \/ step' \notin {"majorities", "done"}
           NotBack == step' \in {"close", "links", "paths", "order", "ties", "forbid"}
                         => step \in {"close", "links", "paths", "order", "ties", "forbid"}
<1>1. ASSUME Kept, Later, NotBack
      PROVE  NoRanksYet' /\ RanksAssigned' /\ BeatersFirst'
  <2>1. Unranked' = Unranked
    BY <1>1 DEF Unranked
  <2>2. QED
    BY <1>1, <2>1 DEF NoRanksYet, RanksAssigned, BeatersFirst
<1>2. ASSUME step = "order", UNCHANGED ranks,
             step' \in {"ties", "forbid"}, beats' \subseteq Pairs
      PROVE  NoRanksYet' /\ RanksAssigned' /\ BeatersFirst'
  <2>1. rank_ary = [c \in Candidate |-> 0] /\ rank_ary' = rank_ary /\ rank_v' = rank_v
    BY <1>2 DEF NoRanksYet
  <2>2. Unranked' = Unranked
    BY <2>1 DEF Unranked
  <2>3. \A q \in beats' : rank_ary'[q[2]] = 0
    BY <1>2, <2>1, PairType
  <2>4. QED
    BY <1>2, <2>1, <2>2, <2>3 DEF NoRanksYet, RanksAssigned, BeatersFirst
<1>3. TypeOK'
  BY StepTypes
<1>4. CASE CloseVoting
  BY <1>1, <1>4 DEF CloseVoting
<1>5. CASE FindDirectLinks
  BY <1>1, <1>5 DEF FindDirectLinks
<1>6. CASE FindBestPaths
  BY <1>1, <1>6 DEF FindBestPaths
<1>7. CASE CreatePartialOrder
  BY <1>2, <1>3, <1>7 DEF CreatePartialOrder, TypeOK
<1>8. CASE NextTie
  BY <1>1, <1>8 DEF NextTie
<1>9. CASE NoMoreTies
  BY <1>1, <1>9 DEF NoMoreTies
<1>10. CASE ForbidLink
  BY <1>1, <1>10 DEF ForbidLink
<1>11. CASE ExtendPartialOrder
  BY <1>2, <1>3, <1>11 DEF ExtendPartialOrder, Break, TypeOK
<1>12. CASE AssignRank
  <2>1. step' = "ranks"
    BY <1>12 DEF AssignRank
  <2>2. QED
    BY <1>12, <2>1, AssignKeepsOrder DEF NoRanksYet
<1>13. CASE RaiseException
  BY <1>1, <1>13 DEF RaiseException, NoSharedLink, RankingDoesNotCompute
<1>14. CASE Preliminary
  BY <1>1, <1>14 DEF Preliminary
<1>15. CASE ExtendIndirectMajority
  BY <1>1, <1>15 DEF ExtendIndirectMajority
<1>16. CASE SelectWinner
  BY <1>1, <1>16 DEF SelectWinner
<1>17. CASE UNCHANGED vars
  BY <1>1, <1>17 DEF vars
<1>18. QED
  BY <1>4, <1>5, <1>6, <1>7, <1>8, <1>9, <1>10, <1>11, <1>12, <1>13, <1>14, <1>15,
     <1>16, <1>17 DEF Next

-----------------------------------------------------------------------------
(* The paths. *)

\* The direct links are bounded: a dominant set is not defeated.
LEMMA BoundedDirect ==
    ASSUME battle \in [Pairs -> Nat]
    PROVE  Bounded([q \in Pairs |-> Link(q)])
<1>1. \A q \in Pairs : ~Weaker(Link(q), Link(q))
  BY LinkType, WeakerOrder
<1>2. ASSUME NEW S \in SUBSET Candidate, Dominant(S), NEW c \in S, NEW d \in Candidate \ S
      PROVE  Link(<<d, c>>).primary <= 0
  <2>1. <<d, c>> \in Pairs /\ Reverse(<<d, c>>) = <<c, d>> /\ <<c, d>> \in Pairs
    BY PairType DEF Reverse
  <2>2. battle[<<d, c>>] < battle[<<c, d>>]
        /\ battle[<<d, c>>] \in Nat /\ battle[<<c, d>>] \in Nat
    BY <1>2, <2>1 DEF Dominant
  <2>3. QED
    BY <2>1, <2>2, StrengthType DEF Link
<1>3. QED
  BY <1>1, <1>2, PairType DEF Bounded

\* A path through another candidate enters a dominant set once at least.
LEMMA BoundedThrough ==
    ASSUME battle \in [Pairs -> Nat],
           NEW m \in [Pairs -> LinkStrength], NEW k \in Candidate, Bounded(m)
    PROVE  Bounded(Through(m, k))
<1> DEFINE t == Through(m, k)
           w(q) == Weakest(m[<<q[1], k>>], m[<<k, q[2]>>])
<1>1. \A q \in Pairs : t[q] = IF k \in {q[1], q[2]} THEN m[q] ELSE Stronger(m[q], w(q))
  BY DEF Through
<1>2. \A q \in Pairs : k \notin {q[1], q[2]} =>
         /\ m[<<q[1], k>>] \in LinkStrength /\ m[<<k, q[2]>>] \in LinkStrength
         /\ w(q) \in LinkStrength
  <2>1. \A q \in Pairs : k \notin {q[1], q[2]} =>
           <<q[1], k>> \in Pairs /\ <<k, q[2]>> \in Pairs
    BY PairType
  <2>2. QED
    BY <2>1 DEF Weakest
<1>3. ASSUME NEW q \in Pairs PROVE ~Weaker(t[q], Link(q))
  <2>1. ~Weaker(m[q], Link(q)) /\ m[q] \in LinkStrength /\ Link(q) \in LinkStrength
    BY LinkType DEF Bounded
  <2>2. CASE k \in {q[1], q[2]}
    BY <1>1, <2>1, <2>2
  <2>3. CASE k \notin {q[1], q[2]}
    <3>1. t[q] = Stronger(m[q], w(q)) /\ w(q) \in LinkStrength
      BY <1>1, <1>2, <2>3
    <3>2. t[q] \in LinkStrength /\ ~Weaker(t[q], m[q])
      BY <2>1, <3>1, WeakerOrder DEF Stronger
    <3>3. QED
      BY <2>1, <3>2, WeakerOrder
  <2>4. QED
    BY <2>2, <2>3
<1>4. ASSUME NEW S \in SUBSET Candidate, Dominant(S), NEW c \in S, NEW d \in Candidate \ S
      PROVE  t[<<d, c>>].primary <= 0
  <2> DEFINE q == <<d, c>>
  <2>1. q \in Pairs /\ q[1] = d /\ q[2] = c /\ m[q] \in LinkStrength
        /\ m[q].primary <= 0
    BY <1>4, PairType DEF Bounded
  <2>2. CASE k \in {d, c}
    BY <1>1, <2>1, <2>2
  <2>3. CASE k \notin {d, c}
    <3>1. t[q] = Stronger(m[q], w(q)) /\ w(q) \in LinkStrength
          /\ m[<<d, k>>] \in LinkStrength /\ m[<<k, c>>] \in LinkStrength
      BY <1>1, <1>2, <2>1, <2>3
    <3>2. m[<<d, k>>].primary <= 0 \/ m[<<k, c>>].primary <= 0
      BY <1>4 DEF Bounded
    <3>3. w(q) = Weakest(m[<<d, k>>], m[<<k, c>>])
      BY <2>1
    <3>4. w(q).primary <= m[<<d, k>>].primary /\ w(q).primary <= m[<<k, c>>].primary
      BY <3>1, <3>3, WeakerOrder
    <3>5. w(q).primary <= 0
      <4> HIDE DEF w
      <4> QED
        BY <3>1, <3>2, <3>4 DEF LinkStrength
    <3>6. t[q] \in {m[q], w(q)}
      BY <3>1 DEF Stronger
    <3>7. QED
      BY <2>1, <3>5, <3>6
  <2>4. QED
    BY <2>2, <2>3
<1>5. QED
  BY <1>3, <1>4 DEF Bounded

\* What is bounded stays so as long as the ballots and the policy do not change.
LEMMA BoundedStays ==
    ASSUME NEW m, Bounded(m), policy' = policy, battle' = battle
    PROVE  Bounded(m)'
<1>1. \A q \in Pairs : Link(q)' = Link(q)
  BY DEF Link, DefeatStrength, SecondaryLinkStrength
<1>2. \A S \in SUBSET Candidate : Dominant(S)' = Dominant(S)
  BY DEF Dominant
<1>3. QED
  BY <1>1, <1>2 DEF Bounded

\* There are no paths at first.
LEMMA InitPaths == Init => PathsDecide /\ PathsBounded
  BY DEF Init, PathsDecide, PathsBounded, Ordered

\* Passes of find_best_paths without forbidden links keep the matrix bounded,
\* and tie-breaking changes neither the best paths nor what they decide.
LEMMA StepPaths ==
    ASSUME TypeOK, PathsDecide, PathsBounded, [Next]_vars
    PROVE  PathsDecide' /\ PathsBounded'
<1> USE DEF count, paths, ranks
<1>1. battle \in [Pairs -> Nat] /\ matrix_t \in [Pairs -> LinkStrength]
  BY DEF TypeOK
<1>2. ASSUME policy' = policy, battle' = battle, matrix_p' = matrix_p, beats \subseteq beats',
             Ordered' => Ordered, step' \notin {"close", "links"},
             step' \in {"paths", "order"} /\ forbidden' = {} => Bounded(matrix_t)'
      PROVE  PathsDecide' /\ PathsBounded'
  <2>1. PathsDecide'
    BY <1>2 DEF PathsDecide, Weaker
  <2>2. Ordered' => Bounded(matrix_p)'
    <3>1. ASSUME Ordered' PROVE Bounded(matrix_p)'
      <4>1. Bounded(matrix_p)
        BY <1>2, <3>1 DEF PathsBounded
      <4>2. \A q \in Pairs : Link(q)' = Link(q)
        BY <1>2 DEF Link, DefeatStrength, SecondaryLinkStrength
      <4>3. \A S \in SUBSET Candidate : Dominant(S)' = Dominant(S)
        BY <1>2 DEF Dominant
      <4>4. QED
        BY <1>2, <4>1, <4>2, <4>3 DEF Bounded, Weaker
    <3>2. QED
      BY <3>1
  <2>3. QED
    BY <1>2, <2>1, <2>2 DEF PathsBounded
<1>3. CASE CloseVoting
  BY <1>3 DEF CloseVoting, PathsDecide, PathsBounded, Ordered
<1>4. CASE FindDirectLinks
  <2>1. Bounded(matrix_t)'
    <3>1. Bounded([q \in Pairs |-> Link(q)])
      BY <1>1, BoundedDirect
    <3>2. QED
      BY <1>4, <3>1, BoundedStays DEF FindDirectLinks
  <2>2. QED
    BY <1>2, <1>4, <2>1 DEF FindDirectLinks, Ordered
<1>5. CASE FindBestPaths
  <2>1. ASSUME forbidden' = {} PROVE Bounded(matrix_t)'
    <3>1. Bounded(matrix_t) /\ pivot \in Candidate
      BY <1>5, <2>1 DEF FindBestPaths, PathsBounded, TypeOK, Candidate
    <3>2. Bounded(Through(matrix_t, pivot))
      BY <1>1, <3>1, BoundedThrough
    <3>3. QED
      BY <1>5, <3>2, BoundedStays DEF FindBestPaths
  <2>2. QED
    BY <1>2, <1>5, <2>1 DEF FindBestPaths, Ordered
<1>6. CASE CreatePartialOrder
  <2>1. Bounded(matrix_t)'
    BY <1>6, BoundedStays DEF CreatePartialOrder, PathsBounded
  <2>2. matrix_p' = matrix_t' /\ step' = "ties" /\ beats' = {q \in Pairs : Beaten(q)}
    BY <1>6 DEF CreatePartialOrder
  <2>3. PathsDecide'
    BY <1>6, <2>2 DEF CreatePartialOrder, PathsDecide, Beaten
  <2>4. QED
    BY <2>1, <2>2, <2>3 DEF PathsBounded
<1>7. CASE NextTie
  BY <1>2, <1>7 DEF NextTie, Ordered
<1>8. CASE NoMoreTies
  BY <1>2, <1>8 DEF NoMoreTies, Ordered
<1>9. CASE ForbidLink
  <2>1. forbidden' # {}
    BY <1>9 DEF ForbidLink
  <2>2. QED
    BY <1>2, <1>9, <2>1 DEF ForbidLink, Ordered
<1>10. CASE ExtendPartialOrder
  BY <1>2, <1>10 DEF ExtendPartialOrder, Break, Ordered
<1>11. CASE AssignRank
  BY <1>2, <1>11 DEF AssignRank, Ordered
<1>12. CASE RaiseException
  BY <1>2, <1>12 DEF RaiseException, NoSharedLink, RankingDoesNotCompute, Ordered
<1>13. CASE Preliminary
  BY <1>2, <1>13 DEF Preliminary, Ordered
<1>14. CASE ExtendIndirectMajority
  BY <1>2, <1>14 DEF ExtendIndirectMajority, Ordered
<1>15. CASE SelectWinner
  BY <1>2, <1>15 DEF SelectWinner, Ordered
<1>16. CASE UNCHANGED vars
  <2>1. UNCHANGED <<policy, battle, step, matrix_t, forbidden, matrix_p, beats>>
    BY <1>16 DEF vars
  <2>2. PathsDecide'
    BY <2>1 DEF PathsDecide, Ordered
  <2>3. PathsBounded'
    BY <2>1 DEF PathsBounded, Ordered, Bounded, Dominant, Link, DefeatStrength,
                SecondaryLinkStrength
  <2>4. QED
    BY <2>2, <2>3
<1>17. QED
  BY <1>3, <1>4, <1>5, <1>6, <1>7, <1>8, <1>9, <1>10, <1>11, <1>12, <1>13, <1>14,
     <1>15, <1>16 DEF Next

\* There is no winner at first.
LEMMA InitFlags == Init => PathFlags
  BY DEF Init, NoResult, PathFlags

\* The flags come from the best paths, and no initiative with the flag wins.
LEMMA StepFlags ==
    ASSUME TypeOK, PathFlags, [Next]_vars
    PROVE  PathFlags'
<1> USE DEF count, paths, ranks
<1>1. ASSUME UNCHANGED <<policy, matrix_p, result>>, step' = "done" <=> step = "done",
             step' = "majorities" <=> step = "majorities"
      PROVE  PathFlags'
  BY <1>1 DEF PathFlags
<1>2. ASSUME step \notin {"majorities", "done"}, step' \notin {"majorities", "done"},
             UNCHANGED <<policy, result>>
      PROVE  PathFlags'
  BY <1>2 DEF PathFlags
<1>3. CASE CloseVoting
  BY <1>2, <1>3 DEF CloseVoting
<1>4. CASE FindDirectLinks
  BY <1>2, <1>4 DEF FindDirectLinks
<1>5. CASE FindBestPaths
  BY <1>2, <1>5 DEF FindBestPaths
<1>6. CASE CreatePartialOrder
  BY <1>2, <1>6 DEF CreatePartialOrder
<1>7. CASE NextTie
  BY <1>2, <1>7 DEF NextTie
<1>8. CASE NoMoreTies
  BY <1>2, <1>8 DEF NoMoreTies
<1>9. CASE ForbidLink
  BY <1>2, <1>9 DEF ForbidLink
<1>10. CASE ExtendPartialOrder
  BY <1>2, <1>10 DEF ExtendPartialOrder, Break
<1>11. CASE AssignRank
  BY <1>2, <1>11 DEF AssignRank
<1>12. CASE RaiseException
  BY <1>2, <1>12 DEF RaiseException, NoSharedLink, RankingDoesNotCompute
<1>13. CASE Preliminary
  <2>1. /\ result'.reverse_beat_path =
              {i \in Initiatives : /\ policy.defeat_strength = "tuple"
                                   /\ matrix_p[<<StatusQuo, i>>].primary >= 0}
        /\ result'.winner = {}
    BY <1>13 DEF Preliminary, NoResult
  <2>2. QED
    BY <1>13, <2>1 DEF Preliminary, PathFlags
<1>14. CASE ExtendIndirectMajority
  <2>1. result'.reverse_beat_path = result.reverse_beat_path /\ result'.winner = result.winner
    BY <1>14 DEF ExtendIndirectMajority, TypeOK, ResultRow
  <2>2. QED
    BY <1>14, <2>1 DEF ExtendIndirectMajority, PathFlags
<1>15. CASE SelectWinner
  <2>1. result'.reverse_beat_path = result.reverse_beat_path
        /\ result'.winner = BestOf(Eligible)
    BY <1>15 DEF SelectWinner, TypeOK, ResultRow
  <2>2. policy.no_reverse_beat_path => BestOf(Eligible) \cap result.reverse_beat_path = {}
    BY DEF BestOf, Eligible, EligibleIf
  <2>3. QED
    BY <1>15, <2>1, <2>2 DEF SelectWinner, PathFlags
<1>16. CASE UNCHANGED vars
  BY <1>1, <1>16 DEF vars
<1>17. QED
  BY <1>3, <1>4, <1>5, <1>6, <1>7, <1>8, <1>9, <1>10, <1>11, <1>12, <1>13, <1>14,
     <1>15, <1>16 DEF Next

-----------------------------------------------------------------------------
(* The theorems. *)

\* The inductive invariant holds throughout close_voting and calculate_ranks.
THEOREM Invariance == Spec => []IInv
<1>1. Init => IInv
  BY InitTypes, InitRanks, InitPaths, InitFlags DEF IInv
<1>2. IInv /\ [Next]_vars => IInv'
  BY StepTypes, StepRanks, StepPaths, StepFlags DEF IInv
<1>3. QED
  BY <1>1, <1>2, PTL DEF Spec

\* When the ranking is complete every candidate has a rank.
LEMMA AllRanked ==
    ASSUME IInv, Ranked
    PROVE  \A c \in Candidate : rank_ary[c] # 0
<1>1. Cardinality(Unranked) = 0
  BY DimAssumption DEF IInv, RanksAssigned, Ranked
<1>2. Unranked = {}
  BY <1>1, CandidatesFinite, FS_Subset, FS_EmptySet DEF Unranked
<1>3. QED
  BY <1>2 DEF Unranked

\* No two candidates share a rank: when all ranks are assigned, as many
\* candidates have one, and a rank is given once.
THEOREM RanksAreAnOrder == Spec => []RanksDiffer
<1>1. IInv => RanksDiffer
  BY AllRanked DEF IInv, RanksAssigned, RanksDiffer
<1>2. QED
  BY <1>1, Invariance, PTL

\* Who has the better paths beats the other, and who beats comes first.
LEMMA BestPathsRank == IInv => RankFollowsBestPaths
<1> SUFFICES ASSUME IInv, Ranked, NEW q \in Pairs, Weaker(matrix_p[Reverse(q)], matrix_p[q])
             PROVE  rank_ary[q[1]] < rank_ary[q[2]]
  BY DEF RankFollowsBestPaths
<1>1. q \in beats
  BY DEF IInv, PathsDecide, Ordered, Ranked
<1>2. rank_ary[q[2]] # 0
  BY AllRanked, PairType
<1>3. QED
  BY <1>1, <1>2 DEF IInv, BeatersFirst

\* The ranking contains the order of the best paths, whatever ties are broken.
THEOREM BestPathsAreFollowed == Spec => []RankFollowsBestPaths
  BY BestPathsRank, Invariance, PTL

\* The result of calculate_ranks is a ranking by the Schulze method: an order
\* that contains the one of the best paths.
THEOREM RankingIsBySchulze == Spec => []RankingIsSchulze
<1>1. RanksDiffer /\ RankFollowsBestPaths => RankingIsSchulze
  BY DEF RankingIsSchulze
<1>2. QED
  BY <1>1, RanksAreAnOrder, BestPathsAreFollowed, PTL

\* A dominant set is ranked first: no path leads into it but over a defeat.
THEOREM DominantSetsAreFirst == Spec => []DominantSetFirst
<1>1. IInv => DominantSetFirst
  <2> SUFFICES ASSUME IInv, Ranked, NEW S \in SUBSET Candidate, Dominant(S),
                      NEW c \in S, NEW d \in Candidate \ S
               PROVE  rank_ary[c] < rank_ary[d]
    BY DEF DominantSetFirst
  <2> DEFINE q == <<c, d>>
  <2>1. q \in Pairs /\ Reverse(q) = <<d, c>> /\ <<d, c>> \in Pairs
        /\ q[1] = c /\ q[2] = d
    BY PairType DEF Reverse
  <2>2. Bounded(matrix_p) /\ matrix_p \in [Pairs -> LinkStrength] /\ battle \in [Pairs -> Nat]
    BY DEF IInv, PathsBounded, Ordered, Ranked, TypeOK
  <2>3. matrix_p[<<d, c>>].primary <= 0
    BY <2>2 DEF Bounded
  <2>4. Link(q).primary > 0
    <3>1. battle[q] > battle[Reverse(q)] /\ battle[q] \in Nat /\ battle[Reverse(q)] \in Nat
      BY <2>1, <2>2 DEF Dominant
    <3>2. QED
      BY <3>1, StrengthType DEF Link
  <2>5. matrix_p[q].primary > 0
    <3>1. ~Weaker(matrix_p[q], Link(q)) /\ Link(q) \in LinkStrength
          /\ matrix_p[q] \in LinkStrength
      BY <2>1, <2>2, LinkType DEF Bounded
    <3>2. matrix_p[q].primary >= Link(q).primary
      BY <3>1, WeakerOrder
    <3>3. QED
      BY <2>4, <3>1, <3>2 DEF LinkStrength
  <2>6. Weaker(matrix_p[Reverse(q)], matrix_p[q])
    BY <2>1, <2>2, <2>3, <2>5 DEF Weaker, LinkStrength
  <2>7. QED
    BY <2>1, <2>6, BestPathsRank DEF RankFollowsBestPaths
<1>2. QED
  BY <1>1, Invariance, PTL

\* With "no_reverse_beat_path" a winner has a simple majority over the status
\* quo: a tie or a defeat would itself be a reverse beat path.
THEOREM WinnersBeatStatusQuo == Spec => []WinnerBeatsStatusQuo
<1>1. IInv => WinnerBeatsStatusQuo
  <2> SUFFICES ASSUME IInv, step = "done", policy.no_reverse_beat_path,
                      NEW w \in result.winner
               PROVE  PositiveVotes(w) > NegativeVotes(w)
    BY DEF WinnerBeatsStatusQuo
  <2> DEFINE q == <<StatusQuo, w>>
  <2>1. w \in Initiatives /\ battle \in [Pairs -> Nat] /\ matrix_p \in [Pairs -> LinkStrength]
    BY DEF IInv, TypeOK, ResultRow
  <2>2. q \in Pairs /\ Reverse(q) = <<w, StatusQuo>> /\ Reverse(q) \in Pairs
    BY <2>1, DimAssumption, PairType DEF Initiatives, StatusQuo, Candidate, Reverse
  <2>3. policy.defeat_strength = "tuple"
    BY PolicyAssumption DEF IInv, TypeOK, PolicyRow
  <2>4. ~(matrix_p[q].primary >= 0)
    BY <2>1, <2>3 DEF IInv, PathFlags
  <2>5. ~Weaker(matrix_p[q], Link(q)) /\ Link(q) \in LinkStrength /\ matrix_p[q] \in LinkStrength
    BY <2>1, <2>2, LinkType DEF IInv, PathsBounded, Ordered, Bounded
  <2>6. Link(q).primary < 0
    <3>1. matrix_p[q].primary >= Link(q).primary
      BY <2>5, WeakerOrder
    <3>2. QED
      BY <2>4, <2>5, <3>1 DEF LinkStrength
  <2>7. battle[q] < battle[Reverse(q)]
    BY <2>1, <2>2, <2>3, <2>6, StrengthType DEF Link
  <2>8. QED
    BY <2>1, <2>2, <2>7 DEF PositiveVotes, NegativeVotes
<1>2. QED
  BY <1>1, Invariance, PTL

-----------------------------------------------------------------------------
(* The rows of the result. *)

\* Of some initiatives with different ranks exactly one is ranked first.
LEMMA BestIsOne ==
    ASSUME NEW S \in SUBSET Initiatives, S # {}, rank_ary \in [Candidate -> 0 .. Dim],
           \A c, d \in Candidate : c # d => rank_ary[c] # rank_ary[d]
    PROVE  \E b \in S : BestOf(S) = {b}
<1> DEFINE T == {rank_ary[i] : i \in S}
<1>1. S \subseteq Candidate /\ \A i \in S : rank_ary[i] \in Nat
  BY DimAssumption DEF Initiatives
<1>2. T \subseteq Nat /\ T # {}
  BY <1>1
<1>3. PICK x \in T : \A y \in T : x <= y
  <2> HIDE DEF T
  <2> QED
    BY <1>2, LeastOf
<1>4. PICK b \in S : rank_ary[b] = x
  OBVIOUS
<1>5. \A j \in S : rank_ary[b] <= rank_ary[j]
  BY <1>3, <1>4
<1>6. ASSUME NEW i \in S, \A j \in S : rank_ary[i] <= rank_ary[j] PROVE i = b
  <2>1. rank_ary[i] = rank_ary[b]
    BY <1>1, <1>5, <1>6
  <2>2. QED
    BY <1>1, <2>1
<1>7. QED
  BY <1>5, <1>6 DEF BestOf

\* The final order is one: the eligible initiatives by their ranks, then the
\* others by theirs.
LEMMA RowsAreOrdered ==
    ASSUME rank_ary \in [Candidate -> 0 .. Dim],
           \A c, d \in Candidate : c # d => rank_ary[c] # rank_ary[d]
    PROVE  /\ \A i \in Initiatives : ~RanksBefore(i, i)
           /\ \A i, j, k \in Initiatives :
                RanksBefore(i, j) /\ RanksBefore(j, k) => RanksBefore(i, k)
           /\ \A i, j \in Initiatives : i # j => RanksBefore(i, j) \/ RanksBefore(j, i)
<1>1. Initiatives \subseteq Candidate
  BY DEF Initiatives
<1>2. \A i \in Initiatives : rank_ary[i] \in Int
  BY <1>1
<1> DEFINE E == Eligible
<1>3. \A i, j \in Initiatives : RanksBefore(i, j) =
        IF i \in E /\ j \notin E THEN TRUE
        ELSE IF j \in E /\ i \notin E THEN FALSE ELSE rank_ary[i] < rank_ary[j]
  BY DEF RanksBefore
<1>4. \A i, j \in Initiatives : i # j => rank_ary[i] # rank_ary[j]
  BY <1>1
<1> HIDE DEF E
<1>5. ASSUME NEW i \in Initiatives
      PROVE  ~RanksBefore(i, i)
  <2>1. RanksBefore(i, i) <=> rank_ary[i] < rank_ary[i]
    BY <1>3
  <2>2. QED
    BY <1>2, <2>1
<1>6. ASSUME NEW i \in Initiatives, NEW j \in Initiatives, NEW k \in Initiatives,
             RanksBefore(i, j), RanksBefore(j, k)
      PROVE  RanksBefore(i, k)
  <2> DEFINE a == rank_ary[i]
             b == rank_ary[j]
             c == rank_ary[k]
  <2>1. a \in Int /\ b \in Int /\ c \in Int
    BY <1>2
  <2>2. /\ (i \in E /\ j \notin E) \/ ((j \in E => i \in E) /\ a < b)
        /\ (j \in E /\ k \notin E) \/ ((k \in E => j \in E) /\ b < c)
    BY <1>3, <1>6
  <2>3. RanksBefore(i, k) <=> (i \in E /\ k \notin E) \/ ((k \in E => i \in E) /\ a < c)
    BY <1>3
  <2> HIDE DEF a, b, c
  <2>4. QED
    BY <2>1, <2>2, <2>3
<1>7. ASSUME NEW i \in Initiatives, NEW j \in Initiatives, i # j
      PROVE  RanksBefore(i, j) \/ RanksBefore(j, i)
  <2>1. rank_ary[i] < rank_ary[j] \/ rank_ary[j] < rank_ary[i]
    BY <1>2, <1>4, <1>7
  <2>2. CASE i \in E <=> j \in E
    BY <1>3, <2>1, <2>2
  <2>3. CASE ~(i \in E <=> j \in E)
    BY <1>3, <2>3
  <2>4. QED
    BY <2>2, <2>3
<1>8. QED
  BY <1>5, <1>6, <1>7

\* Two initiatives have different rows; the first row is the one nobody
\* comes before.
LEMMA RowsDiffer ==
    ASSUME rank_ary \in [Candidate -> 0 .. Dim],
           \A c, d \in Candidate : c # d => rank_ary[c] # rank_ary[d]
    PROVE  /\ \A i, j \in Initiatives : i # j => FinalRank[i] # FinalRank[j]
           /\ \A i \in Initiatives :
                FinalRank[i] = 1 <=> \A j \in Initiatives : ~RanksBefore(j, i)
<1> DEFINE Before(i) == {j \in Initiatives : RanksBefore(j, i)}
<1>1. \A i \in Initiatives : IsFiniteSet(Before(i)) /\ Cardinality(Before(i)) \in Nat
  <2>1. IsFiniteSet(Initiatives)
    BY CandidatesFinite, FS_Subset DEF Initiatives
  <2>2. QED
    BY <2>1, FS_Subset, FS_CardinalityType
<1>2. \A i \in Initiatives : FinalRank[i] = 1 + Cardinality(Before(i))
  BY DEF FinalRank
<1>3. ASSUME NEW i \in Initiatives, NEW j \in Initiatives, RanksBefore(i, j)
      PROVE  FinalRank[i] # FinalRank[j]
  <2>1. Before(i) \subseteq Before(j) /\ i \in Before(j) /\ i \notin Before(i)
    BY <1>3, RowsAreOrdered
  <2>2. Cardinality(Before(i)) # Cardinality(Before(j))
    BY <1>1, <2>1, FS_Subset
  <2> HIDE DEF Before
  <2> DEFINE m == Cardinality(Before(i))
             n == Cardinality(Before(j))
  <2>3. m \in Nat /\ n \in Nat /\ m # n /\ FinalRank[i] = 1 + m /\ FinalRank[j] = 1 + n
    BY <1>1, <1>2, <2>2
  <2> HIDE DEF m, n
  <2>4. QED
    BY <2>3
<1>4. ASSUME NEW i \in Initiatives
      PROVE  FinalRank[i] = 1 <=> \A j \in Initiatives : ~RanksBefore(j, i)
  <2> DEFINE m == Cardinality(Before(i))
  <2>1. m \in Nat /\ FinalRank[i] = 1 + m /\ (m = 0 <=> Before(i) = {})
    BY <1>1, <1>2, FS_EmptySet
  <2>2. Before(i) = {} <=> \A j \in Initiatives : ~RanksBefore(j, i)
    OBVIOUS
  <2> HIDE DEF m, Before
  <2>3. FinalRank[i] = 1 <=> m = 0
    BY <2>1
  <2>4. QED
    BY <2>1, <2>2, <2>3
<1>5. QED
  BY <1>3, <1>4, RowsAreOrdered

\* The step that selects the winner writes rows that the constraints allow.
LEMMA SelectedRowsAllowed ==
    ASSUME IInv, SelectWinner
    PROVE  ResultRowsAllowed'
<1>1. /\ rank_ary \in [Candidate -> 0 .. Dim]
      /\ \A c, d \in Candidate : c # d => rank_ary[c] # rank_ary[d]
  BY AllRanked DEF IInv, TypeOK, RanksAssigned, SelectWinner, Ranked
<1>2. /\ result'.direct_majority = result.direct_majority
      /\ result'.indirect_majority = result.indirect_majority
      /\ result'.eligible = Eligible
      /\ result'.winner = BestOf(Eligible)
      /\ result'.rank = FinalRank
  BY DEF SelectWinner, IInv, TypeOK, ResultRow
<1>3. Eligible \subseteq result.direct_majority \cap result.indirect_majority
      /\ Eligible \subseteq Initiatives
  BY ResultTypes DEF IInv, Eligible, EligibleIf
<1>4. BestOf(Eligible) \subseteq Eligible
  BY DEF BestOf
<1>5. ASSUME NEW i \in Eligible
      PROVE  i \in BestOf(Eligible) <=> FinalRank[i] = 1
  <2>1. FinalRank[i] = 1 <=> \A j \in Initiatives : ~RanksBefore(j, i)
    BY <1>1, <1>3, RowsDiffer
  <2>2. \A j \in Initiatives \ Eligible : ~RanksBefore(j, i)
    BY DEF RanksBefore
  <2>3. \A j \in Eligible : RanksBefore(j, i) <=> rank_ary[j] < rank_ary[i]
    BY DEF RanksBefore
  <2>4. \A j \in Eligible : rank_ary[j] \in Int
    BY <1>1, <1>3 DEF Initiatives
  <2>5. i \in BestOf(Eligible) <=> \A j \in Eligible : rank_ary[i] <= rank_ary[j]
    BY DEF BestOf
  <2>6. \A j \in Eligible : RanksBefore(j, i) <=> ~(rank_ary[i] <= rank_ary[j])
    BY <2>3, <2>4
  <2>7. (\A j \in Initiatives : ~RanksBefore(j, i)) <=> (\A j \in Eligible : ~RanksBefore(j, i))
    BY <1>3, <2>2
  <2>8. QED
    BY <2>1, <2>5, <2>6, <2>7
<1>6. Cardinality(BestOf(Eligible)) = IF Eligible = {} THEN 0 ELSE 1
  <2>1. CASE Eligible = {}
    BY <1>4, <2>1, FS_EmptySet
  <2>2. CASE Eligible # {}
    BY <1>1, <1>3, <2>2, BestIsOne, FS_Singleton
  <2>3. QED
    BY <2>1, <2>2
<1>7. \A i, j \in Initiatives : i # j => FinalRank[i] # FinalRank[j]
  BY <1>1, RowsDiffer
<1>8. QED
  BY <1>2, <1>3, <1>4, <1>5, <1>6, <1>7 DEF ResultRowsAllowed

\* The CHECK and UNIQUE constraints on the result of a vote never object, and
\* whoever wins is the first of those who may: a row is written once, when all
\* ranks are assigned and differ.
THEOREM ResultRowsAreAllowed == Spec => []ResultRowsAllowed
<1>1. Init => ResultRowsAllowed
  BY DEF Init, ResultRowsAllowed
<1>2. IInv /\ ResultRowsAllowed /\ [Next]_vars => ResultRowsAllowed'
  <2> SUFFICES ASSUME IInv, ResultRowsAllowed, [Next]_vars PROVE ResultRowsAllowed'
    OBVIOUS
  <2>1. CASE SelectWinner
    BY <2>1, SelectedRowsAllowed
  <2>2. CASE UNCHANGED vars
    BY <2>2 DEF vars, ResultRowsAllowed
  <2>3. CASE Next /\ ~SelectWinner
    <3>1. step' # "done"
      BY <2>3 DEF Next, CloseVoting, FindDirectLinks, FindBestPaths, CreatePartialOrder,
                  NextTie, NoMoreTies, ForbidLink, ExtendPartialOrder, Break, AssignRank,
                  RaiseException, Preliminary, ExtendIndirectMajority, NoSharedLink,
                  RankingDoesNotCompute
    <3>2. QED
      BY <3>1 DEF ResultRowsAllowed
  <2>4. QED
    BY <2>1, <2>2, <2>3
<1>3. QED
  BY <1>1, <1>2, Invariance, PTL DEF Spec

-----------------------------------------------------------------------------
(* Paths. *)

\* s is a path of n candidates, all different, between those of q.
Path(s, n, q) ==
    /\ n \in Nat /\ n >= 2
    /\ s \in [1 .. n -> Candidate]
    /\ s[1] = q[1] /\ s[n] = q[2]
    /\ \A x, y \in 1 .. n : x # y => s[x] # s[y]

\* Between its ends it leads through candidates below k only.
Below(s, n, k) == \A x \in 2 .. n - 1 : s[x] < k

\* All its links are in L.
Along(s, n, L) == \A x \in 1 .. n - 1 : <<s[x], s[x + 1]>> \in L

\* These are the paths of which the properties speak.
LEMMA PathsAreSimple ==
    ASSUME NEW q \in Pairs
    PROVE  /\ \A s, n : Path(s, n, q) =>
                /\ s \in SimplePaths[q]
                /\ LinksOf(s) = {<<s[x], s[x + 1]>> : x \in 1 .. n - 1}
           /\ \A s \in SimplePaths[q] : \E n : Path(s, n, q)
<1>1. \A n \in Nat : Cardinality(1 .. n) = n
  BY FS_Interval
<1>2. SimplePaths[q] = PathsFrom(q)
  BY DEF SimplePaths
<1>3. ASSUME NEW s, NEW n, Path(s, n, q)
      PROVE  /\ s \in SimplePaths[q]
             /\ LinksOf(s) = {<<s[x], s[x + 1]>> : x \in 1 .. n - 1}
  <2>1. n \in Nat /\ DOMAIN s = 1 .. n /\ Cardinality(DOMAIN s) = n
    BY <1>1, <1>3 DEF Path
  <2>2. n <= Dim
    <3>1. s \in Injection(1 .. n, Candidate)
      BY <1>3 DEF Path, Injection, IsInjective
    <3>2. Cardinality(1 .. n) <= Cardinality(Candidate)
      BY <3>1, CandidatesFinite, FS_Injection
    <3>3. QED
      BY <1>1, <2>1, <3>2, CandidatesFinite
  <2>3. n \in 2 .. Dim /\ s \in [1 .. n -> Candidate]
    BY <1>3, <2>2, DimAssumption DEF Path
  <2>4. s \in UNION {[1 .. l -> Candidate] : l \in 2 .. Dim}
    BY <2>3
  <2>5. QED
    BY <1>2, <1>3, <2>1, <2>4 DEF PathsFrom, LinksOf, Path
<1>4. ASSUME NEW s \in SimplePaths[q] PROVE \E n : Path(s, n, q)
  <2>1. PICK n \in 2 .. Dim : s \in [1 .. n -> Candidate]
    BY <1>2 DEF PathsFrom
  <2>2. n \in Nat /\ n >= 2 /\ Cardinality(DOMAIN s) = n
    BY <1>1, <2>1, DimAssumption
  <2>3. Path(s, n, q)
    BY <1>2, <2>1, <2>2 DEF PathsFrom, Path
  <2>4. QED
    BY <2>3
<1>5. QED
  BY <1>3, <1>4

\* A link is a path.
LEMMA LinkIsPath ==
    ASSUME NEW q \in Pairs
    PROVE  \E n, s : /\ Path(s, n, q) /\ n = 2
                     /\ \A k : Below(s, n, k)
                     /\ \A L : q \in L => Along(s, n, L)
<1> DEFINE s == [x \in 1 .. 2 |-> q[x]]
<1>1. q[1] \in Candidate /\ q[2] \in Candidate /\ q[1] # q[2] /\ q = <<q[1], q[2]>>
  BY PairType DEF Pairs
<1>2. s[1] = q[1] /\ s[2] = q[2] /\ \A x \in 1 .. 2 : x = 1 \/ x = 2
  OBVIOUS
<1>3. s \in [1 .. 2 -> Candidate]
  BY <1>1, <1>2
<1> HIDE DEF s
<1>4. Path(s, 2, q)
  BY <1>1, <1>2, <1>3 DEF Path
<1>5. \A k : Below(s, 2, k)
  BY DEF Below
<1>6. \A L : q \in L => Along(s, 2, L)
  <2>1. \A x \in 1 .. 2 - 1 : x = 1
    OBVIOUS
  <2>2. <<s[1], s[1 + 1]>> = q
    BY <1>1, <1>2
  <2>3. QED
    BY <2>1, <2>2 DEF Along
<1>7. QED
  BY <1>4, <1>5, <1>6

\* Two paths, to k and from there, join to one; if they meet before k, it
\* leaves out what is between.
LEMMA PathsJoin ==
    ASSUME NEW L, NEW k \in Candidate, NEW i \in Candidate, NEW j \in Candidate, i # j,
           NEW u, NEW l, Path(u, l, <<i, k>>), Below(u, l, k), Along(u, l, L),
           NEW v, NEW m, Path(v, m, <<k, j>>), Below(v, m, k), Along(v, m, L)
    PROVE  \E n, s : Path(s, n, <<i, j>>) /\ Below(s, n, k + 1) /\ Along(s, n, L)
<1>1. /\ l \in Nat /\ l >= 2 /\ u \in [1 .. l -> Candidate] /\ u[1] = i /\ u[l] = k
      /\ m \in Nat /\ m >= 2 /\ v \in [1 .. m -> Candidate] /\ v[1] = k /\ v[m] = j
      /\ \A x, y \in 1 .. l : x # y => u[x] # u[y]
      /\ \A x, y \in 1 .. m : x # y => v[x] # v[y]
  BY DEF Path
<1> DEFINE A == {x \in 1 .. l : \E y \in 1 .. m : u[x] = v[y]}
<1>2. A \subseteq Nat /\ l \in A
  BY <1>1
<1>3. PICK a \in A : \A x \in A : a <= x
  <2> HIDE DEF A
  <2> QED
    BY <1>2, LeastOf
<1>4. PICK b \in 1 .. m : u[a] = v[b]
  OBVIOUS
<1>5. /\ a \in Nat /\ 1 <= a /\ a <= l
      /\ b \in Nat /\ 1 <= b /\ b <= m
      /\ \A x \in 1 .. a - 1, y \in 1 .. m : u[x] # v[y]
  BY <1>1, <1>3
<1> HIDE DEF A
<1> DEFINE n == a + m - b
           s == [x \in 1 .. n |-> IF x <= a THEN u[x] ELSE v[x - a + b]]
<1>6. n \in Nat /\ n >= a /\ n = a + m - b
  BY <1>1, <1>5
<1>7. n >= 2
  BY <1>1, <1>4, <1>5, <1>6
<1>8. /\ \A x \in 1 .. a : s[x] = u[x] /\ x \in 1 .. l
      /\ \A x \in a + 1 .. n : s[x] = v[x - a + b] /\ x - a + b \in b + 1 .. m
      /\ DOMAIN s = 1 .. n
      /\ \A x \in 1 .. n : x \in 1 .. a \/ x \in a + 1 .. n
  BY <1>1, <1>5, <1>6
<1>9. s \in [1 .. n -> Candidate]
  BY <1>1, <1>5, <1>6
<1> HIDE DEF n, s
<1>10. s[1] = i
  BY <1>1, <1>5, <1>8
<1>11. s[n] = j
  <2>1. CASE b = m
    BY <1>1, <1>4, <1>5, <1>6, <1>8, <2>1
  <2>2. CASE b # m
    BY <1>1, <1>5, <1>6, <1>8, <2>2
  <2>3. QED
    BY <2>1, <2>2
<1>12. ASSUME NEW x \in 1 .. n, NEW y \in 1 .. n, x < y PROVE s[x] # s[y]
  <2>1. CASE y <= a
    BY <1>1, <1>5, <1>8, <1>12, <2>1
  <2>2. CASE x > a
    <3>1. s[x] = v[x - a + b] /\ s[y] = v[y - a + b]
          /\ x - a + b \in 1 .. m /\ y - a + b \in 1 .. m
      BY <1>5, <1>6, <1>8, <1>12, <2>2
    <3>2. x - a + b # y - a + b
      BY <1>5, <1>6, <1>12
    <3>3. QED
      BY <1>1, <3>1, <3>2
  <2>3. CASE x <= a /\ y > a
    <3>1. s[x] = u[x] /\ s[y] = v[y - a + b] /\ y - a + b \in b + 1 .. m
      BY <1>5, <1>6, <1>8, <2>3
    <3>2. CASE x = a
      BY <1>1, <1>4, <1>5, <3>1, <3>2
    <3>3. CASE x # a
      BY <1>5, <2>3, <3>1, <3>3
    <3>4. QED
      BY <3>2, <3>3
  <2>4. QED
    BY <1>5, <1>6, <2>1, <2>2, <2>3
<1>13. \A x, y \in 1 .. n : x # y => s[x] # s[y]
  <2> SUFFICES ASSUME NEW x \in 1 .. n, NEW y \in 1 .. n, x # y PROVE s[x] # s[y]
    OBVIOUS
  <2>1. x < y \/ y < x
    BY <1>6
  <2>2. QED
    BY <1>12, <2>1
<1>14. Path(s, n, <<i, j>>)
  BY <1>6, <1>7, <1>9, <1>10, <1>11, <1>13 DEF Path
<1>15. Below(s, n, k + 1)
  <2> SUFFICES ASSUME NEW x \in 2 .. n - 1 PROVE s[x] < k + 1
    BY DEF Below
  <2>1. CASE x <= a
    <3>1. s[x] = u[x]
      BY <1>5, <1>8, <2>1
    <3>2. CASE x = l
      BY <1>1, <3>1, <3>2, DimAssumption DEF Candidate
    <3>3. CASE x # l
      <4>1. x \in 2 .. l - 1 /\ u[x] \in Candidate
        BY <1>1, <1>5, <2>1, <3>3
      <4>2. u[x] < k
        BY <4>1 DEF Below
      <4>3. QED
        BY <3>1, <4>1, <4>2, DimAssumption DEF Candidate
    <3>4. QED
      BY <3>2, <3>3
  <2>2. CASE x > a
    <3>1. s[x] = v[x - a + b] /\ x - a + b \in 2 .. m - 1
      BY <1>1, <1>5, <1>6, <1>8, <2>2
    <3>2. v[x - a + b] < k /\ v[x - a + b] \in Candidate
      BY <1>1, <3>1 DEF Below
    <3>3. QED
      BY <3>1, <3>2, DimAssumption DEF Candidate
  <2>3. QED
    BY <1>5, <1>6, <2>1, <2>2
<1>16. Along(s, n, L)
  <2> SUFFICES ASSUME NEW x \in 1 .. n - 1 PROVE <<s[x], s[x + 1]>> \in L
    BY DEF Along
  <2>1. CASE x < a
    <3>1. s[x] = u[x] /\ s[x + 1] = u[x + 1] /\ x \in 1 .. l - 1
      BY <1>1, <1>5, <1>6, <1>8, <2>1
    <3>2. QED
      BY <3>1 DEF Along
  <2>2. CASE x >= a
    <3> DEFINE y == x - a + b
    <3>1. y \in 1 .. m - 1 /\ s[x + 1] = v[y + 1]
      <4>1. x + 1 \in a + 1 .. n /\ (x + 1) - a + b = y + 1
        BY <1>5, <1>6, <2>2
      <4>2. QED
        BY <1>1, <1>5, <1>6, <1>8, <2>2, <4>1
    <3>2. s[x] = v[y]
      <4>1. CASE x = a
        BY <1>4, <1>5, <1>8, <4>1
      <4>2. CASE x # a
        BY <1>5, <1>6, <1>8, <2>2, <4>2
      <4>3. QED
        BY <4>1, <4>2
    <3> HIDE DEF y
    <3>3. QED
      BY <3>1, <3>2 DEF Along
  <2>3. QED
    BY <1>5, <1>6, <2>1, <2>2
<1>17. QED
  BY <1>14, <1>15, <1>16

\* A path through k consists of one to k and one from there.
LEMMA PathSplits ==
    ASSUME NEW s, NEW n, NEW k \in Candidate, NEW i, NEW j, Path(s, n, <<i, j>>),
           Below(s, n, k + 1), NEW x \in 2 .. n - 1, s[x] = k
    PROVE  \E u, v, l, m :
             /\ Path(u, l, <<i, k>>) /\ Below(u, l, k)
             /\ Path(v, m, <<k, j>>) /\ Below(v, m, k)
             /\ \A y \in 1 .. l - 1 : \E z \in 1 .. n - 1 :
                  <<u[y], u[y + 1]>> = <<s[z], s[z + 1]>>
             /\ \A y \in 1 .. m - 1 : \E z \in 1 .. n - 1 :
                  <<v[y], v[y + 1]>> = <<s[z], s[z + 1]>>
<1> DEFINE m == n - x + 1
           u == [y \in 1 .. x |-> s[y]]
           v == [y \in 1 .. m |-> s[y + x - 1]]
<1>1. /\ n \in Nat /\ s \in [1 .. n -> Candidate] /\ s[1] = i /\ s[n] = j
      /\ x \in Nat /\ x >= 2 /\ x <= n - 1
      /\ \A y, z \in 1 .. n : y # z => s[y] # s[z]
  BY DEF Path
<1>2. m \in Nat /\ m >= 2 /\ m = n - x + 1
  BY <1>1
<1>3. /\ \A y \in 1 .. x : u[y] = s[y] /\ y \in 1 .. n
      /\ \A y \in 1 .. m : v[y] = s[y + x - 1] /\ y + x - 1 \in 1 .. n
  BY <1>1, <1>2
<1>4. u \in [1 .. x -> Candidate] /\ v \in [1 .. m -> Candidate]
  BY <1>1, <1>2
<1> HIDE DEF m, u, v
<1>5. Path(u, x, <<i, k>>)
  BY <1>1, <1>3, <1>4 DEF Path
<1>6. Path(v, m, <<k, j>>)
  <2>1. v[1] = k
    BY <1>1, <1>2, <1>3
  <2>2. v[m] = j
    BY <1>1, <1>2, <1>3
  <2>3. ASSUME NEW y \in 1 .. m, NEW z \in 1 .. m, y # z PROVE v[y] # v[z]
    <3>1. y + x - 1 # z + x - 1
      BY <1>1, <1>2, <2>3
    <3>2. QED
      BY <1>1, <1>3, <3>1
  <2>4. QED
    BY <1>2, <1>4, <2>1, <2>2, <2>3 DEF Path
<1>7. \A z \in 2 .. n - 1 : z # x => s[z] < k
  <2> SUFFICES ASSUME NEW z \in 2 .. n - 1, z # x PROVE s[z] < k
    OBVIOUS
  <2>1. s[z] < k + 1 /\ s[z] # k /\ s[z] \in Candidate
    BY <1>1 DEF Below
  <2>2. QED
    BY <2>1, DimAssumption DEF Candidate
<1>8. Below(u, x, k)
  BY <1>1, <1>3, <1>7 DEF Below
<1>9. Below(v, m, k)
  <2> SUFFICES ASSUME NEW y \in 2 .. m - 1 PROVE v[y] < k
    BY DEF Below
  <2>1. v[y] = s[y + x - 1] /\ y + x - 1 \in 2 .. n - 1 /\ y + x - 1 # x
    BY <1>1, <1>2, <1>3
  <2>2. QED
    BY <1>7, <2>1
<1>10. \A y \in 1 .. x - 1 : y \in 1 .. n - 1 /\ <<u[y], u[y + 1]>> = <<s[y], s[y + 1]>>
  BY <1>1, <1>3
<1>11. ASSUME NEW y \in 1 .. m - 1
       PROVE  /\ y + x - 1 \in 1 .. n - 1
              /\ <<v[y], v[y + 1]>> = <<s[y + x - 1], s[(y + x - 1) + 1]>>
  <2>1. y + x - 1 \in 1 .. n - 1 /\ (y + 1) + x - 1 = (y + x - 1) + 1
        /\ y \in 1 .. m /\ y + 1 \in 1 .. m
    BY <1>1, <1>2
  <2>2. v[y] = s[y + x - 1] /\ v[y + 1] = s[(y + 1) + x - 1]
    BY <1>3, <2>1
  <2>3. QED
    BY <2>1, <2>2
<1>12. QED
  BY <1>5, <1>6, <1>8, <1>9, <1>10, <1>11

-----------------------------------------------------------------------------
(* What the paths are. *)

\* Entry q of m is the strength of the best path through candidates below k:
\* there is one that has it, and none has more.
BestBelow(m, k) ==
    \A q \in Pairs :
        /\ \E n, s : /\ Path(s, n, q) /\ Below(s, n, k)
                     /\ \A x \in 1 .. n - 1 : ~Weaker(Link(<<s[x], s[x + 1]>>), m[q])
        /\ \A n, s : Path(s, n, q) /\ Below(s, n, k) =>
                     \E x \in 1 .. n - 1 : ~Weaker(m[q], Link(<<s[x], s[x + 1]>>))

\* Up to the pivot find_best_paths has found the best paths, and the order of
\* the candidates rests on them.
BestSoFar ==
    /\ step \in {"close", "links"} => forbidden = {}
    /\ step = "paths" /\ forbidden = {} => BestBelow(matrix_t, pivot)
    /\ step = "order" /\ forbidden = {} => BestBelow(matrix_t, Dim + 1)
    /\ Ordered => BestBelow(matrix_p, Dim + 1)

\* Consecutive candidates of a path are a pair.
LEMMA PathLinks ==
    ASSUME NEW s, NEW n, NEW q, Path(s, n, q), NEW x \in 1 .. n - 1
    PROVE  <<s[x], s[x + 1]>> \in Pairs /\ s[x] \in Candidate /\ s[x + 1] \in Candidate
<1>1. x \in 1 .. n /\ x + 1 \in 1 .. n /\ x # x + 1
  BY DEF Path
<1>2. QED
  BY <1>1, PairType DEF Path

\* A path through none but its ends is a link.
LEMMA BestDirect ==
    ASSUME battle \in [Pairs -> Nat]
    PROVE  BestBelow([q \in Pairs |-> Link(q)], 1)
<1> DEFINE m == [q \in Pairs |-> Link(q)]
<1> SUFFICES ASSUME NEW q \in Pairs
             PROVE  /\ \E n, s : /\ Path(s, n, q) /\ Below(s, n, 1)
                                 /\ \A x \in 1 .. n - 1 :
                                      ~Weaker(Link(<<s[x], s[x + 1]>>), m[q])
                    /\ \A n, s : Path(s, n, q) /\ Below(s, n, 1) =>
                         \E x \in 1 .. n - 1 : ~Weaker(m[q], Link(<<s[x], s[x + 1]>>))
  BY DEF BestBelow
<1>1. m[q] = Link(q) /\ Link(q) \in LinkStrength /\ ~Weaker(Link(q), Link(q))
  BY LinkType, WeakerOrder
<1> HIDE DEF m
<1>2. PICK n, s : Path(s, n, q) /\ Below(s, n, 1) /\ Along(s, n, {q})
  BY LinkIsPath
<1>3. \A x \in 1 .. n - 1 : ~Weaker(Link(<<s[x], s[x + 1]>>), m[q])
  BY <1>1, <1>2 DEF Along
<1>4. ASSUME NEW l, NEW u, Path(u, l, q), Below(u, l, 1)
      PROVE  \E x \in 1 .. l - 1 : ~Weaker(m[q], Link(<<u[x], u[x + 1]>>))
  <2>1. l \in Nat /\ l >= 2 /\ u \in [1 .. l -> Candidate]
    BY <1>4 DEF Path
  <2>2. l = 2
    <3>1. ASSUME l # 2 PROVE FALSE
      <4>1. 2 \in 2 .. l - 1 /\ u[2] \in Candidate
        BY <2>1, <3>1
      <4>2. u[2] < 1
        BY <1>4, <4>1 DEF Below
      <4>3. QED
        BY <4>1, <4>2, DimAssumption DEF Candidate
    <3>2. QED
      BY <3>1
  <2>3. u[1] = q[1] /\ u[2] = q[2] /\ q = <<q[1], q[2]>>
    BY <1>4, <2>2, PairType DEF Path
  <2>4. 1 \in 1 .. l - 1 /\ <<u[1], u[1 + 1]>> = q
    BY <2>2, <2>3
  <2>5. QED
    BY <1>1, <2>4
<1>5. QED
  BY <1>2, <1>3, <1>4

\* The strengths are ordered, and the two choices are minimum and maximum.
LEMMA WeakerLattice ==
    ASSUME NEW x \in LinkStrength, NEW y \in LinkStrength
    PROVE  /\ ~Weaker(x, Weakest(x, y)) /\ ~Weaker(y, Weakest(x, y))
           /\ ~Weaker(Stronger(x, y), x) /\ ~Weaker(Stronger(x, y), y)
           /\ Weakest(x, y) \in {x, y} /\ Stronger(x, y) \in {x, y}
  BY DEF Weaker, Stronger, Weakest, LinkStrength

\* A pass with pivot k finds the best paths through k as well: a path through k
\* is one to k and one from k, and two of those join to a path.
LEMMA BestThrough ==
    ASSUME battle \in [Pairs -> Nat], NEW m \in [Pairs -> LinkStrength],
           NEW k \in Candidate, BestBelow(m, k)
    PROVE  BestBelow(Through(m, k), k + 1)
<1> DEFINE t == Through(m, k)
<1> SUFFICES ASSUME NEW q \in Pairs
             PROVE  /\ \E n, s : /\ Path(s, n, q) /\ Below(s, n, k + 1)
                                 /\ \A x \in 1 .. n - 1 :
                                      ~Weaker(Link(<<s[x], s[x + 1]>>), t[q])
                    /\ \A n, s : Path(s, n, q) /\ Below(s, n, k + 1) =>
                         \E x \in 1 .. n - 1 : ~Weaker(t[q], Link(<<s[x], s[x + 1]>>))
  BY DEF BestBelow
<1> DEFINE i == q[1]
           j == q[2]
           a == <<i, k>>
           b == <<k, j>>
           w == Weakest(m[a], m[b])
<1>1. q = <<i, j>> /\ i \in Candidate /\ j \in Candidate /\ i # j /\ k \in Nat
  BY PairType, DimAssumption DEF Pairs, Candidate
<1>2. t[q] = IF k \in {i, j} THEN m[q] ELSE Stronger(m[q], w)
  BY DEF Through
<1>3. m[q] \in LinkStrength
  OBVIOUS
<1>4. \A s, n : Path(s, n, q) /\ Below(s, n, k) => Below(s, n, k + 1)
  <2> SUFFICES ASSUME NEW s, NEW n, Path(s, n, q), Below(s, n, k), NEW x \in 2 .. n - 1
               PROVE  s[x] < k + 1
    BY DEF Below
  <2>1. s[x] < k /\ s[x] \in Candidate
    BY DEF Below, Path
  <2>2. QED
    BY <1>1, <2>1, DimAssumption DEF Candidate
<1>5. PICK n0, s0 : /\ Path(s0, n0, q) /\ Below(s0, n0, k)
                    /\ \A x \in 1 .. n0 - 1 : ~Weaker(Link(<<s0[x], s0[x + 1]>>), m[q])
  BY DEF BestBelow
<1>6. \A n, s : Path(s, n, q) /\ Below(s, n, k) =>
         \E x \in 1 .. n - 1 : ~Weaker(m[q], Link(<<s[x], s[x + 1]>>))
  BY DEF BestBelow
<1>7. k \notin {i, j} =>
         /\ a \in Pairs /\ b \in Pairs /\ a[1] = i /\ a[2] = k /\ b[1] = k /\ b[2] = j
         /\ m[a] \in LinkStrength /\ m[b] \in LinkStrength /\ w \in LinkStrength
  <2>1. k \notin {i, j} => a \in Pairs /\ b \in Pairs
    BY <1>1, PairType
  <2>2. QED
    BY <2>1 DEF Weakest
<1> HIDE DEF t, w, a, b, i, j
<1>8. t[q] \in LinkStrength /\ ~Weaker(t[q], m[q])
  BY <1>2, <1>3, <1>7, WeakerLattice, WeakerOrder
<1>9. \E n, s : /\ Path(s, n, q) /\ Below(s, n, k + 1)
                /\ \A x \in 1 .. n - 1 : ~Weaker(Link(<<s[x], s[x + 1]>>), t[q])
  <2>1. CASE t[q] = m[q]
    BY <1>4, <1>5, <2>1
  <2>2. CASE t[q] # m[q]
    <3>1. k \notin {i, j} /\ t[q] = w
      BY <1>2, <1>3, <1>7, <2>2, WeakerLattice
    <3> DEFINE L == {r \in Pairs : ~Weaker(Link(r), w)}
    <3>2. \A r \in Pairs : ~Weaker(Link(r), m[a]) => r \in L
      <4> SUFFICES ASSUME NEW r \in Pairs, ~Weaker(Link(r), m[a])
                   PROVE  ~Weaker(Link(r), w)
        OBVIOUS
      <4>1. ~Weaker(m[a], w) /\ Link(r) \in LinkStrength
        BY <1>7, <3>1, LinkType, WeakerLattice DEF w
      <4>2. QED
        BY <1>7, <3>1, <4>1, WeakerOrder
    <3>3. \A r \in Pairs : ~Weaker(Link(r), m[b]) => r \in L
      <4> SUFFICES ASSUME NEW r \in Pairs, ~Weaker(Link(r), m[b])
                   PROVE  ~Weaker(Link(r), w)
        OBVIOUS
      <4>1. ~Weaker(m[b], w) /\ Link(r) \in LinkStrength
        BY <1>7, <3>1, LinkType, WeakerLattice DEF w
      <4>2. QED
        BY <1>7, <3>1, <4>1, WeakerOrder
    <3>4. PICK l, u : /\ Path(u, l, a) /\ Below(u, l, k)
                      /\ \A x \in 1 .. l - 1 : ~Weaker(Link(<<u[x], u[x + 1]>>), m[a])
      BY <1>7, <3>1 DEF BestBelow
    <3>5. PICK n, v : /\ Path(v, n, b) /\ Below(v, n, k)
                      /\ \A x \in 1 .. n - 1 : ~Weaker(Link(<<v[x], v[x + 1]>>), m[b])
      BY <1>7, <3>1 DEF BestBelow
    <3>6. Along(u, l, L) /\ Along(v, n, L)
      <4> HIDE DEF L
      <4> QED
        BY <3>2, <3>3, <3>4, <3>5, PathLinks DEF Along
    <3>7. PICK c, s : Path(s, c, <<i, j>>) /\ Below(s, c, k + 1) /\ Along(s, c, L)
      <4>1. Path(u, l, <<i, k>>) /\ Path(v, n, <<k, j>>)
        BY <3>4, <3>5 DEF a, b
      <4> HIDE DEF L
      <4>2. QED
        BY <1>1, <3>4, <3>5, <3>6, <4>1, PathsJoin
    <3>8. \A x \in 1 .. c - 1 : ~Weaker(Link(<<s[x], s[x + 1]>>), t[q])
      BY <3>1, <3>7 DEF Along
    <3>9. QED
      BY <1>1, <3>7, <3>8
  <2>3. QED
    BY <2>1, <2>2
<1>10. ASSUME NEW n, NEW s, Path(s, n, q), Below(s, n, k + 1)
       PROVE  \E x \in 1 .. n - 1 : ~Weaker(t[q], Link(<<s[x], s[x + 1]>>))
  <2>1. \A x \in 1 .. n - 1 : Link(<<s[x], s[x + 1]>>) \in LinkStrength
    BY <1>10, PathLinks, LinkType
  <2>2. CASE Below(s, n, k)
    <3>1. PICK x \in 1 .. n - 1 : ~Weaker(m[q], Link(<<s[x], s[x + 1]>>))
      BY <1>6, <1>10, <2>2
    <3>2. ~Weaker(t[q], Link(<<s[x], s[x + 1]>>))
      BY <1>3, <1>8, <2>1, <3>1, WeakerOrder
    <3>3. QED
      BY <3>2
  <2>3. CASE ~Below(s, n, k)
    <3>1. PICK x \in 2 .. n - 1 : ~(s[x] < k)
      BY <2>3 DEF Below
    <3>2. s[x] = k
      <4>1. s[x] < k + 1 /\ s[x] \in Candidate
        BY <1>10 DEF Below, Path
      <4>2. QED
        BY <1>1, <3>1, <4>1, DimAssumption DEF Candidate
    <3>3. k \notin {i, j}
      <4>1. n \in Nat /\ x # 1 /\ x # n /\ x \in 1 .. n /\ 1 \in 1 .. n /\ n \in 1 .. n
            /\ s[1] = i /\ s[n] = j
        BY <1>10 DEF Path, i, j
      <4>2. QED
        BY <1>10, <3>2, <4>1 DEF Path
    <3>4. PICK u, v, l, c :
             /\ Path(u, l, a) /\ Below(u, l, k) /\ Path(v, c, b) /\ Below(v, c, k)
             /\ \A y \in 1 .. l - 1 : \E z \in 1 .. n - 1 :
                  <<u[y], u[y + 1]>> = <<s[z], s[z + 1]>>
             /\ \A y \in 1 .. c - 1 : \E z \in 1 .. n - 1 :
                  <<v[y], v[y + 1]>> = <<s[z], s[z + 1]>>
      <4>1. Path(s, n, <<i, j>>)
        BY <1>1, <1>10
      <4>2. QED
        BY <1>10, <3>2, <4>1, PathSplits DEF a, b
    <3>5. PICK y \in 1 .. l - 1 : ~Weaker(m[a], Link(<<u[y], u[y + 1]>>))
      BY <1>7, <3>3, <3>4 DEF BestBelow
    <3>6. PICK z \in 1 .. c - 1 : ~Weaker(m[b], Link(<<v[z], v[z + 1]>>))
      BY <1>7, <3>3, <3>4 DEF BestBelow
    <3>7. PICK x1 \in 1 .. n - 1 : ~Weaker(m[a], Link(<<s[x1], s[x1 + 1]>>))
      BY <3>4, <3>5
    <3>8. PICK x2 \in 1 .. n - 1 : ~Weaker(m[b], Link(<<s[x2], s[x2 + 1]>>))
      BY <3>4, <3>6
    <3>9. w \in {m[a], m[b]} /\ ~Weaker(t[q], w) /\ w \in LinkStrength
      BY <1>2, <1>3, <1>7, <3>3, WeakerLattice DEF w
    <3>10. PICK x3 \in 1 .. n - 1 : ~Weaker(w, Link(<<s[x3], s[x3 + 1]>>))
      BY <3>7, <3>8, <3>9
    <3>11. ~Weaker(t[q], Link(<<s[x3], s[x3 + 1]>>))
      BY <1>8, <2>1, <3>9, <3>10, WeakerOrder
    <3>12. QED
      BY <3>11
  <2>4. QED
    BY <2>2, <2>3
<1>11. QED
  BY <1>9, <1>10

\* What is best stays so as long as the ballots and the policy do not change.
LEMMA BestStays ==
    ASSUME NEW m, NEW k, BestBelow(m, k), policy' = policy, battle' = battle
    PROVE  BestBelow(m, k)'
<1>1. \A r : Link(r)' = Link(r)
  BY DEF Link, DefeatStrength, SecondaryLinkStrength
<1>2. QED
  BY <1>1 DEF BestBelow

\* The passes of find_best_paths find the best paths, and tie-breaking does not
\* touch them.
LEMMA StepBest ==
    ASSUME TypeOK, BestSoFar, [Next]_vars
    PROVE  BestSoFar'
<1> USE DEF count, paths, ranks
<1>1. battle \in [Pairs -> Nat] /\ matrix_t \in [Pairs -> LinkStrength]
  BY DEF TypeOK
<1>2. ASSUME policy' = policy, battle' = battle, matrix_p' = matrix_p,
             Ordered' => Ordered, step' \notin {"close", "links"},
             step' = "paths" /\ forbidden' = {} => BestBelow(matrix_t, pivot)',
             step' = "order" /\ forbidden' = {} => BestBelow(matrix_t, Dim + 1)'
      PROVE  BestSoFar'
  <2>1. ASSUME Ordered' PROVE BestBelow(matrix_p, Dim + 1)'
    BY <1>2, <2>1, BestStays DEF BestSoFar
  <2>2. QED
    BY <1>2, <2>1 DEF BestSoFar
<1>3. CASE CloseVoting
  BY <1>3 DEF CloseVoting, BestSoFar, Ordered
<1>4. CASE FindDirectLinks
  <2>1. BestBelow([q \in Pairs |-> Link(q)], 1)
    BY <1>1, BestDirect
  <2>2. BestBelow(matrix_t, pivot)'
    BY <1>4, <2>1, BestStays DEF FindDirectLinks
  <2>3. QED
    BY <1>2, <1>4, <2>2 DEF FindDirectLinks, Ordered
<1>5. CASE FindBestPaths
  <2>1. ASSUME forbidden' = {} PROVE BestBelow(matrix_t, pivot)'
    <3>1. BestBelow(matrix_t, pivot) /\ pivot \in Candidate
      BY <1>5, <2>1 DEF FindBestPaths, BestSoFar, TypeOK, Candidate
    <3>2. BestBelow(Through(matrix_t, pivot), pivot + 1)
      BY <1>1, <3>1, BestThrough
    <3>3. QED
      BY <1>5, <3>2, BestStays DEF FindBestPaths
  <2>2. step' = "order" => pivot' = Dim + 1
    BY <1>5 DEF FindBestPaths
  <2>3. QED
    BY <1>2, <1>5, <2>1, <2>2 DEF FindBestPaths, Ordered
<1>6. CASE CreatePartialOrder
  <2>1. BestBelow(matrix_t, Dim + 1)
    BY <1>6 DEF CreatePartialOrder, BestSoFar
  <2>2. BestBelow(matrix_p, Dim + 1)'
    BY <1>6, <2>1, BestStays DEF CreatePartialOrder
  <2>3. QED
    BY <1>6, <2>2 DEF CreatePartialOrder, BestSoFar
<1>7. CASE NextTie
  BY <1>2, <1>7 DEF NextTie, Ordered
<1>8. CASE NoMoreTies
  BY <1>2, <1>8 DEF NoMoreTies, Ordered
<1>9. CASE ForbidLink
  <2>1. forbidden' # {}
    BY <1>9 DEF ForbidLink
  <2>2. QED
    BY <1>2, <1>9, <2>1 DEF ForbidLink, Ordered
<1>10. CASE ExtendPartialOrder
  BY <1>2, <1>10 DEF ExtendPartialOrder, Break, Ordered
<1>11. CASE AssignRank
  BY <1>2, <1>11 DEF AssignRank, Ordered
<1>12. CASE RaiseException
  BY <1>2, <1>12 DEF RaiseException, NoSharedLink, RankingDoesNotCompute, Ordered
<1>13. CASE Preliminary
  BY <1>2, <1>13 DEF Preliminary, Ordered
<1>14. CASE ExtendIndirectMajority
  BY <1>2, <1>14 DEF ExtendIndirectMajority, Ordered
<1>15. CASE SelectWinner
  BY <1>2, <1>15 DEF SelectWinner, Ordered
<1>16. CASE UNCHANGED vars
  <2>1. UNCHANGED <<policy, battle, step, matrix_t, pivot, forbidden, matrix_p>>
    BY <1>16 DEF vars
  <2>2. step = "paths" /\ forbidden = {} => BestBelow(matrix_t, pivot)'
    BY <2>1, BestStays DEF BestSoFar
  <2>3. step = "order" /\ forbidden = {} => BestBelow(matrix_t, Dim + 1)'
    BY <2>1, BestStays DEF BestSoFar
  <2>4. Ordered => BestBelow(matrix_p, Dim + 1)'
    BY <2>1, BestStays DEF BestSoFar
  <2>5. Ordered' = Ordered
    BY <2>1 DEF Ordered
  <2>6. QED
    BY <2>1, <2>2, <2>3, <2>4, <2>5 DEF BestSoFar
<1>17. QED
  BY <1>3, <1>4, <1>5, <1>6, <1>7, <1>8, <1>9, <1>10, <1>11, <1>12, <1>13, <1>14,
     <1>15, <1>16 DEF Next

\* What find_best_paths has found are the best of all simple paths.
LEMMA BestAreFound == TypeOK /\ BestSoFar => BestPathsFound
<1> SUFFICES ASSUME TypeOK, BestSoFar, step = "ties", NEW q \in Pairs
             PROVE  /\ \E s \in SimplePaths[q] : PathAsStrongAs(s, matrix_p[q])
                    /\ \A s \in SimplePaths[q] :
                         \E l \in LinksOf(s) : ~Weaker(matrix_p[q], Link(l))
  BY DEF BestPathsFound
<1>1. BestBelow(matrix_p, Dim + 1)
  BY DEF BestSoFar, Ordered
<1>2. ASSUME NEW n, NEW s, Path(s, n, q) PROVE Below(s, n, Dim + 1)
  <2>1. \A x \in 2 .. n - 1 : s[x] \in Candidate
    BY <1>2 DEF Path
  <2>2. QED
    BY <2>1, DimAssumption DEF Below, Candidate
<1>3. \E s \in SimplePaths[q] : PathAsStrongAs(s, matrix_p[q])
  <2>1. PICK n, s : /\ Path(s, n, q)
                    /\ \A x \in 1 .. n - 1 : ~Weaker(Link(<<s[x], s[x + 1]>>), matrix_p[q])
    BY <1>1 DEF BestBelow
  <2>2. s \in SimplePaths[q] /\ LinksOf(s) = {<<s[x], s[x + 1]>> : x \in 1 .. n - 1}
    BY <2>1, PathsAreSimple
  <2>3. PathAsStrongAs(s, matrix_p[q])
    BY <2>1, <2>2 DEF PathAsStrongAs
  <2>4. QED
    BY <2>2, <2>3
<1>4. ASSUME NEW s \in SimplePaths[q]
      PROVE  \E l \in LinksOf(s) : ~Weaker(matrix_p[q], Link(l))
  <2>1. PICK n : Path(s, n, q)
    BY PathsAreSimple
  <2>2. LinksOf(s) = {<<s[x], s[x + 1]>> : x \in 1 .. n - 1}
    BY <2>1, PathsAreSimple
  <2>3. \E x \in 1 .. n - 1 : ~Weaker(matrix_p[q], Link(<<s[x], s[x + 1]>>))
    BY <1>1, <1>2, <2>1 DEF BestBelow
  <2>4. QED
    BY <2>2, <2>3
<1>5. QED
  BY <1>3, <1>4

-----------------------------------------------------------------------------
(* Indirect majorities. *)

\* Pairs of which the first has an indirect majority if the second has.
MajorityLinks == {l \in Pairs : Meets(policy.indirect, battle[l], battle[Reverse(l)])}

\* A chain of majorities from i to the status quo, all of whose initiatives
\* are in S.
ChainFrom(i, S) ==
    \E n, s : /\ Path(s, n, <<i, StatusQuo>>)
              /\ Along(s, n, MajorityLinks)
              /\ \A x \in 1 .. n - 1 : s[x] \in S

\* The set grows from those with a majority over the status quo along such
\* chains, until nothing can be added.
IndirectSoFar ==
    step \in {"majorities", "done"} =>
        /\ {i \in Initiatives : <<i, StatusQuo>> \in MajorityLinks}
              \subseteq result.indirect_majority
        /\ \A i \in result.indirect_majority : ChainFrom(i, result.indirect_majority)
        /\ step = "done" => NewIndirect = {}

\* An initiative and the status quo are a pair.
LEMMA OverStatusQuo ==
    ASSUME NEW i \in Initiatives
    PROVE  /\ i \in Candidate /\ StatusQuo \in Candidate /\ i # StatusQuo
           /\ <<i, StatusQuo>> \in Pairs /\ Reverse(<<i, StatusQuo>>) = <<StatusQuo, i>>
           /\ <<i, StatusQuo>> \in MajorityLinks <=>
                Meets(policy.indirect, PositiveVotes(i), NegativeVotes(i))
<1>1. i \in Candidate /\ StatusQuo \in Candidate /\ i # StatusQuo
  BY DimAssumption DEF Initiatives, StatusQuo, Candidate
<1>2. <<i, StatusQuo>> \in Pairs /\ Reverse(<<i, StatusQuo>>) = <<StatusQuo, i>>
  BY <1>1, PairType DEF Reverse
<1>3. QED
  BY <1>1, <1>2 DEF MajorityLinks, PositiveVotes, NegativeVotes

\* A majority over the status quo is a chain.
LEMMA ChainOfOne ==
    ASSUME NEW i \in Initiatives, <<i, StatusQuo>> \in MajorityLinks, NEW S, i \in S
    PROVE  ChainFrom(i, S)
<1>1. <<i, StatusQuo>> \in Pairs
  BY OverStatusQuo
<1>2. PICK n, s : /\ Path(s, n, <<i, StatusQuo>>) /\ n = 2
                  /\ \A L : <<i, StatusQuo>> \in L => Along(s, n, L)
  BY <1>1, LinkIsPath
<1>3. \A x \in 1 .. n - 1 : s[x] \in S
  BY <1>2 DEF Path
<1>4. Along(s, n, MajorityLinks)
  BY <1>2
<1>5. QED
  BY <1>2, <1>3, <1>4 DEF ChainFrom

\* A majority over the first of a chain makes the chain longer.
LEMMA ChainGrows ==
    ASSUME NEW S, NEW o, ChainFrom(o, S), NEW i \in Initiatives, i \notin S,
           <<i, o>> \in MajorityLinks, NEW T, S \subseteq T, i \in T
    PROVE  ChainFrom(i, T)
<1>1. PICK n, s : /\ Path(s, n, <<o, StatusQuo>>) /\ Along(s, n, MajorityLinks)
                  /\ \A x \in 1 .. n - 1 : s[x] \in S
  BY DEF ChainFrom
<1>2. /\ n \in Nat /\ n >= 2 /\ s \in [1 .. n -> Candidate]
      /\ s[1] = o /\ s[n] = StatusQuo
      /\ \A x, y \in 1 .. n : x # y => s[x] # s[y]
  BY <1>1 DEF Path
<1> DEFINE t == [x \in 1 .. n + 1 |-> IF x = 1 THEN i ELSE s[x - 1]]
<1>3. /\ t[1] = i /\ 1 \in 1 .. n + 1
      /\ \A x \in 2 .. n + 1 : t[x] = s[x - 1] /\ x - 1 \in 1 .. n /\ x \in 1 .. n + 1
      /\ \A x \in 1 .. n + 1 : x = 1 \/ x \in 2 .. n + 1
  BY <1>2
<1>4. i \in Candidate /\ i # StatusQuo
  BY OverStatusQuo
<1>5. t \in [1 .. n + 1 -> Candidate]
  BY <1>2, <1>3, <1>4
<1> HIDE DEF t
<1>6. \A x \in 1 .. n : s[x] # i
  <2>1. \A x \in 1 .. n : x = n \/ x \in 1 .. n - 1
    BY <1>2
  <2>2. QED
    BY <1>1, <1>2, <1>4, <2>1
<1>7. \A x, y \in 1 .. n + 1 : x # y => t[x] # t[y]
  <2> SUFFICES ASSUME NEW x \in 1 .. n + 1, NEW y \in 1 .. n + 1, x # y
               PROVE  t[x] # t[y]
    OBVIOUS
  <2>1. CASE x = 1
    BY <1>3, <1>6, <2>1
  <2>2. CASE y = 1
    BY <1>3, <1>6, <2>2
  <2>3. CASE x # 1 /\ y # 1
    <3>1. t[x] = s[x - 1] /\ t[y] = s[y - 1] /\ x - 1 \in 1 .. n /\ y - 1 \in 1 .. n
      BY <1>3, <2>3
    <3>2. x - 1 # y - 1
      BY <1>2
    <3>3. QED
      BY <1>2, <3>1, <3>2
  <2>4. QED
    BY <2>1, <2>2, <2>3
<1>8. Path(t, n + 1, <<i, StatusQuo>>)
  <2>1. t[n + 1] = StatusQuo
    BY <1>2, <1>3
  <2>2. QED
    BY <1>2, <1>3, <1>5, <1>7, <2>1 DEF Path
<1>9. Along(t, n + 1, MajorityLinks)
  <2> SUFFICES ASSUME NEW x \in 1 .. (n + 1) - 1 PROVE <<t[x], t[x + 1]>> \in MajorityLinks
    BY DEF Along
  <2>1. CASE x = 1
    BY <1>2, <1>3, <2>1
  <2>2. CASE x # 1
    <3>1. t[x] = s[x - 1] /\ t[x + 1] = s[(x - 1) + 1] /\ x - 1 \in 1 .. n - 1
      BY <1>2, <1>3, <2>2
    <3>2. QED
      BY <1>1, <3>1 DEF Along
  <2>3. QED
    BY <2>1, <2>2
<1>10. \A x \in 1 .. (n + 1) - 1 : t[x] \in T
  <2> SUFFICES ASSUME NEW x \in 1 .. (n + 1) - 1 PROVE t[x] \in T
    OBVIOUS
  <2>1. CASE x = 1
    BY <1>3, <2>1
  <2>2. CASE x # 1
    BY <1>1, <1>2, <1>3, <2>2
  <2>3. QED
    BY <2>1, <2>2
<1>11. QED
  BY <1>8, <1>9, <1>10 DEF ChainFrom

\* A chain within a set is one within a larger set.
LEMMA ChainStays ==
    ASSUME NEW i, NEW S, NEW T, S \subseteq T, ChainFrom(i, S)
    PROVE  ChainFrom(i, T)
  BY DEF ChainFrom

\* The loop over indirect majorities follows chains of majorities.
LEMMA StepIndirect ==
    ASSUME TypeOK, IndirectSoFar, [Next]_vars
    PROVE  IndirectSoFar'
<1> USE DEF count, paths, ranks
<1>1. ASSUME policy' = policy, battle' = battle, voter_count' = voter_count
      PROVE  /\ MajorityLinks' = MajorityLinks
             /\ \A i, S : ChainFrom(i, S)' = ChainFrom(i, S)
  <2>1. MajorityLinks' = MajorityLinks
    BY <1>1 DEF MajorityLinks, Meets
  <2>2. QED
    BY <2>1 DEF ChainFrom
<1>2. CASE step' \notin {"majorities", "done"}
  BY <1>2 DEF IndirectSoFar
<1>3. CASE Preliminary
  <2> DEFINE R == {i \in Initiatives : Meets(policy.indirect, PositiveVotes(i), NegativeVotes(i))}
  <2>1. result'.indirect_majority = R /\ step' = "majorities"
    BY <1>3 DEF Preliminary, NoResult
  <2>2. \A i \in R : ChainFrom(i, R)
    BY OverStatusQuo, ChainOfOne
  <2>3. {i \in Initiatives : <<i, StatusQuo>> \in MajorityLinks} \subseteq R
    BY OverStatusQuo
  <2>4. MajorityLinks' = MajorityLinks /\ \A i, S : ChainFrom(i, S)' = ChainFrom(i, S)
    BY <1>1, <1>3 DEF Preliminary
  <2> HIDE DEF R
  <2>5. QED
    BY <2>1, <2>2, <2>3, <2>4 DEF IndirectSoFar
<1>4. CASE ExtendIndirectMajority
  <2> DEFINE S == result.indirect_majority
             T == S \cup NewIndirect
  <2>1. result'.indirect_majority = T /\ step = "majorities" /\ step' = "majorities"
    BY <1>4 DEF ExtendIndirectMajority, TypeOK, ResultRow
  <2>2. {i \in Initiatives : <<i, StatusQuo>> \in MajorityLinks} \subseteq S
        /\ \A i \in S : ChainFrom(i, S)
    BY <2>1 DEF IndirectSoFar
  <2>3. ASSUME NEW i \in NewIndirect PROVE ChainFrom(i, T)
    <3>1. i \in Initiatives \ S
      BY <2>3 DEF NewIndirect
    <3>2. PICK o \in S : Meets(policy.indirect, battle[<<i, o>>], battle[<<o, i>>])
      BY <2>3 DEF NewIndirect
    <3>3. <<i, o>> \in Pairs /\ Reverse(<<i, o>>) = <<o, i>>
      <4>1. o \in Initiatives /\ i # o
        BY <3>1, <3>2 DEF TypeOK, ResultRow
      <4>2. QED
        BY <3>1, <4>1, OverStatusQuo, PairType DEF Reverse
    <3>4. <<i, o>> \in MajorityLinks
      BY <3>2, <3>3 DEF MajorityLinks
    <3>5. QED
      BY <2>2, <2>3, <3>1, <3>2, <3>4, ChainGrows
  <2>4. \A i \in T : ChainFrom(i, T)
    BY <2>2, <2>3, ChainStays
  <2>5. MajorityLinks' = MajorityLinks /\ \A i, U : ChainFrom(i, U)' = ChainFrom(i, U)
    BY <1>1, <1>4 DEF ExtendIndirectMajority
  <2>6. {i \in Initiatives : <<i, StatusQuo>> \in MajorityLinks} \subseteq T
    BY <2>2
  <2> HIDE DEF T, S
  <2>7. QED
    BY <2>1, <2>4, <2>5, <2>6 DEF IndirectSoFar
<1>5. CASE SelectWinner
  <2>1. result'.indirect_majority = result.indirect_majority /\ step = "majorities"
        /\ NewIndirect = {} /\ UNCHANGED <<policy, battle, voter_count>>
    BY <1>5 DEF SelectWinner, TypeOK, ResultRow
  <2>2. NewIndirect' = {}
    BY <2>1 DEF NewIndirect, Meets
  <2>3. QED
    BY <1>1, <2>1, <2>2 DEF IndirectSoFar
<1>6. CASE UNCHANGED vars
  <2>1. UNCHANGED <<policy, battle, voter_count, step, result>>
    BY <1>6 DEF vars
  <2>2. NewIndirect' = NewIndirect
    BY <2>1 DEF NewIndirect, Meets
  <2>3. QED
    BY <1>1, <2>1, <2>2 DEF IndirectSoFar
<1>7. CASE step' \in {"majorities", "done"} /\ Next
  <2>1. Preliminary \/ ExtendIndirectMajority \/ SelectWinner
    BY <1>7 DEF Next, CloseVoting, FindDirectLinks, FindBestPaths, CreatePartialOrder,
                NextTie, NoMoreTies, ForbidLink, ExtendPartialOrder, Break, AssignRank,
                RaiseException
  <2>2. QED
    BY <1>3, <1>4, <1>5, <2>1
<1>8. QED
  BY <1>2, <1>6, <1>7

\* When nothing can be added, whoever has a chain is in the set: the last of
\* the chain who is not would have been added.
LEMMA ChainsAreFound ==
    ASSUME TypeOK, IndirectSoFar, step = "done",
           NEW i \in Initiatives, NEW s, NEW n, Path(s, n, <<i, StatusQuo>>),
           Along(s, n, MajorityLinks)
    PROVE  i \in result.indirect_majority
<1> DEFINE S == result.indirect_majority
           A == {y \in Nat : y \in 1 .. n - 1 /\ s[n - y] \notin S}
<1> SUFFICES ASSUME i \notin S PROVE FALSE
  OBVIOUS
<1>1. /\ n \in Nat /\ n >= 2 /\ s \in [1 .. n -> Candidate]
      /\ s[1] = i /\ s[n] = StatusQuo
      /\ \A x, y \in 1 .. n : x # y => s[x] # s[y]
  BY DEF Path
<1>2. A \subseteq Nat /\ n - 1 \in A
  <2>1. n - (n - 1) = 1 /\ n - 1 \in 1 .. n - 1
    BY <1>1
  <2>2. QED
    BY <1>1, <2>1
<1>3. PICK y \in A : \A z \in A : y <= z
  <2> HIDE DEF A
  <2> QED
    BY <1>2, LeastOf
<1> DEFINE x == n - y
<1>4. x \in 1 .. n - 1 /\ s[x] \notin S /\ x # n
  BY <1>1
<1>5. s[x] \in Initiatives
  BY <1>1, <1>4 DEF Initiatives
<1>6. <<s[x], s[x + 1]>> \in MajorityLinks
  BY <1>4 DEF Along
<1>7. CASE x = n - 1
  <2>1. s[x + 1] = StatusQuo
    BY <1>1, <1>7
  <2>2. QED
    BY <1>4, <1>5, <1>6, <2>1 DEF IndirectSoFar
<1>8. CASE x # n - 1
  <2>1. s[x + 1] \in S
    <3>1. y - 1 \in Nat /\ y - 1 \in 1 .. n - 1 /\ n - (y - 1) = x + 1 /\ ~(y <= y - 1)
      BY <1>1, <1>4, <1>8
    <3>2. y - 1 \notin A
      BY <1>3, <3>1
    <3> HIDE DEF x
    <3>3. QED
      BY <3>1, <3>2
  <2> HIDE DEF x, A
  <2>2. Meets(policy.indirect, battle[<<s[x], s[x + 1]>>], battle[<<s[x + 1], s[x]>>])
    BY <1>6 DEF MajorityLinks, Reverse
  <2>3. s[x] \in NewIndirect
    BY <1>4, <1>5, <2>1, <2>2 DEF NewIndirect
  <2>4. QED
    BY <2>3 DEF IndirectSoFar
<1>9. QED
  BY <1>7, <1>8

\* In the end the set is that of all simple chains of majorities.
LEMMA IndirectIsChain == TypeOK /\ IndirectSoFar => IndirectMajorityIsChain
<1> SUFFICES ASSUME TypeOK, IndirectSoFar, step = "done"
             PROVE  result.indirect_majority =
                      {i \in Initiatives :
                        \E s \in SimplePaths[<<i, StatusQuo>>] :
                          \A l \in LinksOf(s) :
                            Meets(policy.indirect, battle[l], battle[Reverse(l)])}
  BY DEF IndirectMajorityIsChain
<1>1. ASSUME NEW i \in Initiatives, NEW s, NEW n, Path(s, n, <<i, StatusQuo>>)
      PROVE  (\A l \in LinksOf(s) : Meets(policy.indirect, battle[l], battle[Reverse(l)]))
                <=> Along(s, n, MajorityLinks)
  <2>1. LinksOf(s) = {<<s[x], s[x + 1]>> : x \in 1 .. n - 1}
    BY <1>1, OverStatusQuo, PathsAreSimple
  <2>2. \A x \in 1 .. n - 1 : <<s[x], s[x + 1]>> \in Pairs
    BY <1>1, PathLinks
  <2>3. QED
    BY <2>1, <2>2 DEF Along, MajorityLinks
<1>2. ASSUME NEW i \in result.indirect_majority
      PROVE  /\ i \in Initiatives
             /\ \E s \in SimplePaths[<<i, StatusQuo>>] :
                  \A l \in LinksOf(s) : Meets(policy.indirect, battle[l], battle[Reverse(l)])
  <2>1. i \in Initiatives
    BY <1>2 DEF TypeOK, ResultRow
  <2>2. PICK n, s : Path(s, n, <<i, StatusQuo>>) /\ Along(s, n, MajorityLinks)
    BY <1>2 DEF IndirectSoFar, ChainFrom
  <2>3. s \in SimplePaths[<<i, StatusQuo>>]
    BY <2>1, <2>2, OverStatusQuo, PathsAreSimple
  <2>4. QED
    BY <1>1, <2>1, <2>2, <2>3
<1>3. ASSUME NEW i \in Initiatives, NEW s \in SimplePaths[<<i, StatusQuo>>],
             \A l \in LinksOf(s) : Meets(policy.indirect, battle[l], battle[Reverse(l)])
      PROVE  i \in result.indirect_majority
  <2>1. PICK n : Path(s, n, <<i, StatusQuo>>)
    BY OverStatusQuo, PathsAreSimple
  <2>2. QED
    BY <1>1, <1>3, <2>1, ChainsAreFound
<1>4. QED
  BY <1>2, <1>3

\* find_best_paths finds the strengths of the strongest simple paths, and the
\* loop over indirect majorities all simple chains of majorities, whatever the
\* order in which their loops visit the candidates.
THEOREM PathsAreBest == Spec => []PathsAreFound
<1>1. Init => BestSoFar /\ IndirectSoFar
  BY DEF Init, BestSoFar, IndirectSoFar, Ordered
<1>2. TypeOK /\ BestSoFar /\ IndirectSoFar /\ [Next]_vars => (BestSoFar /\ IndirectSoFar)'
  BY StepBest, StepIndirect
<1>3. TypeOK /\ BestSoFar /\ IndirectSoFar => PathsAreFound
  BY BestAreFound, IndirectIsChain DEF PathsAreFound
<1>4. QED
  BY <1>1, <1>2, <1>3, TypeCorrect, PTL DEF Spec

-----------------------------------------------------------------------------
(* Reachability, and the best paths once more: with links forbidden, and   *)
(* told by what can be reached over links of some strength.                *)

\* The links of K lead from a to b.
Reaches(K, a, b) ==
    \A C \in SUBSET Candidate : a \in C /\ (\A l \in K : l[1] \in C => l[2] \in C) => b \in C

\* More links reach farther, and ways can be joined.
LEMMA ReachesFar ==
    ASSUME NEW K, NEW M, K \subseteq M, NEW a \in Candidate, NEW b \in Candidate, NEW c \in Candidate
    PROVE  /\ Reaches(K, a, b) => Reaches(M, a, b)
           /\ Reaches(K, a, b) /\ Reaches(K, b, c) => Reaches(K, a, c)
  BY DEF Reaches

\* The order of strengths, as far as it has not been said.
LEMMA WeakerTotal ==
    ASSUME NEW x \in LinkStrength, NEW y \in LinkStrength, NEW z \in LinkStrength
    PROVE  /\ Weaker(x, y) \/ Weaker(y, x) \/ x = y
           /\ Weaker(x, y) /\ Weaker(y, z) => Weaker(x, z)
           /\ Weaker(x, y) /\ ~Weaker(z, y) => Weaker(x, z)
           /\ ~Weaker(y, x) /\ Weaker(y, z) => Weaker(x, z)
           /\ ~Weaker(Weakest(x, y), z) <=> ~Weaker(x, z) /\ ~Weaker(y, z)
           /\ Weaker(z, Weakest(x, y)) <=> Weaker(z, x) /\ Weaker(z, y)
           /\ ~Weaker(z, Stronger(x, y)) <=> ~Weaker(z, x) /\ ~Weaker(z, y)
<1>1. PICK xp \in Int, xs \in Int : x = [primary |-> xp, secondary |-> xs]
  BY DEF LinkStrength
<1>2. PICK yp \in Int, ys \in Int : y = [primary |-> yp, secondary |-> ys]
  BY DEF LinkStrength
<1>3. PICK zp \in Int, zs \in Int : z = [primary |-> zp, secondary |-> zs]
  BY DEF LinkStrength
<1> QED BY <1>1, <1>2, <1>3 DEF Weaker, Weakest, Stronger

\* The links that are at least as strong as s.
AsStrongAs(w, s) == {l \in Pairs : ~Weaker(w[l], s)}

\* What find_best_paths knows of the links w when the first k candidates have been
\* pivots: m has strengths of links and of ways through them, none of which is
\* weaker than what a pivot connects.
WaysUpTo(m, w, k) ==
    /\ \A q \in Pairs : ~Weaker(m[q], w[q])
    /\ \A q \in Pairs : \E l \in Pairs : m[q] = w[l]
    /\ \A q \in Pairs : Reaches(AsStrongAs(w, m[q]), q[1], q[2])
    /\ \A j \in 1 .. k : \A q \in Pairs :
         j \notin {q[1], q[2]} => ~Weaker(m[q], Weakest(m[<<q[1], j>>], m[<<j, q[2]>>]))

\* Before the first pivot these are the links,
LEMMA WaysBegin ==
    ASSUME NEW w \in [Pairs -> LinkStrength]
    PROVE  WaysUpTo(w, w, 0)
<1>1. \A q \in Pairs : ~Weaker(w[q], w[q])
  BY WeakerOrder
<1>2. \A q \in Pairs : Reaches(AsStrongAs(w, w[q]), q[1], q[2])
  BY <1>1 DEF Reaches, AsStrongAs
<1> QED BY <1>1, <1>2 DEF WaysUpTo

\* and every pass of the outer loop adds one pivot.
LEMMA WaysGrow ==
    ASSUME NEW w \in [Pairs -> LinkStrength], NEW m \in [Pairs -> LinkStrength],
           NEW k \in Candidate, WaysUpTo(m, w, k - 1)
    PROVE  WaysUpTo(Through(m, k), w, k)
<1> DEFINE t == Through(m, k)
<1>1. \A q \in Pairs : k \in {q[1], q[2]} => t[q] = m[q]
  BY DEF Through
<1>2. \A q \in Pairs : k \notin {q[1], q[2]} =>
         /\ <<q[1], k>> \in Pairs /\ <<k, q[2]>> \in Pairs
         /\ t[q] = Stronger(m[q], Weakest(m[<<q[1], k>>], m[<<k, q[2]>>]))
  BY PairType DEF Through
<1>3. t \in [Pairs -> LinkStrength]
  BY ThroughType
<1> HIDE DEF t
<1>4. \A q \in Pairs : k \notin {q[1], q[2]} =>
         \/ t[q] = m[q]
         \/ t[q] = m[<<q[1], k>>] /\ ~Weaker(m[<<k, q[2]>>], t[q])
         \/ t[q] = m[<<k, q[2]>>] /\ ~Weaker(m[<<q[1], k>>], t[q])
  <2> TAKE q \in Pairs
  <2> HAVE k \notin {q[1], q[2]}
  <2>1. PICK x \in LinkStrength : x = m[<<q[1], k>>]
    BY <1>2
  <2>2. PICK y \in LinkStrength : y = m[<<k, q[2]>>]
    BY <1>2
  <2>3. ~Weaker(x, x) /\ ~Weaker(y, y) /\ (Weaker(x, y) => ~Weaker(y, x))
    BY WeakerOrder
  <2>4. t[q] = Stronger(m[q], Weakest(x, y))
    BY <1>2, <2>1, <2>2
  <2>5. t[q] = m[q] \/ (t[q] = x /\ ~Weaker(y, t[q])) \/ (t[q] = y /\ ~Weaker(x, t[q]))
    BY <2>3, <2>4 DEF Stronger, Weakest
  <2> QED BY <2>1, <2>2, <2>5
<1>5. \A q \in Pairs : ~Weaker(t[q], m[q])
  <2> TAKE q \in Pairs
  <2>1. ~Weaker(m[q], m[q])
    BY WeakerOrder
  <2>2. CASE k \in {q[1], q[2]}
    BY <1>1, <2>1, <2>2
  <2>3. CASE k \notin {q[1], q[2]}
    <3>1. PICK y \in LinkStrength : y = Weakest(m[<<q[1], k>>], m[<<k, q[2]>>])
      BY <1>2, <2>3 DEF Weakest
    <3>2. t[q] = Stronger(m[q], y)
      BY <1>2, <2>3, <3>1
    <3> QED BY <3>2, WeakerOrder
  <2> QED BY <2>2, <2>3
<1>6. \A q \in Pairs : ~Weaker(t[q], w[q])
  <2> TAKE q \in Pairs
  <2>1. ~Weaker(t[q], m[q]) /\ ~Weaker(m[q], w[q])
    BY <1>5 DEF WaysUpTo
  <2> QED BY <1>3, <2>1, WeakerOrder
<1>7. \A q \in Pairs : \E l \in Pairs : t[q] = w[l]
  <2>1. \A q \in Pairs : \E r \in Pairs : t[q] = m[r]
    BY <1>1, <1>2, <1>4
  <2>2. \A r \in Pairs : \E l \in Pairs : m[r] = w[l]
    BY DEF WaysUpTo
  <2> QED BY <2>1, <2>2
<1>8. ASSUME NEW q \in Pairs PROVE Reaches(AsStrongAs(w, t[q]), q[1], q[2])
  <2>1. CASE t[q] = m[q]
    BY <2>1 DEF WaysUpTo
  <2>2. ASSUME k \notin {q[1], q[2]},
               ~Weaker(m[<<q[1], k>>], t[q]), ~Weaker(m[<<k, q[2]>>], t[q])
        PROVE  Reaches(AsStrongAs(w, t[q]), q[1], q[2])
    <3>1. q[1] \in Candidate /\ q[2] \in Candidate /\ <<q[1], k>> \in Pairs /\ <<k, q[2]>> \in Pairs
      BY <1>2, <2>2, PairType
    <3>2. ASSUME NEW r \in Pairs, ~Weaker(m[r], t[q])
          PROVE  Reaches(AsStrongAs(w, t[q]), r[1], r[2])
      <4>1. Reaches(AsStrongAs(w, m[r]), r[1], r[2])
        BY DEF WaysUpTo
      <4>2. AsStrongAs(w, m[r]) \subseteq AsStrongAs(w, t[q])
        <5>1. ASSUME NEW l \in Pairs, ~Weaker(w[l], m[r]) PROVE ~Weaker(w[l], t[q])
          BY <1>3, <3>2, <5>1, WeakerOrder
        <5> QED BY <5>1 DEF AsStrongAs
      <4> QED BY <4>1, <4>2, PairType, ReachesFar
    <3>3. Reaches(AsStrongAs(w, t[q]), q[1], k) /\ Reaches(AsStrongAs(w, t[q]), k, q[2])
      BY <2>2, <3>1, <3>2
    <3> QED BY <3>1, <3>3, ReachesFar
  <2>3. CASE k \notin {q[1], q[2]} /\ t[q] # m[q]
    <3>1. ~Weaker(t[q], t[q])
      BY <1>3, WeakerOrder
    <3> QED BY <1>4, <2>2, <2>3, <3>1
  <2> QED BY <1>1, <2>1, <2>3
<1>9. ASSUME NEW j \in 1 .. k, NEW q \in Pairs, j \notin {q[1], q[2]}
      PROVE  ~Weaker(t[q], Weakest(t[<<q[1], j>>], t[<<j, q[2]>>]))
  <2>1. j \in Candidate /\ q[1] \in Candidate /\ q[2] \in Candidate /\ q[1] # q[2]
        /\ q = <<q[1], q[2]>>
    BY DimAssumption, PairType DEF Candidate, Pairs
  <2>2. PICK a \in Candidate : a = q[1]
    BY <2>1
  <2>3. PICK b \in Candidate : b = q[2]
    BY <2>1
  <2>4. a # b /\ j # a /\ j # b /\ q = <<a, b>>
    BY <1>9, <2>1, <2>2, <2>3
  <2>5. \A c, d \in Candidate : c # d =>
            <<c, d>> \in Pairs /\ m[<<c, d>>] \in LinkStrength /\ t[<<c, d>>] \in LinkStrength
    BY <1>3, PairType
  <2>6. \A c, d \in Candidate : c # d => <<c, d>>[1] = c /\ <<c, d>>[2] = d
    OBVIOUS
  <2>7. \A c, d \in Candidate : c # d /\ k # c /\ k # d =>
            t[<<c, d>>] = Stronger(m[<<c, d>>], Weakest(m[<<c, k>>], m[<<k, d>>]))
    BY <1>2, <2>5
  <2>8. \A c, d \in Candidate : c # d /\ (k = c \/ k = d) => t[<<c, d>>] = m[<<c, d>>]
    BY <1>1, <2>5
  <2>9. ASSUME NEW c \in Candidate, NEW d \in Candidate, c # d, j # c, j # d, j # k
        PROVE  ~Weaker(m[<<c, d>>], Weakest(m[<<c, j>>], m[<<j, d>>]))
    <3>1. j \in 1 .. k - 1
      BY <2>9 DEF Candidate
    <3>2. <<c, d>> \in Pairs /\ <<c, d>>[1] = c /\ <<c, d>>[2] = d
      BY <2>5, <2>9
    <3> QED BY <2>9, <3>1, <3>2 DEF WaysUpTo
  <2>10. PICK x \in LinkStrength : x = m[<<a, b>>]
    BY <2>4, <2>5
  <2>11. PICK y \in LinkStrength : y = m[<<a, j>>]
    BY <2>1, <2>4, <2>5
  <2>12. PICK z \in LinkStrength : z = m[<<j, b>>]
    BY <2>1, <2>4, <2>5
  <2>13. ~Weaker(t[<<a, b>>], m[<<a, b>>])
    BY <1>5, <2>4, <2>5
  <2>14. CASE j = k
    <3>1. t[<<a, j>>] = y /\ t[<<j, b>>] = z
      BY <2>1, <2>4, <2>8, <2>11, <2>12, <2>14
    <3>2. PICK v \in LinkStrength : v = Weakest(y, z)
      BY DEF Weakest
    <3>3. t[<<a, b>>] = Stronger(x, v)
      BY <2>4, <2>7, <2>10, <2>11, <2>12, <2>14, <3>2
    <3>4. ~Weaker(Stronger(x, v), v)
      BY WeakerOrder DEF Stronger
    <3> QED BY <2>2, <2>3, <2>4, <3>1, <3>2, <3>3, <3>4
  <2>15. CASE j # k /\ (k = a \/ k = b)
    <3>1. t[<<a, b>>] = x /\ ~Weaker(x, Weakest(y, z))
      BY <2>1, <2>4, <2>8, <2>9, <2>10, <2>11, <2>12, <2>15
    <3>2. CASE k = a
      <4>1. PICK v \in LinkStrength : v = m[<<j, k>>]
        BY <2>1, <2>5, <2>15
      <4>2. t[<<a, j>>] = y /\ t[<<j, b>>] = Stronger(z, Weakest(v, x))
        BY <2>1, <2>4, <2>7, <2>8, <2>10, <2>11, <2>12, <2>15, <3>2, <4>1
      <4>3. ~Weaker(x, Weakest(y, Stronger(z, Weakest(v, x))))
        BY <3>1 DEF Weaker, Weakest, Stronger, LinkStrength
      <4> QED BY <2>2, <2>3, <2>4, <3>1, <4>2, <4>3
    <3>3. CASE k = b
      <4>1. PICK v \in LinkStrength : v = m[<<k, j>>]
        BY <2>1, <2>5, <2>15
      <4>2. t[<<j, b>>] = z /\ t[<<a, j>>] = Stronger(y, Weakest(x, v))
        BY <2>1, <2>4, <2>7, <2>8, <2>10, <2>11, <2>12, <2>15, <3>3, <4>1
      <4>3. ~Weaker(x, Weakest(Stronger(y, Weakest(x, v)), z))
        BY <3>1 DEF Weaker, Weakest, Stronger, LinkStrength
      <4> QED BY <2>2, <2>3, <2>4, <3>1, <4>2, <4>3
    <3> QED BY <2>15, <3>2, <3>3
  <2>16. CASE j # k /\ k # a /\ k # b
    <3>1. PICK ak \in LinkStrength : ak = m[<<a, k>>]
      BY <2>5, <2>16
    <3>2. PICK kb \in LinkStrength : kb = m[<<k, b>>]
      BY <2>5, <2>16
    <3>3. PICK jk \in LinkStrength : jk = m[<<j, k>>]
      BY <2>1, <2>5, <2>16
    <3>4. PICK kj \in LinkStrength : kj = m[<<k, j>>]
      BY <2>1, <2>5, <2>16
    <3>5. /\ t[<<a, b>>] = Stronger(x, Weakest(ak, kb))
          /\ t[<<a, j>>] = Stronger(y, Weakest(ak, kj))
          /\ t[<<j, b>>] = Stronger(z, Weakest(jk, kb))
      BY <2>1, <2>4, <2>7, <2>10, <2>11, <2>12, <2>16, <3>1, <3>2, <3>3, <3>4
    <3>6. /\ ~Weaker(x, Weakest(y, z))
          /\ ~Weaker(ak, Weakest(y, jk))
          /\ ~Weaker(kb, Weakest(kj, z))
      BY <2>1, <2>4, <2>9, <2>10, <2>11, <2>12, <2>16, <3>1, <3>2, <3>3, <3>4
    <3>7. ~Weaker(Stronger(x, Weakest(ak, kb)),
                  Weakest(Stronger(y, Weakest(ak, kj)), Stronger(z, Weakest(jk, kb))))
      BY <3>6 DEF Weaker, Weakest, Stronger, LinkStrength
    <3> QED BY <2>2, <2>3, <2>4, <3>5, <3>7
  <2> QED BY <2>14, <2>15, <2>16
<1> QED BY <1>6, <1>7, <1>8, <1>9 DEF WaysUpTo, t

\* When all candidates have been pivots, what can be reached over strong links has
\* a strong entry.
LEMMA WaysAreAll ==
    ASSUME NEW w \in [Pairs -> LinkStrength], NEW m \in [Pairs -> LinkStrength],
           WaysUpTo(m, w, Dim), NEW q \in Pairs, NEW s \in LinkStrength
    PROVE  /\ Reaches(AsStrongAs(w, s), q[1], q[2]) => ~Weaker(m[q], s)
           /\ Reaches({l \in Pairs : Weaker(s, w[l])}, q[1], q[2]) => Weaker(s, m[q])
<1>1. q[1] \in Candidate /\ q[2] \in Candidate /\ q[1] # q[2] /\ q = <<q[1], q[2]>>
  BY PairType DEF Pairs
<1>2. PICK a \in Candidate : a = q[1]
  BY <1>1
<1>3. PICK b \in Candidate : b = q[2]
  BY <1>1
<1>4. a # b /\ q = <<a, b>>
  BY <1>1, <1>2, <1>3
<1>5. ASSUME NEW c \in Candidate, NEW d \in Candidate, c # a, d # a, c # d
      PROVE  /\ <<a, c>> \in Pairs /\ <<c, d>> \in Pairs /\ <<a, d>> \in Pairs
             /\ ~Weaker(m[<<a, d>>], Weakest(m[<<a, c>>], m[<<c, d>>]))
             /\ ~Weaker(m[<<c, d>>], w[<<c, d>>])
  <2>1. <<a, c>> \in Pairs /\ <<c, d>> \in Pairs /\ <<a, d>> \in Pairs
    BY <1>5, PairType
  <2>2. c \notin {<<a, d>>[1], <<a, d>>[2]} /\ <<a, d>>[1] = a /\ <<a, d>>[2] = d
    BY <1>5
  <2>3. c \in 1 .. Dim
    BY DEF Candidate
  <2>4. ~Weaker(m[<<a, d>>], Weakest(m[<<(<<a, d>>[1]), c>>], m[<<c, (<<a, d>>[2])>>]))
    BY <2>1, <2>2, <2>3 DEF WaysUpTo
  <2> QED BY <2>1, <2>2, <2>4 DEF WaysUpTo
<1>6. ASSUME Reaches(AsStrongAs(w, s), a, b) PROVE ~Weaker(m[<<a, b>>], s)
  <2> DEFINE C == {c \in Candidate : c = a \/ ~Weaker(m[<<a, c>>], s)}
  <2>1. ASSUME NEW l \in AsStrongAs(w, s), l[1] \in C PROVE l[2] \in C
    <3>1. /\ l \in Pairs /\ ~Weaker(w[l], s) /\ l = <<l[1], l[2]>> /\ l[1] # l[2]
          /\ l[1] \in Candidate /\ l[2] \in Candidate
      BY PairType DEF AsStrongAs, Pairs
    <3>2. PICK c \in Candidate : c = l[1]
      BY <3>1
    <3>3. PICK d \in Candidate : d = l[2]
      BY <3>1
    <3>4. l = <<c, d>> /\ c # d
      BY <3>1, <3>2, <3>3
    <3>5. m[l] \in LinkStrength /\ w[l] \in LinkStrength /\ ~Weaker(m[l], w[l])
      BY <3>1 DEF WaysUpTo
    <3>6. ~Weaker(m[<<c, d>>], s)
      BY <3>1, <3>4, <3>5, WeakerOrder
    <3>7. CASE c # a /\ d # a
      <4>1. ~Weaker(m[<<a, c>>], s)
        BY <2>1, <3>2, <3>7
      <4>2. PICK y \in LinkStrength : y = m[<<a, c>>]
        BY <1>5, <3>4, <3>7
      <4>3. PICK z \in LinkStrength : z = m[<<c, d>>]
        BY <1>5, <3>4, <3>7
      <4>4. PICK x \in LinkStrength : x = m[<<a, d>>]
        BY <1>5, <3>4, <3>7
      <4>5. ~Weaker(x, Weakest(y, z))
        BY <1>5, <3>4, <3>7, <4>2, <4>3, <4>4
      <4>6. ~Weaker(x, s)
        <5>1. PICK v \in LinkStrength : v = Weakest(y, z)
          BY DEF Weakest
        <5>2. ~Weaker(v, s)
          BY <3>6, <4>1, <4>2, <4>3, <5>1, WeakerTotal
        <5> QED BY <4>5, <5>1, <5>2, WeakerOrder
      <4> QED BY <3>3, <4>4, <4>6
    <3>8. CASE c = a
      BY <3>3, <3>6, <3>8
    <3>9. CASE d = a
      BY <3>3, <3>9
    <3> QED BY <3>7, <3>8, <3>9
  <2>2. b \in C
    <3>1. C \in SUBSET Candidate /\ a \in C
      OBVIOUS
    <3> HIDE DEF C
    <3> QED BY <1>6, <2>1, <3>1 DEF Reaches
  <2> QED BY <1>4, <2>2
<1>7. ASSUME Reaches({l \in Pairs : Weaker(s, w[l])}, a, b) PROVE Weaker(s, m[<<a, b>>])
  <2> DEFINE C == {c \in Candidate : c = a \/ Weaker(s, m[<<a, c>>])}
             K == {l \in Pairs : Weaker(s, w[l])}
  <2>1. ASSUME NEW l \in K, l[1] \in C PROVE l[2] \in C
    <3>1. /\ l \in Pairs /\ Weaker(s, w[l]) /\ l = <<l[1], l[2]>> /\ l[1] # l[2]
          /\ l[1] \in Candidate /\ l[2] \in Candidate
      BY PairType DEF Pairs
    <3>2. PICK c \in Candidate : c = l[1]
      BY <3>1
    <3>3. PICK d \in Candidate : d = l[2]
      BY <3>1
    <3>4. l = <<c, d>> /\ c # d
      BY <3>1, <3>2, <3>3
    <3>5. m[l] \in LinkStrength /\ w[l] \in LinkStrength /\ ~Weaker(m[l], w[l])
      BY <3>1 DEF WaysUpTo
    <3>6. Weaker(s, m[<<c, d>>])
      BY <3>1, <3>4, <3>5, WeakerTotal
    <3>7. CASE c # a /\ d # a
      <4>1. Weaker(s, m[<<a, c>>])
        BY <2>1, <3>2, <3>7
      <4>2. PICK y \in LinkStrength : y = m[<<a, c>>]
        BY <1>5, <3>4, <3>7
      <4>3. PICK z \in LinkStrength : z = m[<<c, d>>]
        BY <1>5, <3>4, <3>7
      <4>4. PICK x \in LinkStrength : x = m[<<a, d>>]
        BY <1>5, <3>4, <3>7
      <4>5. ~Weaker(x, Weakest(y, z))
        BY <1>5, <3>4, <3>7, <4>2, <4>3, <4>4
      <4>6. Weaker(s, x)
        <5>1. PICK v \in LinkStrength : v = Weakest(y, z)
          BY DEF Weakest
        <5>2. Weaker(s, v)
          BY <3>6, <4>1, <4>2, <4>3, <5>1, WeakerTotal
        <5> QED BY <4>5, <5>1, <5>2, WeakerTotal
      <4> QED BY <3>3, <4>4, <4>6
    <3>8. CASE c = a
      BY <3>3, <3>6, <3>8
    <3>9. CASE d = a
      BY <3>3, <3>9
    <3> QED BY <3>7, <3>8, <3>9
  <2>2. b \in C
    <3>1. C \in SUBSET Candidate /\ a \in C /\ Reaches(K, a, b)
      BY <1>7
    <3> HIDE DEF C, K
    <3> QED BY <2>1, <3>1 DEF Reaches
  <2> QED BY <1>4, <2>2
<1> QED BY <1>2, <1>3, <1>4, <1>6, <1>7

-----------------------------------------------------------------------------
(* Breaking a tie.  The links have different strengths, unless ties are    *)
(* broken in the "simple" way.                                             *)

\* The links in the order of their strength.
LinksDiffer(L) ==
    /\ L \in [Pairs -> LinkStrength]
    /\ \A q, r \in Pairs : q # r => L[q] # L[r]
    /\ \A q \in Pairs : Weaker(WorstLink, L[q])

\* l is stronger than r.
Before(L, l, r) == Weaker(L[r], L[l])

\* It is a total order.
LEMMA LinksInOrder ==
    ASSUME NEW L, LinksDiffer(L), NEW l \in Pairs, NEW r \in Pairs, NEW u \in Pairs
    PROVE  /\ ~Before(L, l, l)
           /\ Before(L, l, r) => ~Before(L, r, l)
           /\ Before(L, l, r) /\ Before(L, r, u) => Before(L, l, u)
           /\ l = r \/ Before(L, l, r) \/ Before(L, r, l)
<1>1. L[l] \in LinkStrength /\ L[r] \in LinkStrength /\ L[u] \in LinkStrength /\ (l # r => L[l] # L[r])
  BY DEF LinksDiffer
<1> QED BY <1>1, WeakerOrder, WeakerTotal DEF Before

\* The links that are not forbidden, and stronger than l.
Over(L, F, l) == {r \in Pairs \ F : Before(L, r, l)}

\* The matrix in which the links F are forbidden.
Used(L, F) == [q \in Pairs |-> IF q \in F THEN WorstLink ELSE L[q]]

\* What an entry of the matrix says, in terms of links.
LEMMA EntrySays ==
    ASSUME NEW L, LinksDiffer(L), NEW F \in SUBSET Pairs, NEW m \in [Pairs -> LinkStrength],
           WaysUpTo(m, Used(L, F), Dim), NEW q \in Pairs, NEW l \in Pairs
    PROVE  /\ Weaker(L[l], m[q]) <=> Reaches(Over(L, F, l), q[1], q[2])
           /\ ~Weaker(m[q], L[l]) => Reaches(Over(L, F, l) \cup {l}, q[1], q[2])
           /\ l \notin F /\ Reaches(Over(L, F, l) \cup {l}, q[1], q[2]) => ~Weaker(m[q], L[l])
<1>1. PICK w \in [Pairs -> LinkStrength] : w = Used(L, F)
  BY WorstLinkType DEF Used, LinksDiffer
<1>2. \A r \in Pairs : w[r] = IF r \in F THEN WorstLink ELSE L[r]
  BY <1>1 DEF Used
<1>3. L[l] \in LinkStrength /\ \A r \in Pairs : L[r] \in LinkStrength /\ Weaker(WorstLink, L[r])
  BY DEF LinksDiffer
<1>4. q[1] \in Candidate /\ q[2] \in Candidate /\ Reaches(AsStrongAs(w, m[q]), q[1], q[2])
  BY <1>1, PairType DEF WaysUpTo
<1>5. {r \in Pairs : Weaker(L[l], w[r])} = Over(L, F, l)
  <2>1. ASSUME NEW r \in Pairs PROVE Weaker(L[l], w[r]) <=> r \notin F /\ Before(L, r, l)
    <3>1. ~Weaker(L[l], WorstLink)
      BY <1>3, WorstLinkType, WeakerOrder
    <3> QED BY <1>2, <3>1 DEF Before
  <2> QED BY <2>1 DEF Over
<1>6. ASSUME Weaker(L[l], m[q]) PROVE Reaches(Over(L, F, l), q[1], q[2])
  <2>1. ASSUME NEW r \in Pairs, ~Weaker(w[r], m[q]) PROVE Weaker(L[l], w[r])
    BY <1>3, <1>6, <2>1, WeakerTotal
  <2>2. AsStrongAs(w, m[q]) \subseteq Over(L, F, l)
    BY <1>5, <2>1 DEF AsStrongAs
  <2> QED BY <1>4, <2>2, ReachesFar
<1>7. ASSUME Reaches(Over(L, F, l), q[1], q[2]) PROVE Weaker(L[l], m[q])
  <2>1. PICK s \in LinkStrength : s = L[l]
    BY <1>3
  <2>2. Reaches({r \in Pairs : Weaker(s, w[r])}, q[1], q[2])
    BY <1>5, <1>7, <2>1
  <2>3. Weaker(s, m[q])
    BY <1>1, <2>2, WaysAreAll
  <2> QED BY <2>1, <2>3
<1>8. ASSUME ~Weaker(m[q], L[l]) PROVE Reaches(Over(L, F, l) \cup {l}, q[1], q[2])
  <2>1. ASSUME NEW r \in Pairs, ~Weaker(w[r], m[q]) PROVE r \in Over(L, F, l) \cup {l}
    <3>1. ~Weaker(w[r], L[l])
      BY <1>3, <1>8, <2>1, WeakerOrder
    <3>2. w[r] = L[l] \/ Weaker(L[l], w[r])
      BY <1>3, <3>1, WeakerTotal
    <3>3. CASE w[r] = L[l]
      <4>1. ~Weaker(WorstLink, WorstLink)
        BY WorstLinkType, WeakerOrder
      <4>2. r \notin F /\ L[r] = L[l]
        BY <1>2, <1>3, <3>3, <4>1
      <4> QED BY <4>2 DEF LinksDiffer
    <3> QED BY <1>5, <3>2, <3>3
  <2>2. AsStrongAs(w, m[q]) \subseteq Over(L, F, l) \cup {l}
    BY <2>1 DEF AsStrongAs
  <2> QED BY <1>4, <2>2, ReachesFar
<1>9. ASSUME l \notin F, Reaches(Over(L, F, l) \cup {l}, q[1], q[2]) PROVE ~Weaker(m[q], L[l])
  <2>1. ASSUME NEW r \in Over(L, F, l) \cup {l} PROVE r \in AsStrongAs(w, L[l])
    <3>1. CASE r = l
      <4>1. w[l] = L[l] /\ ~Weaker(L[l], L[l])
        BY <1>2, <1>3, <1>9, WeakerOrder
      <4> QED BY <3>1, <4>1 DEF AsStrongAs
    <3>2. CASE r \in Over(L, F, l)
      <4>1. r \in Pairs /\ Weaker(L[l], w[r])
        BY <1>5, <3>2
      <4>2. ~Weaker(w[r], L[l])
        BY <1>3, <4>1, WeakerOrder
      <4> QED BY <4>1, <4>2 DEF AsStrongAs
    <3> QED BY <2>1, <3>1, <3>2
  <2>2. Reaches(AsStrongAs(w, L[l]), q[1], q[2])
    <3>1. Over(L, F, l) \cup {l} \subseteq AsStrongAs(w, L[l])
      BY <2>1
    <3> QED BY <1>4, <1>9, <3>1, ReachesFar
  <2> QED BY <1>1, <1>3, <2>2, WaysAreAll
<1> QED BY <1>6, <1>7, <1>8, <1>9

\* q is a tie over K, or nothing connects its candidates.
Both(K, q)    == Reaches(K, q[1], q[2]) /\ Reaches(K, q[2], q[1])
Neither(K, q) == ~Reaches(K, q[1], q[2]) /\ ~Reaches(K, q[2], q[1])

\* The forbidden links F are those that, by strength, were the first to connect
\* the candidates of q, and did so in both directions.
Skips(L, F, q) ==
    \A f \in F : Neither(Over(L, F, f), q) /\ Both(Over(L, F, f) \cup {f}, q)

\* The link l decides q: it is the first that connects them in one direction only.
Wins(L, F, l, q) ==
    /\ Skips(L, F, q) /\ l \notin F /\ \A f \in F : Before(L, f, l)
    /\ Neither(Over(L, F, l), q)
    /\ Reaches(Over(L, F, l) \cup {l}, q[1], q[2])
    /\ ~Reaches(Over(L, F, l) \cup {l}, q[2], q[1])

Decided(L, q) == \E F \in SUBSET Pairs, l \in Pairs : Wins(L, F, l, q)

\* What connects them is weaker than the links that have been forbidden.
LEMMA ForbiddenBefore ==
    ASSUME NEW L, LinksDiffer(L), NEW F \in SUBSET Pairs, NEW q \in Pairs, Skips(L, F, q),
           NEW l \in Pairs \ F,
           \/ Reaches(Over(L, F, l) \cup {l}, q[1], q[2])
           \/ Reaches(Over(L, F, l) \cup {l}, q[2], q[1])
    PROVE  \A f \in F : Before(L, f, l)
<1> SUFFICES ASSUME NEW f \in F, ~Before(L, f, l) PROVE FALSE
  OBVIOUS
<1>1. Before(L, l, f)
  BY LinksInOrder
<1>2. Over(L, F, l) \cup {l} \subseteq Over(L, F, f)
  BY <1>1, LinksInOrder DEF Over
<1>3. Neither(Over(L, F, f), q) /\ q[1] \in Candidate /\ q[2] \in Candidate
  BY PairType DEF Skips
<1> QED BY <1>2, <1>3, ReachesFar DEF Neither

\* A tie has a link to forbid, as long as the direct links are not forbidden.
LEMMA TieHasLink ==
    ASSUME NEW L, LinksDiffer(L), NEW F \in SUBSET Pairs, NEW m \in [Pairs -> LinkStrength],
           WaysUpTo(m, Used(L, F), Dim), NEW q \in Pairs, Weaker(WorstLink, m[q]) \/ q \notin F
    PROVE  \E l \in Pairs \ F : m[q] = L[l]
<1>1. PICK l \in Pairs : m[q] = Used(L, F)[l]
  BY DEF WaysUpTo
<1>2. ~Weaker(m[q], Used(L, F)[q]) /\ ~Weaker(WorstLink, WorstLink)
  BY WorstLinkType, WeakerOrder DEF WaysUpTo
<1>3. Weaker(WorstLink, m[q])
  <2>1. CASE q \notin F
    <3>1. ~Weaker(m[q], L[q]) /\ Weaker(WorstLink, L[q]) /\ L[q] \in LinkStrength
      BY <1>2, <2>1 DEF Used, LinksDiffer
    <3> QED BY <3>1, WorstLinkType, WeakerTotal
  <2> QED BY <2>1
<1>4. l \notin F
  BY <1>1, <1>2, <1>3 DEF Used
<1> QED BY <1>1, <1>4 DEF Used

\* A way that starts with the first candidate cannot help to get there.
LEMMA NoWayBack ==
    ASSUME NEW K \in SUBSET Pairs, NEW q \in Pairs, Reaches(K \cup {q}, q[2], q[1])
    PROVE  Reaches(K, q[2], q[1])
<1> SUFFICES ASSUME NEW C \in SUBSET Candidate, q[2] \in C,
                    \A l \in K : l[1] \in C => l[2] \in C, q[1] \notin C
             PROVE  FALSE
  BY DEF Reaches
<1>1. \A l \in K \cup {q} : l[1] \in C => l[2] \in C
  OBVIOUS
<1> QED BY <1>1 DEF Reaches

\* A tie is one in both orders of its candidates.
LEMMA ReverseTie ==
    ASSUME NEW L, NEW F, NEW q \in Pairs
    PROVE  /\ Reverse(q)[1] = q[2] /\ Reverse(q)[2] = q[1]
           /\ \A K : Neither(K, Reverse(q)) <=> Neither(K, q)
           /\ Skips(L, F, Reverse(q)) <=> Skips(L, F, q)
<1>1. Reverse(q)[1] = q[2] /\ Reverse(q)[2] = q[1]
  BY DEF Reverse
<1>2. \A K : (Neither(K, Reverse(q)) <=> Neither(K, q)) /\ (Both(K, Reverse(q)) <=> Both(K, q))
  BY <1>1 DEF Neither, Both
<1> QED BY <1>1, <1>2 DEF Skips

\* Forbidding the link that a tie is due to.
LEMMA TieGoesOn ==
    ASSUME NEW L, LinksDiffer(L), NEW F \in SUBSET Pairs, NEW m \in [Pairs -> LinkStrength],
           WaysUpTo(m, Used(L, F), Dim), NEW q \in Pairs, Skips(L, F, q),
           NEW l \in Pairs \ F, m[q] = L[l], m[Reverse(q)] = L[l]
    PROVE  Skips(L, F \cup {l}, q) /\ l # q /\ l # Reverse(q)
<1>1. Reverse(q) \in Pairs /\ Reverse(q)[1] = q[2] /\ Reverse(q)[2] = q[1]
      /\ q[1] \in Candidate /\ q[2] \in Candidate /\ L[l] \in LinkStrength
  BY PairType, ReverseTie DEF LinksDiffer
<1>2. ~Weaker(L[l], L[l])
  BY <1>1, WeakerOrder
<1>3. Neither(Over(L, F, l), q)
  BY <1>1, <1>2, EntrySays DEF Neither
<1>4. Both(Over(L, F, l) \cup {l}, q)
  BY <1>1, <1>2, EntrySays DEF Both
<1>5. \A f \in F : Before(L, f, l)
  BY <1>4, ForbiddenBefore DEF Both
<1>6. Over(L, F \cup {l}, l) = Over(L, F, l)
  BY LinksInOrder DEF Over
<1>7. ASSUME NEW f \in F PROVE Over(L, F \cup {l}, f) = Over(L, F, f)
  <2>1. ~Before(L, l, f)
    BY <1>5, LinksInOrder
  <2> QED BY <2>1 DEF Over
<1>8. Skips(L, F \cup {l}, q)
  <2>1. \A f \in F : Neither(Over(L, F \cup {l}, f), q) /\ Both(Over(L, F \cup {l}, f) \cup {f}, q)
    BY <1>7 DEF Skips
  <2>2. Neither(Over(L, F \cup {l}, l), q) /\ Both(Over(L, F \cup {l}, l) \cup {l}, q)
    BY <1>3, <1>4, <1>6
  <2> QED BY <2>1, <2>2 DEF Skips
<1>9. Over(L, F, l) \in SUBSET Pairs
  BY DEF Over
<1>10. l # q
  BY <1>3, <1>4, <1>9, NoWayBack DEF Neither, Both
<1>11. l # Reverse(q)
  BY <1>1, <1>3, <1>4, <1>9, NoWayBack DEF Neither, Both
<1> QED BY <1>8, <1>10, <1>11

\* A tie that is no more is decided.
LEMMA TieIsDecided ==
    ASSUME NEW L, LinksDiffer(L), NEW F \in SUBSET Pairs, NEW m \in [Pairs -> LinkStrength],
           WaysUpTo(m, Used(L, F), Dim), NEW q \in Pairs, Skips(L, F, q),
           Weaker(m[Reverse(q)], m[q])
    PROVE  Decided(L, q)
<1>1. Reverse(q) \in Pairs /\ Reverse(q)[1] = q[2] /\ Reverse(q)[2] = q[1]
  BY PairType, ReverseTie
<1>2. Weaker(WorstLink, m[q])
  <2>1. ~Weaker(m[Reverse(q)], Used(L, F)[Reverse(q)])
    BY <1>1 DEF WaysUpTo
  <2>2. PICK x \in LinkStrength : x = Used(L, F)[Reverse(q)]
    BY <1>1, WorstLinkType DEF Used, LinksDiffer
  <2>3. ~Weaker(x, WorstLink)
    <3>1. x = WorstLink \/ Weaker(WorstLink, x)
      BY <1>1, <2>2 DEF Used, LinksDiffer
    <3> QED BY <3>1, WorstLinkType, WeakerOrder
  <2>4. ~Weaker(m[Reverse(q)], WorstLink)
    BY <1>1, <2>1, <2>2, <2>3, WorstLinkType, WeakerOrder
  <2> QED BY <1>1, <2>4, WorstLinkType, WeakerTotal
<1>3. PICK l \in Pairs \ F : m[q] = L[l]
  BY <1>2, TieHasLink
<1>4. L[l] \in LinkStrength
  BY DEF LinksDiffer
<1>5. ~Weaker(L[l], m[q]) /\ ~Weaker(m[q], L[l]) /\ ~Weaker(L[l], m[Reverse(q)])
  BY <1>1, <1>3, <1>4, WeakerOrder
<1>6. Neither(Over(L, F, l), q) /\ Reaches(Over(L, F, l) \cup {l}, q[1], q[2])
  BY <1>1, <1>5, EntrySays DEF Neither
<1>7. ~Reaches(Over(L, F, l) \cup {l}, q[2], q[1])
  BY <1>1, <1>3, EntrySays
<1>8. \A f \in F : Before(L, f, l)
  BY <1>6, ForbiddenBefore
<1> QED BY <1>6, <1>7, <1>8 DEF Decided, Wins

-----------------------------------------------------------------------------
(* Ties are broken one by one, each by its own series of forbidden links;  *)
(* yet the answers are those of an order.                                  *)

\* Some link of a set is the strongest.
LEMMA StrongestOf ==
    ASSUME NEW L, LinksDiffer(L), NEW S \in SUBSET Pairs, S # {}
    PROVE  \E r \in S : \A u \in S : u = r \/ Before(L, r, u)
<1>1. IsFiniteSet(Pairs)
  <2>1. IsFiniteSet(Candidate \X Candidate)
    BY CandidatesFinite, FS_Product
  <2>2. Pairs \subseteq Candidate \X Candidate
    BY DEF Pairs
  <2> QED BY <2>1, <2>2, FS_Subset
<1> DEFINE T == {Cardinality(Over(L, {}, r)) : r \in S}
<1>2. \A r \in Pairs : IsFiniteSet(Over(L, {}, r)) /\ Cardinality(Over(L, {}, r)) \in Nat
  <2> TAKE r \in Pairs
  <2>1. Over(L, {}, r) \subseteq Pairs
    BY DEF Over
  <2> QED BY <1>1, <2>1, FS_Subset, FS_CardinalityType
<1>3. PICK x \in T : \A y \in T : x <= y
  <2>1. T \subseteq Nat /\ T # {}
    BY <1>2
  <2> HIDE DEF T
  <2> QED BY <2>1, LeastOf
<1>4. PICK r \in S : x = Cardinality(Over(L, {}, r))
  BY DEF T
<1>5. ASSUME NEW u \in S, u # r, ~Before(L, r, u) PROVE FALSE
  <2>1. Before(L, u, r) /\ ~Before(L, u, u)
    BY <1>5, LinksInOrder
  <2>2. Over(L, {}, u) \subseteq Over(L, {}, r) \ {u} /\ u \in Over(L, {}, r)
    BY <2>1, LinksInOrder DEF Over
  <2>3. IsFiniteSet(Over(L, {}, r) \ {u})
        /\ Cardinality(Over(L, {}, r) \ {u}) = Cardinality(Over(L, {}, r)) - 1
    BY <1>2, <2>2, FS_RemoveElement
  <2>4. Cardinality(Over(L, {}, u)) <= Cardinality(Over(L, {}, r) \ {u})
    BY <2>2, <2>3, FS_Subset
  <2>5. x <= Cardinality(Over(L, {}, u))
    BY <1>3
  <2> QED BY <1>2, <1>4, <2>3, <2>4, <2>5
<1> QED BY <1>5

\* The same with l itself.
UpTo(L, F, l) == Over(L, F, l) \cup {l}

\* What a link that is not weaker than the deciding one does to a pair.
LEMMA WinsAt ==
    ASSUME NEW L, LinksDiffer(L), NEW F, NEW m \in Pairs,
           NEW a \in Candidate, NEW b \in Candidate, Wins(L, F, m, <<a, b>>),
           NEW r \in Pairs, r = m \/ Before(L, r, m)
    PROVE  /\ r \in F => r # m /\ Reaches(UpTo(L, F, r), a, b) /\ Reaches(UpTo(L, F, r), b, a)
           /\ r \notin F /\ r = m =>
                Reaches(UpTo(L, F, r), a, b) /\ ~Reaches(UpTo(L, F, r), b, a)
           /\ r \notin F /\ r # m =>
                ~Reaches(UpTo(L, F, r), a, b) /\ ~Reaches(UpTo(L, F, r), b, a)
<1>1. PICK q : q = <<a, b>>
  OBVIOUS
<1>2. Wins(L, F, m, q) /\ q[1] = a /\ q[2] = b
  BY <1>1
<1>3. ASSUME r \in F
      PROVE  r # m /\ Reaches(UpTo(L, F, r), a, b) /\ Reaches(UpTo(L, F, r), b, a)
  BY <1>2, <1>3 DEF Wins, Skips, Both, UpTo
<1>4. ASSUME r \notin F, r = m
      PROVE  Reaches(UpTo(L, F, r), a, b) /\ ~Reaches(UpTo(L, F, r), b, a)
  BY <1>2, <1>4 DEF Wins, UpTo
<1>5. ASSUME r \notin F, r # m
      PROVE  ~Reaches(UpTo(L, F, r), a, b) /\ ~Reaches(UpTo(L, F, r), b, a)
  <2>1. UpTo(L, F, r) \subseteq Over(L, F, m)
    BY <1>5, LinksInOrder DEF Over, UpTo
  <2>2. ~Reaches(Over(L, F, m), a, b) /\ ~Reaches(Over(L, F, m), b, a)
    BY <1>2 DEF Wins, Neither
  <2> QED BY <2>1, <2>2, ReachesFar
<1> QED BY <1>3, <1>4, <1>5

\* If x reaches y already, when the other two pairs have seen the same links and
\* are not yet decided, then they are not decided against each other.
LEMMA FollowUp ==
    ASSUME NEW L, LinksDiffer(L), NEW x \in Candidate, NEW y \in Candidate, NEW z \in Candidate,
           NEW F \in SUBSET Pairs, NEW m \in Pairs, Wins(L, F, m, <<y, z>>),
           NEW G \in SUBSET Pairs, NEW n \in Pairs, Wins(L, G, n, <<z, x>>),
           NEW l \in Pairs \ F, Before(L, l, m), Before(L, l, n),
           \A r \in Pairs : r = l \/ Before(L, r, l) => (r \in F <=> r \in G),
           Reaches(Over(L, F, l) \cup {l}, x, y)
    PROVE  FALSE
<1> DEFINE D == {r \in Pairs : Before(L, l, r) /\ (r = m \/ r = n \/ ~(r \in F <=> r \in G))}
<1>1. m \in D /\ n \in D /\ D \in SUBSET Pairs
  OBVIOUS
<1>2. PICK r \in D : \A u \in D : u = r \/ Before(L, r, u)
  <2> HIDE DEF D
  <2> QED BY <1>1, StrongestOf
<1>3. r \in Pairs /\ Before(L, l, r) /\ (r = m \/ r = n \/ ~(r \in F <=> r \in G))
  BY <1>2
<1>4. (r = m \/ Before(L, r, m)) /\ (r = n \/ Before(L, r, n))
  <2> HIDE DEF D
  <2> QED BY <1>1, <1>2
<1>5. Over(L, F, r) = Over(L, G, r)
  <2>1. ASSUME NEW u \in Pairs, Before(L, u, r) PROVE u \in F <=> u \in G
    <3>1. u \notin D
      <4> HIDE DEF D
      <4> QED BY <1>2, <1>3, <2>1, LinksInOrder
    <3>2. u = l \/ Before(L, u, l) \/ Before(L, l, u)
      BY LinksInOrder
    <3> QED BY <3>1, <3>2
  <2> QED BY <2>1 DEF Over
<1>12. PICK K : K = UpTo(L, F, r)
  OBVIOUS
<1>6. Over(L, F, l) \cup {l} \subseteq K
  BY <1>3, <1>12, LinksInOrder DEF Over, UpTo
<1>7. K = UpTo(L, G, r)
  BY <1>5, <1>12 DEF UpTo
<1> HIDE DEF D
<1>8. Reaches(K, x, y)
  BY <1>6, ReachesFar
<1>9. /\ r \in F => r # m /\ Reaches(K, y, z) /\ Reaches(K, z, y)
      /\ r \notin F /\ r = m => Reaches(K, y, z) /\ ~Reaches(K, z, y)
      /\ r \notin F /\ r # m => ~Reaches(K, y, z) /\ ~Reaches(K, z, y)
  <2>1. r \in Pairs /\ (r = m \/ Before(L, r, m))
    BY <1>3, <1>4
  <2>2. /\ r \in F =>
             r # m /\ Reaches(UpTo(L, F, r), y, z) /\ Reaches(UpTo(L, F, r), z, y)
        /\ r \notin F /\ r = m =>
             Reaches(UpTo(L, F, r), y, z) /\ ~Reaches(UpTo(L, F, r), z, y)
        /\ r \notin F /\ r # m =>
             ~Reaches(UpTo(L, F, r), y, z) /\ ~Reaches(UpTo(L, F, r), z, y)
    BY <2>1, WinsAt
  <2> QED BY <1>12, <2>2
<1>10. /\ r \in G => r # n /\ Reaches(K, z, x) /\ Reaches(K, x, z)
       /\ r \notin G /\ r = n => Reaches(K, z, x) /\ ~Reaches(K, x, z)
       /\ r \notin G /\ r # n => ~Reaches(K, z, x) /\ ~Reaches(K, x, z)
  <2>1. r \in Pairs /\ (r = n \/ Before(L, r, n))
    BY <1>3, <1>4
  <2> QED BY <1>7, <2>1, WinsAt
<1>11. \A a, b, c \in Candidate : Reaches(K, a, b) /\ Reaches(K, b, c) => Reaches(K, a, c)
  BY ReachesFar
<1> QED BY <1>3, <1>8, <1>9, <1>10, <1>11

\* Three candidates that beat each other in a circle, and the link that is the first
\* of those that decided between two of them.
LEMMA NoCycleFrom ==
    ASSUME NEW L, LinksDiffer(L), NEW x \in Candidate, NEW y \in Candidate, NEW z \in Candidate,
           NEW F \in SUBSET Pairs, NEW m \in Pairs, Wins(L, F, m, <<x, y>>),
           NEW G \in SUBSET Pairs, NEW n \in Pairs, Wins(L, G, n, <<y, z>>),
           NEW H \in SUBSET Pairs, NEW o \in Pairs, Wins(L, H, o, <<z, x>>),
           m = n \/ Before(L, m, n), m = o \/ Before(L, m, o)
    PROVE  FALSE
<1> DEFINE D == {r \in Pairs : /\ r = m \/ Before(L, r, m)
                               /\ r = m \/ ~(r \in F <=> r \in G) \/ ~(r \in G <=> r \in H)}
<1>1. m \in D /\ D \in SUBSET Pairs
  OBVIOUS
<1>2. PICK r \in D : \A u \in D : u = r \/ Before(L, r, u)
  <2> HIDE DEF D
  <2> QED BY <1>1, StrongestOf
<1>3. r \in Pairs /\ (r = m \/ Before(L, r, m))
      /\ (r = m \/ ~(r \in F <=> r \in G) \/ ~(r \in G <=> r \in H))
  OBVIOUS
<1>4. (r = n \/ Before(L, r, n)) /\ (r = o \/ Before(L, r, o))
  BY <1>3, LinksInOrder
<1>5. ASSUME NEW u \in Pairs, Before(L, u, r) PROVE (u \in F <=> u \in G) /\ (u \in G <=> u \in H)
  <2>1. u \notin D
    <3> HIDE DEF D
    <3> QED BY <1>2, <1>3, <1>5, LinksInOrder
  <2>2. Before(L, u, m)
    BY <1>3, <1>5, LinksInOrder
  <2> QED BY <2>1, <2>2
<1>18. PICK K : K = UpTo(L, F, r)
  OBVIOUS
<1>6. K = UpTo(L, G, r)
  BY <1>5, <1>18 DEF Over, UpTo
<1>17. K = UpTo(L, H, r)
  BY <1>5, <1>18 DEF Over, UpTo
<1> HIDE DEF D
<1>7. /\ r \in F => r # m /\ Reaches(K, x, y) /\ Reaches(K, y, x)
      /\ r \notin F /\ r = m => Reaches(K, x, y) /\ ~Reaches(K, y, x)
      /\ r \notin F /\ r # m => ~Reaches(K, x, y) /\ ~Reaches(K, y, x)
  <2>1. r \in Pairs /\ (r = m \/ Before(L, r, m))
    BY <1>3
  <2>2. /\ r \in F =>
             r # m /\ Reaches(UpTo(L, F, r), x, y) /\ Reaches(UpTo(L, F, r), y, x)
        /\ r \notin F /\ r = m =>
             Reaches(UpTo(L, F, r), x, y) /\ ~Reaches(UpTo(L, F, r), y, x)
        /\ r \notin F /\ r # m =>
             ~Reaches(UpTo(L, F, r), x, y) /\ ~Reaches(UpTo(L, F, r), y, x)
    BY <2>1, WinsAt
  <2> QED BY <1>18, <2>2
<1>8. /\ r \in G => r # n /\ Reaches(K, y, z) /\ Reaches(K, z, y)
      /\ r \notin G /\ r = n => Reaches(K, y, z) /\ ~Reaches(K, z, y)
      /\ r \notin G /\ r # n => ~Reaches(K, y, z) /\ ~Reaches(K, z, y)
  <2>1. r \in Pairs /\ (r = n \/ Before(L, r, n))
    BY <1>3, <1>4
  <2> QED BY <1>6, <2>1, WinsAt
<1>9. /\ r \in H => r # o /\ Reaches(K, z, x) /\ Reaches(K, x, z)
      /\ r \notin H /\ r = o => Reaches(K, z, x) /\ ~Reaches(K, x, z)
      /\ r \notin H /\ r # o => ~Reaches(K, z, x) /\ ~Reaches(K, x, z)
  <2>1. r \in Pairs /\ (r = o \/ Before(L, r, o))
    BY <1>3, <1>4
  <2> QED BY <1>17, <2>1, WinsAt
<1>10. \A a, b, c \in Candidate : Reaches(K, a, b) /\ Reaches(K, b, c) => Reaches(K, a, c)
  BY ReachesFar
<1>11. r = m \/ (r # n /\ r # o)
  BY <1>3, LinksInOrder
\* Only one of the pairs is connected: the other two go on alike.
<1>12. ASSUME r \notin G, r # n, r \notin H, r # o, Reaches(K, x, y) PROVE FALSE
  <2>1. Before(L, r, n) /\ Before(L, r, o) /\ r \in Pairs \ G
    BY <1>3, <1>4, <1>12
  <2>2. \A u \in Pairs : u = r \/ Before(L, u, r) => (u \in G <=> u \in H)
    BY <1>5, <1>12
  <2>3. Reaches(Over(L, G, r) \cup {r}, x, y)
    BY <1>6, <1>12 DEF UpTo
  <2> QED BY <2>1, <2>2, <2>3, FollowUp
<1>13. ASSUME r \notin H, r # o, r \notin F, r # m, Reaches(K, y, z) PROVE FALSE
  <2>1. Before(L, r, o) /\ Before(L, r, m) /\ r \in Pairs \ H
    BY <1>3, <1>4, <1>13
  <2>2. \A u \in Pairs : u = r \/ Before(L, u, r) => (u \in H <=> u \in F)
    BY <1>5, <1>13
  <2>3. Reaches(Over(L, H, r) \cup {r}, y, z)
    BY <1>13, <1>17 DEF UpTo
  <2> QED BY <2>1, <2>2, <2>3, FollowUp
<1>14. ASSUME r \notin F, r # m, r \notin G, r # n, Reaches(K, z, x) PROVE FALSE
  <2>1. Before(L, r, m) /\ Before(L, r, n) /\ r \in Pairs \ F
    BY <1>3, <1>4, <1>14
  <2>2. \A u \in Pairs : u = r \/ Before(L, u, r) => (u \in F <=> u \in G)
    BY <1>5, <1>14
  <2>3. Reaches(Over(L, F, r) \cup {r}, z, x)
    BY <1>14, <1>18 DEF UpTo
  <2> QED BY <2>1, <2>2, <2>3, FollowUp
<1>15. CASE r = m
  BY <1>7, <1>8, <1>9, <1>10, <1>12, <1>15
<1>16. CASE r # m
  BY <1>3, <1>7, <1>8, <1>9, <1>10, <1>11, <1>12, <1>13, <1>14, <1>16
<1> QED BY <1>15, <1>16

\* No three candidates beat each other in a circle.
LEMMA NoCycle ==
    ASSUME NEW L, LinksDiffer(L), NEW x \in Candidate, NEW y \in Candidate, NEW z \in Candidate,
           Decided(L, <<x, y>>), Decided(L, <<y, z>>), Decided(L, <<z, x>>)
    PROVE  FALSE
<1>1. PICK F \in SUBSET Pairs, m \in Pairs : Wins(L, F, m, <<x, y>>)
  BY DEF Decided
<1>2. PICK G \in SUBSET Pairs, n \in Pairs : Wins(L, G, n, <<y, z>>)
  BY DEF Decided
<1>3. PICK H \in SUBSET Pairs, o \in Pairs : Wins(L, H, o, <<z, x>>)
  BY DEF Decided
<1>4. PICK r \in {m, n, o} : \A u \in {m, n, o} : u = r \/ Before(L, r, u)
  <2>1. {m, n, o} \in SUBSET Pairs /\ {m, n, o} # {}
    OBVIOUS
  <2> QED BY <2>1, StrongestOf
<1>5. CASE r = m
  BY <1>1, <1>2, <1>3, <1>4, <1>5, NoCycleFrom
<1>6. CASE r = n
  BY <1>1, <1>2, <1>3, <1>4, <1>6, NoCycleFrom
<1>7. CASE r = o
  BY <1>1, <1>2, <1>3, <1>4, <1>7, NoCycleFrom
<1> QED BY <1>4, <1>5, <1>6, <1>7

-----------------------------------------------------------------------------
(* The links of a vote differ unless ties are broken in the "simple" way,  *)
(* and so there is an answer to every tie.                                 *)

\* The strengths of the direct links.
Links == [q \in Pairs |-> Link(q)]

\* Rows of numbers that do not overlap.
LEMMA RowsApart ==
    ASSUME NEW F \in Nat, NEW a \in 1 .. F - 1, NEW b \in 1 .. F - 1
    PROVE  /\ a * F \in Nat /\ a * F <= F * F - F /\ F <= a * F /\ F * F \in Nat
           /\ a < b => a * F + F <= b * F
<1>1. \A x, y \in Nat : x <= y => x * F <= y * F /\ x * F \in Nat
  OBVIOUS
<1>2. (F - 1) * F = F * F - F /\ 1 * F = F /\ (a + 1) * F = a * F + F
  OBVIOUS
<1>3. a * F <= (F - 1) * F /\ 1 * F <= a * F
  BY <1>1
<1>4. a < b => (a + 1) * F <= b * F
  BY <1>1
<1> QED BY <1>1, <1>2, <1>3, <1>4

\* Two numbers are told from the secondary strength of a link.
LEMMA SecondaryDiffer ==
    ASSUME policy.tie_breaking \in {"variant1", "variant2"},
           NEW i \in Candidate, NEW j \in Candidate, NEW k \in Candidate, NEW l \in Candidate,
           SecondaryLinkStrength(i, j) = SecondaryLinkStrength(k, l)
    PROVE  i = k /\ j = l
<1>1. PICK F \in Nat : F = OrdFactor
  BY DimAssumption DEF OrdFactor
<1>2. \A c \in Candidate : c \in 1 .. F - 1
  BY <1>1, DimAssumption DEF Candidate, OrdFactor
<1>3. PICK FF \in Nat : FF = F * F
  OBVIOUS
<1>4. \A a, b \in Candidate : /\ a * F \in Nat /\ a * F <= FF - F /\ F <= a * F
                              /\ a < b => a * F + F <= b * F
  BY <1>2, <1>3, RowsApart
<1>5. PICK iF \in Nat : iF = i * F
  BY <1>4
<1>6. PICK jF \in Nat : jF = j * F
  BY <1>4
<1>7. PICK kF \in Nat : kF = k * F
  BY <1>4
<1>8. PICK lF \in Nat : lF = l * F
  BY <1>4
<1>9. /\ iF <= FF - F /\ F <= iF /\ jF <= FF - F /\ F <= jF
      /\ kF <= FF - F /\ F <= kF /\ lF <= FF - F /\ F <= lF
  BY <1>4, <1>5, <1>6, <1>7, <1>8
<1>10. /\ i < k => iF + F <= kF
       /\ k < i => kF + F <= iF
       /\ j < l => jF + F <= lF
       /\ l < j => lF + F <= jF
  BY <1>4, <1>5, <1>6, <1>7, <1>8
<1>11. i \in 1 .. F - 1 /\ j \in 1 .. F - 1 /\ k \in 1 .. F - 1 /\ l \in 1 .. F - 1
  BY <1>2
<1>12. PICK x \in Nat : x = IF i < j THEN 2 * FF ELSE 0
  OBVIOUS
<1>13. PICK y \in Nat : y = IF k < l THEN 2 * FF ELSE 0
  OBVIOUS
<1>14. 2 * F * F = 2 * FF
  BY <1>3
<1>15. CASE policy.tie_breaking = "variant1"
  <2>1. x + (j - iF) = y + (l - kF)
    BY <1>1, <1>5, <1>7, <1>12, <1>13, <1>14, <1>15 DEF SecondaryLinkStrength
  <2>2. x = y
    BY <1>9, <1>11, <1>12, <1>13, <2>1
  <2>3. kF - iF = l - j
    BY <1>11, <2>1, <2>2
  <2>4. ~(i < k) /\ ~(k < i)
    BY <1>10, <1>11, <2>3
  <2>5. i = k
    BY <1>11, <2>4
  <2> QED BY <1>5, <1>7, <1>11, <2>3, <2>5
<1>16. CASE policy.tie_breaking = "variant2"
  <2>1. x + (jF - i) = y + (lF - k)
    BY <1>1, <1>6, <1>8, <1>12, <1>13, <1>14, <1>16 DEF SecondaryLinkStrength
  <2>2. x = y
    BY <1>9, <1>11, <1>12, <1>13, <2>1
  <2>3. lF - jF = k - i
    BY <1>11, <2>1, <2>2
  <2>4. ~(j < l) /\ ~(l < j)
    BY <1>10, <1>11, <2>3
  <2>5. j = l
    BY <1>11, <2>4
  <2> QED BY <1>6, <1>8, <1>11, <2>3, <2>5
<1> QED BY <1>15, <1>16

\* No two direct links are equally strong, and none is as weak as a forbidden one.
LEMMA LinksAreDifferent ==
    ASSUME TypeOK, policy.tie_breaking # "simple"
    PROVE  LinksDiffer(Links)
<1>1. \A q \in Pairs : Link(q) \in LinkStrength
  BY LinkType DEF TypeOK
<1>2. policy.tie_breaking \in {"variant1", "variant2"}
  BY PolicyAssumption DEF TypeOK, PolicyRow
<1>3. ASSUME NEW q \in Pairs, NEW r \in Pairs, Link(q) = Link(r) PROVE q = r
  <2>1. SecondaryLinkStrength(q[1], q[2]) = SecondaryLinkStrength(r[1], r[2])
    BY <1>3 DEF Link
  <2>2. q[1] = r[1] /\ q[2] = r[2]
    BY <1>2, <2>1, PairType, SecondaryDiffer
  <2> QED BY <2>2, PairType
<1>4. ASSUME NEW q \in Pairs PROVE Weaker(WorstLink, Link(q))
  <2>1. PICK x \in Nat : x = battle[q]
    BY DEF TypeOK
  <2>2. PICK y \in Nat : y = battle[Reverse(q)]
    BY PairType DEF TypeOK
  <2>3. DefeatStrength(x, y) \in Int /\ DefeatStrength(x, y) >= -1
    <3>1. CASE x > y
      BY <3>1, StrengthType
    <3>2. CASE ~(x > y)
      BY <3>2 DEF DefeatStrength
    <3> QED BY <3>1, <3>2
  <2>4. Link(q).primary >= -1
    BY <2>1, <2>2, <2>3 DEF Link
  <2>5. Link(q).primary \in Int
    BY <1>1 DEF LinkStrength
  <2> QED BY <2>4, <2>5 DEF Weaker, WorstLink
<1> QED BY <1>1, <1>3, <1>4 DEF LinksDiffer, Links

\* There is one first pair.
LEMMA FirstIsOne ==
    ASSUME NEW S \in SUBSET Pairs, S # {}
    PROVE  /\ \E q \in S : First(q, S)
           /\ \A q, r : First(q, S) /\ First(r, S) => q = r
<1>1. \A q \in S : q[1] \in Nat /\ q[2] \in Nat /\ q = <<q[1], q[2]>>
  BY DimAssumption, PairType DEF Candidate
<1> DEFINE A == {q[1] : q \in S}
<1>2. PICK x \in A : \A y \in A : x <= y
  <2>1. A \subseteq Nat /\ A # {}
    BY <1>1
  <2> HIDE DEF A
  <2> QED BY <2>1, LeastOf
<1> DEFINE B == {q[2] : q \in {r \in S : r[1] = x}}
<1>3. PICK z \in B : \A y \in B : z <= y
  <2>1. B \subseteq Nat /\ B # {}
    BY <1>1, <1>2
  <2> HIDE DEF A, B
  <2> QED BY <2>1, LeastOf
<1>4. PICK q \in S : q[1] = x /\ q[2] = z
  BY <1>3
<1>5. ASSUME NEW r \in S PROVE Visited(q, r)
  <2>1. x <= r[1] /\ (r[1] = x => z <= r[2])
    BY <1>2, <1>3
  <2>2. q[1] \in Nat /\ r[1] \in Nat
    BY <1>1
  <2> QED BY <1>4, <2>1, <2>2 DEF Visited
<1>6. ASSUME NEW r, NEW u, First(r, S), First(u, S) PROVE r = u
  <2>1. r \in S /\ u \in S /\ Visited(r, u) /\ Visited(u, r)
    BY <1>6 DEF First
  <2>2. r[1] = u[1] /\ r[2] = u[2]
    BY <1>1, <2>1 DEF Visited
  <2> QED BY <1>1, <2>1, <2>2
<1> QED BY <1>4, <1>5, <1>6 DEF First

-----------------------------------------------------------------------------
(* Ties are broken: what holds between counting and ranking.               *)

\* matrix_t has the ways through the links that are not forbidden.
WaysFound ==
    /\ step = "paths" => WaysUpTo(matrix_t, Used(Links, forbidden), pivot - 1)
    /\ step \in {"order", "forbid"} => WaysUpTo(matrix_t, Used(Links, forbidden), Dim)
    /\ Ordered => WaysUpTo(matrix_p, Used(Links, {}), Dim)

\* What has been forbidden connected the candidates of the tie in both directions.
TieInProgress ==
    /\ step \in {"close", "links", "ties", "ranks"} => forbidden = {}
    /\ step = "forbid" \/ forbidden # {} =>
         /\ Ties # {}
         /\ \A t : First(t, Ties) =>
              /\ Skips(Links, forbidden, t) /\ t \notin forbidden /\ Reverse(t) \notin forbidden
              /\ step = "forbid" => matrix_t[t] = matrix_t[Reverse(t)]

\* Who beats another does so by a link that decided between them.
OrderIsDecided ==
    /\ Ordered => \A q \in beats : Decided(Links, q) /\ Reverse(q) \notin beats
    /\ step = "ranks" => Ties = {}

\* What the program keeps, beside IInv, unless ties are broken in the "simple" way.
TieInv ==
    policy.tie_breaking # "simple" =>
        WaysFound /\ TieInProgress /\ OrderIsDecided /\ RankingComputes

\* Nothing is forbidden at first.
LEMMA InitTies == Init => TieInv
  BY DEF Init, TieInv, WaysFound, TieInProgress, OrderIsDecided, RankingComputes, Ordered

\* The shared link is found, and there is one.
LEMMA SharedLinkFound ==
    ASSUME TypeOK, TieInv, policy.tie_breaking # "simple", step = "forbid"
    PROVE  \E t \in Pairs, l \in Pairs \ forbidden :
             /\ \A u : First(u, Ties) <=> u = t
             /\ SharedLinks = {l}
             /\ Skips(Links, forbidden \cup {l}, t)
             /\ t \notin forbidden \cup {l} /\ Reverse(t) \notin forbidden \cup {l}
<1>1. LinksDiffer(Links)
  BY LinksAreDifferent
<1>2. Ties \in SUBSET Pairs /\ Ties # {}
  BY DEF Ties, TieInv, TieInProgress
<1>3. PICK t \in Ties : First(t, Ties)
  BY <1>2, FirstIsOne
<1>4. \A u : First(u, Ties) <=> u = t
  BY <1>2, <1>3, FirstIsOne
<1>5. /\ t \in Pairs /\ Reverse(t) \in Pairs
      /\ Skips(Links, forbidden, t) /\ t \notin forbidden /\ Reverse(t) \notin forbidden
      /\ matrix_t[t] = matrix_t[Reverse(t)]
  BY <1>2, <1>3, PairType DEF TieInv, TieInProgress
<1>6. /\ WaysUpTo(matrix_t, Used(Links, forbidden), Dim)
      /\ matrix_t \in [Pairs -> LinkStrength] /\ forbidden \in SUBSET Pairs
  BY DEF TypeOK, TieInv, WaysFound
<1>7. PICK l \in Pairs \ forbidden : matrix_t[t] = Links[l]
  BY <1>1, <1>5, <1>6, TieHasLink
<1>8. Skips(Links, forbidden \cup {l}, t) /\ l # t /\ l # Reverse(t)
  BY <1>1, <1>5, <1>6, <1>7, TieGoesOn
<1>9. SharedLinks = {l}
  <2>1. SharedLinks = {q \in Pairs : Links[q] = Links[l]}
    BY <1>4, <1>7, <1>5, <1>2, <1>3 DEF SharedLinks, Links
  <2> QED BY <1>1, <2>1 DEF LinksDiffer
<1> QED BY <1>4, <1>5, <1>8, <1>9

\* When every pair is decided, somebody who has no rank yet is unbeaten.
LEMMA SomeoneIsUnbeaten ==
    ASSUME IInv, TieInv, policy.tie_breaking # "simple", step = "ranks", rank_v <= Dim
    PROVE  Unbeaten # {}
<1>1. LinksDiffer(Links)
  BY LinksAreDifferent DEF IInv
<1>2. /\ \A q \in beats : Decided(Links, q) /\ Reverse(q) \notin beats
      /\ Ties = {}
  BY DEF TieInv, OrderIsDecided, Ordered
<1>3. Unranked \subseteq Candidate /\ Unranked # {} /\ IsFiniteSet(Unranked)
  <2>1. Cardinality(Unranked) # 0
    BY DimAssumption DEF IInv, RanksAssigned, TypeOK
  <2>2. Unranked \subseteq Candidate
    BY DEF Unranked
  <2> QED BY <2>1, <2>2, CandidatesFinite, FS_Subset, FS_EmptySet
<1>4. ASSUME NEW j \in Candidate, NEW i \in Candidate, i # j
      PROVE  /\ Better(j, i) <=> <<j, i>> \in beats
             /\ Better(j, i) \/ Better(i, j)
             /\ ~(Better(j, i) /\ Better(i, j))
  <2>1. <<j, i>> \in Pairs /\ <<i, j>> \in Pairs /\ Reverse(<<j, i>>) = <<i, j>>
        /\ Reverse(<<i, j>>) = <<j, i>>
    BY <1>4, PairType DEF Reverse
  <2>2. <<j, i>> \in beats \/ <<i, j>> \in beats
    <3>1. i \in Nat /\ j \in Nat
      BY DimAssumption DEF Candidate
    <3>2. CASE i < j
      BY <1>2, <2>1, <3>2 DEF Ties, Undecided
    <3>3. CASE j < i
      BY <1>2, <2>1, <3>3 DEF Ties, Undecided
    <3> QED BY <1>4, <3>1, <3>2, <3>3
  <2> QED BY <1>2, <2>1, <2>2 DEF Better, Undecided
<1>5. ASSUME NEW k \in Candidate, NEW j \in Candidate, NEW i \in Candidate,
             i # j, j # k, Better(k, j), Better(j, i)
      PROVE  k # i /\ Better(k, i)
  <2>1. k # i
    BY <1>4, <1>5
  <2>2. SUFFICES ASSUME ~Better(k, i) PROVE FALSE
    BY <2>1
  <2>3. Decided(Links, <<k, j>>) /\ Decided(Links, <<j, i>>) /\ Decided(Links, <<i, k>>)
    <3>1. <<k, j>> \in beats /\ <<j, i>> \in beats /\ <<i, k>> \in beats
      BY <1>4, <1>5, <2>1, <2>2
    <3> QED BY <1>2, <3>1
  <2> QED BY <1>1, <2>3, NoCycle
<1> DEFINE B(i) == {j \in Unranked \ {i} : Better(j, i)}
           T == {Cardinality(B(i)) : i \in Unranked}
<1>6. \A i \in Unranked : IsFiniteSet(B(i)) /\ Cardinality(B(i)) \in Nat
  <2> TAKE i \in Unranked
  <2>1. B(i) \subseteq Unranked
    OBVIOUS
  <2> QED BY <1>3, <2>1, FS_Subset, FS_CardinalityType
<1>7. PICK x \in T : \A y \in T : x <= y
  <2>1. T \subseteq Nat /\ T # {}
    BY <1>3, <1>6
  <2> HIDE DEF T
  <2> QED BY <2>1, LeastOf
<1>8. PICK i \in Unranked : x = Cardinality(B(i))
  OBVIOUS
<1>9. ASSUME NEW j \in B(i) PROVE FALSE
  <2>1. j \in Unranked /\ j # i /\ Better(j, i) /\ i \in Candidate /\ j \in Candidate
    BY <1>3
  <2>2. B(j) \subseteq B(i) \ {j}
    BY <1>3, <1>5, <2>1
  <2>3. x <= Cardinality(B(j))
    BY <1>7, <2>1
  <2> HIDE DEF B, T
  <2>4. IsFiniteSet(B(i) \ {j}) /\ Cardinality(B(i) \ {j}) = Cardinality(B(i)) - 1
    BY <1>6, <1>9, FS_RemoveElement
  <2>5. Cardinality(B(j)) <= Cardinality(B(i) \ {j})
    BY <2>2, <2>4, FS_Subset
  <2> QED BY <1>6, <1>8, <2>1, <2>3, <2>4, <2>5
<1>10. i \in Unbeaten
  BY <1>9 DEF Unbeaten
<1> QED BY <1>10

\* The links, and what is said of them, depend on the battle table and the policy.
LEMMA LinksStay ==
    ASSUME UNCHANGED <<policy, battle>>
    PROVE  Links' = Links
<1>1. \A q \in Pairs : Link(q)' = Link(q)
  BY DEF Link, DefeatStrength, SecondaryLinkStrength
<1> QED BY <1>1 DEF Links

\* A pass keeps what it does not touch.
LEMMA TiesStay ==
    ASSUME TieInv, UNCHANGED <<policy, battle, step, matrix_t, pivot, forbidden, matrix_p, beats>>
    PROVE  TieInv'
<1>1. Links' = Links
  BY LinksStay
<1>2. Ties' = Ties
  BY DEF Ties, Undecided
<1> QED BY <1>1, <1>2 DEF TieInv, WaysFound, TieInProgress, OrderIsDecided, RankingComputes, Ordered

\* Every pass keeps the ties broken, and never fails.
LEMMA StepTies == IInv /\ TieInv /\ [Next]_vars => TieInv'
<1> SUFFICES ASSUME IInv, TieInv, [Next]_vars, policy'.tie_breaking # "simple" PROVE
                    WaysFound' /\ TieInProgress' /\ OrderIsDecided' /\ RankingComputes'
  BY DEF TieInv
<1> USE DEF count, paths, ranks
<1>1. TypeOK /\ policy' = policy
  BY DEF IInv, Next, vars, CloseVoting, FindDirectLinks, FindBestPaths, CreatePartialOrder,
     NextTie, NoMoreTies, ForbidLink, ExtendPartialOrder, AssignRank, RaiseException,
     Preliminary, ExtendIndirectMajority, SelectWinner
<1>2. policy.tie_breaking # "simple" /\ LinksDiffer(Links)
      /\ WaysFound /\ TieInProgress /\ OrderIsDecided /\ RankingComputes
  BY <1>1, LinksAreDifferent DEF TieInv
<1>3. \A F \in SUBSET Pairs : Used(Links, F) \in [Pairs -> LinkStrength]
  BY <1>2, WorstLinkType DEF Used, LinksDiffer
<1>4. Used(Links, {}) = [q \in Pairs |-> Link(q)]
  BY DEF Used, Links
<1>5. \A q \in Pairs : Reverse(q) \in Pairs /\ Reverse(Reverse(q)) = q
  BY PairType
<1>6. CASE CloseVoting
  BY <1>2, <1>6 DEF CloseVoting, WaysFound, TieInProgress, OrderIsDecided, RankingComputes, Ordered
<1>7. CASE FindDirectLinks
  <2>1. Links' = Links /\ forbidden = {} /\ forbidden' = {} /\ step' = "paths" /\ pivot' = 1
        /\ matrix_t' = Used(Links, {})
    BY <1>2, <1>4, <1>7, LinksStay DEF FindDirectLinks, TieInProgress
  <2>2. WaysUpTo(Used(Links, {}), Used(Links, {}), 0)
    BY <1>3, WaysBegin
  <2>3. WaysFound'
    BY <2>1, <2>2 DEF WaysFound, Ordered
  <2> QED BY <2>1, <2>3 DEF TieInProgress, OrderIsDecided, RankingComputes, Ordered
<1>8. CASE FindBestPaths
  <2>1. /\ Links' = Links /\ forbidden' = forbidden /\ pivot' = pivot + 1
        /\ matrix_t' = Through(matrix_t, pivot) /\ matrix_p' = matrix_p /\ beats' = beats
        /\ step = "paths" /\ step' = IF pivot = Dim THEN "order" ELSE "paths"
    BY <1>8, LinksStay DEF FindBestPaths
  <2>2. pivot \in Candidate /\ pivot + 1 - 1 = pivot /\ forbidden \in SUBSET Pairs
    BY <1>1, <2>1 DEF TypeOK, Candidate
  <2>3. WaysUpTo(matrix_t', Used(Links, forbidden), pivot)
    <3>1. PICK w \in [Pairs -> LinkStrength] : w = Used(Links, forbidden)
      BY <1>3, <2>2
    <3>2. WaysUpTo(matrix_t, w, pivot - 1) /\ matrix_t \in [Pairs -> LinkStrength]
      BY <1>1, <1>2, <2>1, <3>1 DEF WaysFound, TypeOK
    <3>3. WaysUpTo(Through(matrix_t, pivot), w, pivot)
      BY <2>2, <3>2, WaysGrow
    <3> QED BY <2>1, <3>1, <3>3
  <2>4. Ordered' <=> Ordered
    BY <2>1 DEF Ordered
  <2>5. Ties' = Ties
    BY <2>1 DEF Ties, Undecided
  <2>6. WaysFound'
    <3>1. pivot' - 1 = pivot
      BY <2>1, <2>2, DimAssumption DEF Candidate
    <3>2. step' = "paths" => WaysUpTo(matrix_t, Used(Links, forbidden), pivot - 1)'
      BY <2>1, <2>3, <3>1
    <3>3. step' \in {"order", "forbid"} => WaysUpTo(matrix_t, Used(Links, forbidden), Dim)'
      BY <2>1, <2>3
    <3>4. Ordered' => WaysUpTo(matrix_p, Used(Links, {}), Dim)'
      BY <1>2, <2>1, <2>4 DEF WaysFound
    <3> QED BY <3>2, <3>3, <3>4 DEF WaysFound
  <2> QED BY <1>2, <2>1, <2>4, <2>5, <2>6 DEF TieInProgress, OrderIsDecided, RankingComputes
<1>9. CASE CreatePartialOrder
  <2>1. /\ Links' = Links /\ forbidden = {} /\ forbidden' = {} /\ matrix_p' = matrix_t
        /\ beats' = {q \in Pairs : Beaten(q)} /\ step = "order" /\ step' = "ties"
    BY <1>9, LinksStay DEF CreatePartialOrder
  <2>2. WaysUpTo(matrix_t, Used(Links, {}), Dim) /\ matrix_t \in [Pairs -> LinkStrength]
    BY <1>1, <1>2, <2>1 DEF WaysFound, TypeOK
  <2>3. ASSUME NEW q \in Pairs, Beaten(q) PROVE Decided(Links, q) /\ ~Beaten(Reverse(q))
    <3>1. Weaker(matrix_t[Reverse(q)], matrix_t[q]) /\ Skips(Links, {}, q)
      BY <2>3 DEF Beaten, Skips
    <3>2. Decided(Links, q)
      BY <1>2, <2>2, <3>1, TieIsDecided
    <3>3. ~Weaker(matrix_t[q], matrix_t[Reverse(q)])
      BY <1>5, <2>2, <3>1, WeakerOrder
    <3> QED BY <1>5, <3>2, <3>3 DEF Beaten
  <2>4. WaysFound'
    BY <2>1, <2>2 DEF WaysFound
  <2>5. OrderIsDecided'
    BY <2>1, <2>3 DEF OrderIsDecided
  <2> QED BY <2>1, <2>4, <2>5 DEF TieInProgress, RankingComputes
<1>10. CASE NextTie
  <2>1. /\ Links' = Links /\ forbidden = {} /\ forbidden' = {} /\ matrix_p' = matrix_p
        /\ beats' = beats /\ step = "ties" /\ step' = "forbid" /\ matrix_t' = matrix_p
        /\ Ties # {}
    BY <1>2, <1>10, LinksStay DEF NextTie, TieInProgress
  <2>2. Ties' = Ties
    BY <2>1 DEF Ties, Undecided
  <2>3. Ordered /\ Ordered' /\ WaysUpTo(matrix_p, Used(Links, {}), Dim)
    BY <1>2, <2>1 DEF Ordered, WaysFound
  <2>4. ASSUME NEW t \in Ties PROVE matrix_p[t] = matrix_p[Reverse(t)] /\ Skips(Links, {}, t)
    <3>1. t \in Pairs /\ Reverse(t) \in Pairs /\ t \notin beats /\ Reverse(t) \notin beats
      BY <1>5 DEF Ties, Undecided
    <3>2. ~Weaker(matrix_p[Reverse(t)], matrix_p[t]) /\ ~Weaker(matrix_p[t], matrix_p[Reverse(t)])
      BY <1>5, <2>3, <3>1 DEF IInv, PathsDecide
    <3>3. matrix_p[Reverse(t)] \in LinkStrength /\ matrix_p[t] \in LinkStrength
      BY <1>1, <3>1 DEF TypeOK
    <3> QED BY <3>2, <3>3, WeakerTotal DEF Skips
  <2>5. WaysFound'
    BY <2>1, <2>3 DEF WaysFound
  <2>6. TieInProgress'
    BY <2>1, <2>2, <2>4 DEF TieInProgress, First
  <2>7. OrderIsDecided'
    BY <1>2, <2>1, <2>3 DEF OrderIsDecided
  <2> QED BY <2>1, <2>5, <2>6, <2>7 DEF RankingComputes
<1>11. CASE NoMoreTies
  <2>1. /\ Links' = Links /\ forbidden' = forbidden /\ matrix_p' = matrix_p
        /\ beats' = beats /\ step = "ties" /\ step' = "ranks" /\ Ties = {}
    BY <1>2, <1>11, LinksStay DEF NoMoreTies
  <2>2. Ties' = Ties
    BY <2>1 DEF Ties, Undecided
  <2> QED BY <1>2, <2>1, <2>2 DEF WaysFound, TieInProgress, OrderIsDecided, RankingComputes, Ordered
<1>12. CASE ForbidLink
  <2>1. /\ Links' = Links /\ matrix_p' = matrix_p /\ beats' = beats
        /\ step = "forbid" /\ step' = "paths" /\ pivot' = 1
        /\ matrix_t' = Used(Links, forbidden')
    BY <1>12, LinksStay DEF ForbidLink, Used, Links
  <2>2. PICK t \in Pairs, l \in Pairs \ forbidden :
             /\ \A u : First(u, Ties) <=> u = t
             /\ SharedLinks = {l}
             /\ Skips(Links, forbidden \cup {l}, t)
             /\ t \notin forbidden \cup {l} /\ Reverse(t) \notin forbidden \cup {l}
    BY <1>1, <1>2, <2>1, SharedLinkFound
  <2>3. forbidden' = forbidden \cup {l} /\ forbidden' \in SUBSET Pairs
    BY <1>1, <1>12, <2>2 DEF ForbidLink, First, TypeOK
  <2>4. Ties' = Ties /\ Ties # {}
    BY <1>2, <2>1 DEF Ties, Undecided, TieInProgress
  <2>5. PICK w \in [Pairs -> LinkStrength] : w = Used(Links, forbidden')
    BY <1>3, <2>3
  <2>6. WaysUpTo(w, w, 0)
    BY WaysBegin
  <2>7. Ordered
    BY <2>1 DEF Ordered
  <2>8. WaysFound'
    BY <1>2, <2>1, <2>5, <2>6, <2>7 DEF WaysFound
  <2>9. TieInProgress'
    BY <2>1, <2>2, <2>3, <2>4 DEF TieInProgress
  <2> QED BY <1>2, <2>1, <2>7, <2>8, <2>9 DEF OrderIsDecided, RankingComputes
<1>13. CASE ExtendPartialOrder
  <2>1. /\ Links' = Links /\ matrix_p' = matrix_p /\ matrix_t' = matrix_t
        /\ step = "order" /\ forbidden # {} /\ forbidden \in SUBSET Pairs
    BY <1>1, <1>13, LinksStay DEF ExtendPartialOrder, TypeOK
  <2>2. PICK t \in Ties :
           /\ First(t, Ties)
           /\ \/ Break(t)
              \/ Break(Reverse(t))
              \/ /\ ~Beaten(t) /\ ~Beaten(Reverse(t))
                 /\ step' = "forbid"
                 /\ UNCHANGED <<beats, forbidden>>
    BY <1>13 DEF ExtendPartialOrder
  <2>3. /\ WaysUpTo(matrix_t, Used(Links, forbidden), Dim) /\ matrix_t \in [Pairs -> LinkStrength]
        /\ Ordered /\ WaysUpTo(matrix_p, Used(Links, {}), Dim)
    BY <1>1, <1>2, <2>1 DEF WaysFound, TypeOK, Ordered
  <2>4. /\ t \in Pairs /\ Reverse(t) \in Pairs /\ Reverse(Reverse(t)) = t
        /\ t \notin beats /\ Reverse(t) \notin beats
    BY <1>5 DEF Ties, Undecided
  <2>5. Skips(Links, forbidden, t) /\ Skips(Links, forbidden, Reverse(t))
    <3>1. Skips(Links, forbidden, t)
      BY <1>2, <2>1, <2>2 DEF TieInProgress
    <3> QED BY <2>4, <3>1, ReverseTie
  <2>6. ASSUME NEW q \in {t, Reverse(t)}, Break(q)
        PROVE  WaysFound' /\ TieInProgress' /\ OrderIsDecided' /\ RankingComputes'
    <3>1. /\ Weaker(matrix_t[Reverse(q)], matrix_t[q]) /\ beats' = beats \cup {q}
          /\ forbidden' = {} /\ step' = "ties"
      BY <2>6 DEF Break, Beaten
    <3>2. q \in Pairs /\ Reverse(Reverse(q)) = q /\ q \notin beats /\ Reverse(q) \notin beats
          /\ Skips(Links, forbidden, q)
      BY <2>4, <2>5
    <3>3. Decided(Links, q) /\ Reverse(q) # q
      <4>1. Decided(Links, q)
        BY <1>2, <2>1, <2>3, <3>1, <3>2, TieIsDecided
      <4> QED BY <3>2, <4>1 DEF Pairs, Reverse
    <3>4. OrderIsDecided'
      <4>1. ASSUME NEW r \in beats PROVE Decided(Links, r) /\ Reverse(r) \notin beats \cup {q}
        <5>1. r \in Pairs /\ Reverse(Reverse(r)) = r
          BY <1>1, <1>5 DEF TypeOK
        <5>2. Decided(Links, r) /\ Reverse(r) \notin beats
          BY <1>2, <2>3 DEF OrderIsDecided
        <5> QED BY <3>2, <5>1, <5>2
      <4> QED BY <2>1, <3>1, <3>2, <3>3, <4>1 DEF OrderIsDecided
    <3>5. WaysFound'
      BY <2>1, <2>3, <3>1 DEF WaysFound
    <3> QED BY <3>1, <3>4, <3>5 DEF TieInProgress, RankingComputes
  <2>7. ASSUME ~Beaten(t), ~Beaten(Reverse(t)), step' = "forbid", UNCHANGED <<beats, forbidden>>
        PROVE  WaysFound' /\ TieInProgress' /\ OrderIsDecided' /\ RankingComputes'
    <3>1. matrix_t[t] = matrix_t[Reverse(t)]
      <4>1. ~Weaker(matrix_t[Reverse(t)], matrix_t[t]) /\ ~Weaker(matrix_t[t], matrix_t[Reverse(t)])
        BY <2>4, <2>7 DEF Beaten
      <4>2. matrix_t[Reverse(t)] \in LinkStrength /\ matrix_t[t] \in LinkStrength
        BY <2>3, <2>4
      <4> QED BY <4>1, <4>2, WeakerTotal
    <3>2. Ties' = Ties /\ Ties # {} /\ \A u : First(u, Ties) => u = t
      <4>1. Ties \in SUBSET Pairs /\ Ties # {}
        BY <2>2 DEF Ties
      <4> QED BY <2>2, <2>7, <4>1, FirstIsOne DEF Ties, Undecided
    <3>3. WaysFound'
      BY <2>1, <2>3, <2>7 DEF WaysFound
    <3>4. TieInProgress'
      BY <1>2, <2>1, <2>7, <3>1, <3>2 DEF TieInProgress
    <3> QED BY <1>2, <2>1, <2>3, <2>7, <3>3, <3>4 DEF OrderIsDecided, RankingComputes
  <2> QED BY <2>2, <2>6, <2>7
<1>14. CASE AssignRank
  BY <1>2, <1>14, TiesStay DEF AssignRank, TieInv
<1>15. CASE RaiseException
  <2>1. CASE NoSharedLink
    BY <1>1, <1>2, <2>1, SharedLinkFound DEF NoSharedLink
  <2>2. CASE RankingDoesNotCompute
    BY <1>2, <2>2, SomeoneIsUnbeaten DEF RankingDoesNotCompute
  <2> QED BY <1>15, <2>1, <2>2 DEF RaiseException
<1>16. CASE Preliminary
  <2>1. Links' = Links /\ matrix_p' = matrix_p /\ beats' = beats /\ forbidden' = forbidden
        /\ step = "ranks" /\ step' = "majorities" /\ forbidden = {}
    BY <1>2, <1>16, LinksStay DEF Preliminary, TieInProgress
  <2> QED BY <1>2, <2>1 DEF WaysFound, TieInProgress, OrderIsDecided, RankingComputes, Ordered
<1>17. CASE ExtendIndirectMajority
  BY <1>1, <1>2, <1>17, TiesStay DEF ExtendIndirectMajority, TieInv
<1>18. CASE SelectWinner
  <2>1. /\ Links' = Links /\ matrix_p' = matrix_p /\ beats' = beats /\ forbidden' = forbidden
        /\ step = "majorities" /\ step' = "done"
    BY <1>18, LinksStay DEF SelectWinner
  <2>2. Ties' = Ties
    BY <2>1 DEF Ties, Undecided
  <2> QED BY <1>2, <2>1, <2>2
          DEF WaysFound, TieInProgress, OrderIsDecided, RankingComputes, Ordered
<1>19. CASE UNCHANGED vars
  BY <1>1, <1>2, <1>19, TiesStay DEF vars, TieInv
<1> QED BY <1>6, <1>7, <1>8, <1>9, <1>10, <1>11, <1>12, <1>13, <1>14, <1>15, <1>16, <1>17,
           <1>18, <1>19 DEF Next

\* Whatever the ballots, calculate_ranks finishes for the policies that break ties
\* by the order of the links, which are the default and the other variant: neither of
\* the exceptions marked "should not happen" is raised.
THEOREM VariantsCompute == Spec => [](policy.tie_breaking # "simple" => RankingComputes)
<1>1. Spec => []IInv
  BY Invariance
<1>2. TieInv => (policy.tie_breaking # "simple" => RankingComputes)
  BY DEF TieInv
<1> QED BY <1>1, <1>2, InitTies, StepTies, PTL DEF Spec

=============================================================================
