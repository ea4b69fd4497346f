---------------------- MODULE ProportionalOrder_proofs ----------------------
(***************************************************************************)
(* Proofs about ProportionalOrder: whatever members, lf_update, failing    *)
(* statements and crashes do while they run, the two programs store orders *)
(* without ties, a final order counts the ballots of the frozen issue,     *)
(* success means that nothing was left out, and the seats of a runoff are  *)
(* proportional.                                                           *)
(*                                                                         *)
(* OrderInv is inductive.  About the runoff it says that the seats given   *)
(* so far differ and are worse than those still to give; about the         *)
(* suggestions, which rows were read when, and which ballots an order rests *)
(* on; about the issues, which areas and units are still due.  FairInv,    *)
(* which builds on it, follows the scores: no group of candidates falls    *)
(* behind its share of the weight.                                         *)
(***************************************************************************)
EXTENDS ProportionalOrder, SequenceLemmas, FiniteSetTheorems, TLAPS

(* The runoff: who has a seat has one of his own, and those without get the *)
(* worst of the seats that are left.                                       *)
SeatsDiffer ==
    /\ seat \in [DOMAIN seat -> Nat] /\ IsFiniteSet(DOMAIN seat)
    /\ \A c \in DOMAIN seat : seat[c] # 0 => seat[c] > Cardinality(Unseated)
    /\ \A c, d \in DOMAIN seat : c # d /\ seat[c] # 0 => seat[c] # seat[d]

LEMMA NoSeats ==
  ASSUME NEW b, NEW candidates, IsFiniteSet(candidates), SetUp(b, candidates)
  PROVE  /\ SeatsDiffer' /\ ballots' = b /\ DOMAIN seat' = candidates
<1>1. seat' = [c \in candidates |-> 0] /\ ballots' = b
  BY DEF SetUp
<1> QED BY <1>1 DEF SeatsDiffer

LEMMA RunoffStep ==
  ASSUME SeatsDiffer, Turn \/ GiveSeat
  PROVE  /\ SeatsDiffer' /\ ballots' = ballots /\ DOMAIN seat' = DOMAIN seat
<1>1. CASE Turn
  BY <1>1 DEF Turn, SeatsDiffer, Unseated
<1>2. CASE GiveSeat
  <2>1. PICK c \in Left : seat' = [seat EXCEPT ![c] = Cardinality(Unseated)]
    BY <1>2 DEF GiveSeat
  <2>2. c \in Unseated /\ Unseated \subseteq DOMAIN seat /\ IsFiniteSet(Unseated)
    BY <2>1, FS_Subset DEF Left, Unseated, SeatsDiffer
  <2>3. /\ Cardinality(Unseated) \in Nat /\ Cardinality(Unseated) # 0
        /\ Cardinality(Unseated \ {c}) = Cardinality(Unseated) - 1
    BY <2>2, FS_CardinalityType, FS_RemoveElement, FS_EmptySet
  <2>4. Unseated' = Unseated \ {c}
    BY <2>1, <2>2, <2>3 DEF Unseated
  <2>5. \A d \in DOMAIN seat : seat'[d] = IF d = c THEN Cardinality(Unseated) ELSE seat[d]
    BY <2>1, <2>2
  <2>6. seat[c] = 0
    BY <2>2 DEF Unseated
  <2>7. DOMAIN seat' = DOMAIN seat /\ ballots' = ballots
    BY <1>2, <2>1 DEF GiveSeat
  <2>8. Cardinality(Unseated') = Cardinality(Unseated) - 1
    BY <2>3, <2>4
  <2> DEFINE n == Cardinality(Unseated)
  <2> HIDE DEF n
  <2>9. seat' \in [DOMAIN seat -> Nat]
    BY <2>1, <2>3 DEF SeatsDiffer, n
  <2>10. SeatsDiffer'
    BY <2>3, <2>5, <2>7, <2>8, <2>9 DEF SeatsDiffer, n
  <2> QED BY <2>7, <2>10
<1> QED BY <1>1, <1>2

-----------------------------------------------------------------------------
(* The order of suggestions                                                *)

Busy == spc \in {"rank", "begin", "write"}

LEMMA DataTypes ==
  ASSUME SuggestionAssumption, SuggestionTypeOK,
         Rate \/ TakeSnapshot \/ Freeze \/ CleanIssue
  PROVE  SuggestionTypeOK'
<1> USE DEF SuggestionAssumption, SuggestionTypeOK, Change, program, runoff
<1>1. CASE Rate
  <2>1. PICK m \in Member, s \in Suggestion, p \in Ratings \cup {0} :
            /\ Change /\ opinion' = [opinion EXCEPT ![m][s] = p]
            /\ IF p = 0 /\ \A o \in Member \ {m} : opinion[o][s] = 0
                 THEN deleted' = deleted \cup {s} /\ order' = [order EXCEPT ![s] = 0]
                 ELSE UNCHANGED <<deleted, order>>
            /\ UNCHANGED <<snapshot, frozen, cleaned, calculated, program>>
    BY <1>1 DEF Rate
  <2>2. opinion' \in [Member -> [Suggestion -> 0 .. 4]]
    <3>1. p \in 0 .. 4
      OBVIOUS
    <3> QED BY <2>1, <3>1
  <2>3. deleted' \subseteq Suggestion
    <3>1. deleted' = deleted \cup {s} \/ deleted' = deleted
      BY <2>1
    <3> QED BY <3>1
  <2>5. order' \in [Suggestion -> Nat]
    <3>1. order' = [order EXCEPT ![s] = 0] \/ order' = order
      BY <2>1
    <3> QED BY <3>1
  <2>4. changes' \in 0 .. MaxChanges
    BY <2>1
  <2> QED BY <2>1, <2>2, <2>3, <2>4, <2>5
<1>2. CASE TakeSnapshot
  <2>1. PICK i \in Initiative \ frozen, w \in SnapshotWeight :
            snapshot' = [snapshot EXCEPT ![i] = w]
    BY <1>2 DEF TakeSnapshot
  <2>2. snapshot' \in [Initiative -> [Member -> Nat]] /\ changes' \in 0 .. MaxChanges
    BY <1>2, <2>1 DEF TakeSnapshot
  <2> QED BY <1>2, <2>2 DEF TakeSnapshot
<1>3. CASE Freeze
  BY <1>3 DEF Freeze
<1>4. CASE CleanIssue
  <2>1. PICK i \in frozen \ cleaned :
            cleaned' = cleaned \cup {i} /\ snapshot' = [snapshot EXCEPT ![i] = [m \in Member |-> 0]]
    BY <1>4 DEF CleanIssue
  <2>2. snapshot' \in [Initiative -> [Member -> Nat]]
    BY <2>1
  <2>3. changes' \in 0 .. MaxChanges
    BY <1>4 DEF CleanIssue
  <2> QED BY <1>4, <2>1, <2>2, <2>3 DEF CleanIssue
<1> QED BY <1>1, <1>2, <1>3, <1>4

\* The rows that are to do, and the one that is done, were read in time: what is
\* to be the final order of an initiative is that of a frozen one, and what is
\* not does not touch a final one.
Timely(t) == (t.final => t.id \in frozen) /\ (~t.final => t.id \notin calculated)

RowsAreTimely ==
    /\ \A t \in todo : Timely(t) /\ (Busy => t.id # current.id)
    /\ \A t, u \in todo : t.id = u.id => t = u
    /\ Busy => Timely(current)

LEMMA ProgramTypes ==
  ASSUME SuggestionAssumption, SuggestionTypeOK, SeatsDiffer, RowsAreTimely,
         SuggestionProgram \/ BeginFails \/ WriteFails \/ SuggestionCrash
  PROVE  SuggestionTypeOK'
<1> USE DEF SuggestionAssumption, SuggestionTypeOK, Fault, data
<1>1. CASE RunSuggestionOrder
  <2>1. Nothing \in [id : Initiative, final : BOOLEAN]
    BY DEF Nothing
  <2>2. DOMAIN seat' = {} /\ DOMAIN ballots' = {}
    BY <1>1 DEF RunSuggestionOrder, SetUp
  <2> QED BY <1>1, <2>1, <2>2 DEF RunSuggestionOrder
<1>2. CASE SelectInitiatives
  <2>1. Calculation \subseteq [id : Initiative, final : BOOLEAN]
    <3>1. \A i \in Initiative :
              [id |-> i, final |-> i \in frozen] \in [id : Initiative, final : BOOLEAN]
      OBVIOUS
    <3>2. \A t \in Calculation : \E i \in Initiative : t = [id |-> i, final |-> i \in frozen]
      BY DEF Calculation
    <3>3. ASSUME NEW t \in Calculation
          PROVE  t \in [id : Initiative, final : BOOLEAN]
      <4>1. PICK i \in Initiative : t = [id |-> i, final |-> i \in frozen]
        BY <3>2
      <4> QED BY <3>1, <4>1
    <3> QED BY <3>3
  <2>2. todo' \subseteq [id : Initiative, final : BOOLEAN]
    BY <1>2, <2>1 DEF SelectInitiatives
  <2>3. sfaults' \in 0 .. MaxFaults /\ serr' \in BOOLEAN /\ spc' \in {"next", "exit"}
    <3>1. CASE todo' = Calculation /\ spc' = "next" /\ UNCHANGED <<serr, sfaults>>
      BY <3>1
    <3>2. CASE Fault /\ serr' = TRUE /\ spc' = "exit" /\ UNCHANGED todo
      BY <3>2
    <3> QED BY <1>2, <3>1, <3>2 DEF SelectInitiatives
  <2>4. UNCHANGED <<current, aborted, stored, runoff, data>>
    BY <1>2 DEF SelectInitiatives
  <2> QED BY <2>2, <2>3, <2>4 DEF runoff
<1>3. CASE ProcessInitiative
  <2>1. PICK t \in todo :
            /\ todo' = todo \ {t}
            /\ IF Candidates(t.id) = {} /\ ~t.final
                 THEN stored' = stored \cup {t.id} /\ UNCHANGED <<spc, current, runoff>>
                 ELSE /\ current' = t /\ spc' = "rank" /\ UNCHANGED stored
                      /\ SetUp(Ballots(t.id), Candidates(t.id))
    BY <1>3 DEF ProcessInitiative
  <2>2. t \in [id : Initiative, final : BOOLEAN] /\ t.id \in Initiative
    OBVIOUS
  <2>3. Candidates(t.id) \subseteq Suggestion /\ DOMAIN Ballots(t.id) \subseteq Member
    BY DEF Candidates, Ballots, Of
  <2>4. DOMAIN seat' \subseteq Suggestion /\ DOMAIN ballots' \subseteq Member
    BY <2>1, <2>3 DEF SetUp, runoff
  <2>5. /\ todo' \subseteq [id : Initiative, final : BOOLEAN] /\ stored' \subseteq Initiative
        /\ current' \in [id : Initiative, final : BOOLEAN]
        /\ spc' \in {"start", "next", "rank", "begin", "write", "exit"}
    BY <2>1, <2>2
  <2> QED BY <1>3, <2>4, <2>5 DEF ProcessInitiative
<1>4. CASE SelectFails
  BY <1>4 DEF SelectFails, runoff
<1>5. CASE RankSuggestions
  <2>1. DOMAIN seat' = DOMAIN seat /\ ballots' = ballots
    BY <1>5, RunoffStep DEF RankSuggestions, runoff
  <2> QED BY <1>5, <2>1 DEF RankSuggestions
<1>6. CASE BeginWrite
  BY <1>6 DEF BeginWrite, runoff
<1>7. CASE CommitRanks
  <2>1. order' \in [Suggestion -> Nat]
    BY <1>7 DEF CommitRanks, Ranks, SeatsDiffer
  <2>2. calculated' \subseteq frozen /\ stored' \subseteq Initiative
    BY <1>7 DEF CommitRanks, Marked, RowsAreTimely, Busy, Timely
  <2> QED BY <1>7, <2>1, <2>2 DEF CommitRanks, runoff
<1>8. CASE ExitSuggestionOrder
  BY <1>8 DEF ExitSuggestionOrder, runoff
<1>9. CASE BeginFails
  BY <1>9 DEF BeginFails, runoff
<1>10. CASE WriteFails
  BY <1>10 DEF WriteFails, runoff
<1>11. CASE SuggestionCrash
  <2>1. todo' \subseteq [id : Initiative, final : BOOLEAN]
    BY <1>11 DEF SuggestionCrash
  <2>2. sfaults' \in 0 .. MaxFaults
    BY <1>11 DEF SuggestionCrash
  <2> QED BY <1>11, <2>1, <2>2 DEF SuggestionCrash, runoff
<1> QED BY <1>1, <1>2, <1>3, <1>4, <1>5, <1>6, <1>7, <1>8, <1>9, <1>10, <1>11
      DEF SuggestionProgram

LEMMA RowsStayTimely ==
  ASSUME SuggestionTypeOK, RowsAreTimely, SuggestionNext
  PROVE  RowsAreTimely'
<1> USE DEF RowsAreTimely, Timely, Busy
<1>1. CASE RunSuggestionOrder
  <2>1. todo' = todo /\ ~Busy' /\ frozen' = frozen /\ calculated' = calculated
    BY <1>1 DEF RunSuggestionOrder, data
  <2> QED BY <2>1
<1>2. CASE SelectInitiatives
  <2>1. CASE todo' = Calculation
    <3>1. frozen' = frozen /\ calculated' = calculated /\ ~Busy'
      BY <1>2 DEF SelectInitiatives, data
    <3>2. \A t \in Calculation : \E i \in Initiative :
              t = [id |-> i, final |-> i \in frozen] /\ (i \notin frozen \/ i \notin calculated)
      BY DEF Calculation
    <3>3. \A t \in Calculation : t.final = (t.id \in frozen) /\ t = [id |-> t.id, final |-> t.id \in frozen]
      BY <3>2
    <3>4. \A t \in Calculation : Timely(t)
      BY <3>3 DEF SuggestionTypeOK
    <3>5. \A t, u \in Calculation : t.id = u.id => t = u
      BY <3>3
    <3> QED BY <2>1, <3>1, <3>4, <3>5
  <2>2. CASE spc' = "exit" /\ UNCHANGED todo
    BY <1>2, <2>2 DEF SelectInitiatives, data
  <2> QED BY <1>2, <2>1, <2>2 DEF SelectInitiatives
<1>3. CASE ProcessInitiative
  <2>1. PICK t \in todo :
            /\ todo' = todo \ {t}
            /\ \/ spc' = spc
               \/ current' = t /\ spc' = "rank"
    BY <1>3 DEF ProcessInitiative
  <2>2. frozen' = frozen /\ calculated' = calculated /\ spc = "next"
    BY <1>3 DEF ProcessInitiative, data
  <2> QED BY <2>1, <2>2
<1>4. CASE SelectFails
  BY <1>4 DEF SelectFails, data
<1>5. CASE RankSuggestions
  BY <1>5 DEF RankSuggestions, data
<1>6. CASE BeginWrite
  BY <1>6 DEF BeginWrite, data
<1>7. CASE CommitRanks
  BY <1>7 DEF CommitRanks, Marked
<1>8. CASE ExitSuggestionOrder
  BY <1>8 DEF ExitSuggestionOrder, data
<1>9. CASE BeginFails
  BY <1>9 DEF BeginFails, data
<1>10. CASE WriteFails
  BY <1>10 DEF WriteFails, data
<1>11. CASE SuggestionCrash
  BY <1>11 DEF SuggestionCrash, data
<1>12. CASE Rate
  BY <1>12 DEF Rate, program
<1>13. CASE TakeSnapshot
  BY <1>13 DEF TakeSnapshot, program
<1>14. CASE Freeze
  BY <1>14 DEF Freeze, program
<1>15. CASE CleanIssue
  BY <1>15 DEF CleanIssue, program
<1> QED BY <1>1, <1>2, <1>3, <1>4, <1>5, <1>6, <1>7, <1>8, <1>9, <1>10, <1>11,
           <1>12, <1>13, <1>14, <1>15 DEF SuggestionNext, SuggestionProgram

-----------------------------------------------------------------------------
\* What is ranked are suggestions of the initiative that is being done.
SeatsBelong == Busy => DOMAIN seat \subseteq Of(current.id)

LEMMA SeatsStayInOrder ==
  ASSUME SuggestionAssumption, SuggestionTypeOK, SeatsDiffer, SeatsBelong, SuggestionNext
  PROVE  SeatsDiffer' /\ SeatsBelong'
<1>1. CASE RunSuggestionOrder
  <2>1. SetUp(<<>>, {}) /\ ~Busy'
    BY <1>1 DEF RunSuggestionOrder, Busy
  <2>2. IsFiniteSet({})
    BY FS_EmptySet
  <2> QED BY <2>1, <2>2, NoSeats DEF SeatsBelong
<1>2. CASE ProcessInitiative
  <2>1. PICK t \in todo :
            IF Candidates(t.id) = {} /\ ~t.final
              THEN UNCHANGED <<spc, current, runoff>>
              ELSE current' = t /\ SetUp(Ballots(t.id), Candidates(t.id))
    BY <1>2 DEF ProcessInitiative
  <2>2. CASE UNCHANGED <<spc, current, runoff>>
    BY <2>2 DEF SeatsDiffer, SeatsBelong, Busy, Unseated, runoff, Of
  <2>3. CASE current' = t /\ SetUp(Ballots(t.id), Candidates(t.id))
    <3>1. Candidates(t.id) \subseteq Of(t.id) /\ Of(t.id) \subseteq Suggestion
      BY DEF Candidates, Of
    <3>2. IsFiniteSet(Candidates(t.id))
      BY <3>1, FS_Subset DEF SuggestionAssumption
    <3>3. SeatsDiffer' /\ DOMAIN seat' = Candidates(t.id)
      BY <2>3, <3>2, NoSeats
    <3> QED BY <2>3, <3>1, <3>3 DEF SeatsBelong, Of
  <2> QED BY <2>1, <2>2, <2>3
<1>3. CASE RankSuggestions
  <2>1. DOMAIN seat' = DOMAIN seat /\ SeatsDiffer' /\ current' = current /\ Busy
    BY <1>3, RunoffStep DEF RankSuggestions, runoff, SeatsDiffer, Unseated, Busy
  <2> QED BY <2>1 DEF SeatsBelong, Of
<1>4. ASSUME UNCHANGED <<current, runoff>>, Busy' => Busy
      PROVE  SeatsDiffer' /\ SeatsBelong'
  BY <1>4 DEF SeatsDiffer, SeatsBelong, Unseated, runoff, Of
<1>5. CASE SelectInitiatives \/ SelectFails \/ BeginWrite \/ CommitRanks
  BY <1>4, <1>5 DEF SelectInitiatives, SelectFails, BeginWrite, CommitRanks, Busy
<1>6. CASE ExitSuggestionOrder \/ BeginFails \/ WriteFails \/ SuggestionCrash
  BY <1>4, <1>6 DEF ExitSuggestionOrder, BeginFails, WriteFails, SuggestionCrash, Busy
<1>7. CASE Rate \/ TakeSnapshot \/ Freeze \/ CleanIssue
  BY <1>4, <1>7 DEF Rate, TakeSnapshot, Freeze, CleanIssue, program, Busy
<1> QED BY <1>1, <1>2, <1>3, <1>5, <1>6, <1>7 DEF SuggestionNext, SuggestionProgram

-----------------------------------------------------------------------------
\* An initiative is done, or yet to do, or being done, unless the run knows of an
\* error or the initiative has been frozen since it began.
NoneForgotten ==
    /\ ~serr /\ (Busy \/ spc = "next") =>
           \A i \in Initiative \ frozen :
               i \in stored \/ (\E t \in todo : t.id = i) \/ (Busy /\ current.id = i)
    /\ SuggestionSuccess

LEMMA NoneIsForgotten ==
  ASSUME SuggestionTypeOK, NoneForgotten, SuggestionNext
  PROVE  NoneForgotten'
<1> USE DEF NoneForgotten, SuggestionSuccess, Busy
<1>1. CASE RunSuggestionOrder
  BY <1>1 DEF RunSuggestionOrder
<1>2. CASE SelectInitiatives
  <2>1. CASE todo' = Calculation
    <3>1. \A i \in Initiative \ frozen : [id |-> i, final |-> i \in frozen] \in Calculation
      BY DEF Calculation
    <3>2. \A i \in Initiative \ frozen : \E t \in Calculation : t.id = i
      <4>1. TAKE i \in Initiative \ frozen
      <4>2. [id |-> i, final |-> i \in frozen].id = i
        OBVIOUS
      <4> QED BY <3>1, <4>2
    <3>3. spc' = "next" \/ serr' = TRUE
      BY <1>2 DEF SelectInitiatives
    <3>4. frozen' = frozen
      BY <1>2 DEF SelectInitiatives, data
    <3>5. CASE spc' = "next"
      <4>1. \A i \in Initiative \ frozen' : \E t \in todo' : t.id = i
        BY <2>1, <3>2, <3>4
      <4> QED BY <3>5, <4>1
    <3>6. CASE serr' = TRUE
      BY <3>6
    <3> QED BY <3>3, <3>5, <3>6
  <2>2. CASE serr' = TRUE
    BY <2>2
  <2> QED BY <1>2, <2>1, <2>2 DEF SelectInitiatives
<1>3. CASE ProcessInitiative
  <2>1. PICK t \in todo :
            /\ todo' = todo \ {t}
            /\ \/ stored' = stored \cup {t.id} /\ spc' = spc
               \/ current' = t /\ spc' = "rank" /\ stored' = stored
    BY <1>3 DEF ProcessInitiative
  <2>2. frozen' = frozen /\ spc = "next" /\ serr' = serr
    BY <1>3 DEF ProcessInitiative, data
  <2>3. spc' # "exit"
    BY <2>1, <2>2
  <2>4. ASSUME ~serr, NEW i \in Initiative \ frozen
        PROVE  i \in stored \/ \E u \in todo : u.id = i
    BY <2>2, <2>4
  <2>5. ASSUME ~serr, NEW i \in Initiative \ frozen
        PROVE  i \in stored' \/ (\E u \in todo' : u.id = i)
                 \/ (spc' = "rank" /\ current'.id = i)
    BY <2>1, <2>4, <2>5
  <2> QED BY <2>2, <2>3, <2>5
<1>4. CASE SelectFails
  BY <1>4 DEF SelectFails
<1>5. CASE RankSuggestions
  BY <1>5 DEF RankSuggestions, data
<1>6. CASE BeginWrite
  BY <1>6 DEF BeginWrite, data
<1>7. CASE CommitRanks
  BY <1>7 DEF CommitRanks
<1>8. CASE ExitSuggestionOrder
  BY <1>8 DEF ExitSuggestionOrder, data
<1>9. CASE BeginFails
  BY <1>9 DEF BeginFails
<1>10. CASE WriteFails
  BY <1>10 DEF WriteFails
<1>11. CASE SuggestionCrash
  BY <1>11 DEF SuggestionCrash
<1>12. CASE Rate
  BY <1>12 DEF Rate, program
<1>13. CASE TakeSnapshot
  BY <1>13 DEF TakeSnapshot, program
<1>14. CASE Freeze
  BY <1>14 DEF Freeze, program
<1>15. CASE CleanIssue
  BY <1>15 DEF CleanIssue, program
<1> QED BY <1>1, <1>2, <1>3, <1>4, <1>5, <1>6, <1>7, <1>8, <1>9, <1>10, <1>11,
           <1>12, <1>13, <1>14, <1>15 DEF SuggestionNext, SuggestionProgram

-----------------------------------------------------------------------------
LEMMA RanksStayDifferent ==
  ASSUME SuggestionTypeOK, SeatsDiffer, SeatsBelong, SuggestionRanksDiffer, SuggestionNext
  PROVE  SuggestionRanksDiffer'
<1>1. CASE CommitRanks
  <2>1. Busy /\ order' = Ranks(current.id)
    BY <1>1 DEF CommitRanks, Busy
  <2>2. \A s \in DOMAIN seat : s \in Suggestion /\ InitiativeOf[s] = current.id
    BY <2>1 DEF SeatsBelong, Of
  <2>3. SUFFICES ASSUME NEW r \in Suggestion, NEW s \in Suggestion, r # s,
                        InitiativeOf[r] = InitiativeOf[s], order'[r] # 0
                 PROVE  order'[r] # order'[s]
    BY DEF SuggestionRanksDiffer
  <2>4. /\ order'[r] = IF r \in DOMAIN seat /\ Exists(r) THEN seat[r]
                       ELSE IF InitiativeOf[r] = current.id THEN 0 ELSE order[r]
        /\ order'[s] = IF s \in DOMAIN seat /\ Exists(s) THEN seat[s]
                       ELSE IF InitiativeOf[s] = current.id THEN 0 ELSE order[s]
    BY <2>1 DEF Ranks
  <2>5. CASE InitiativeOf[r] = current.id
    <3>1. r \in DOMAIN seat /\ order'[r] = seat[r]
      BY <2>3, <2>4, <2>5
    <3>2. order'[s] = 0 \/ (s \in DOMAIN seat /\ order'[s] = seat[s])
      BY <2>3, <2>4, <2>5
    <3> QED BY <2>3, <3>1, <3>2 DEF SeatsDiffer
  <2>6. CASE InitiativeOf[r] # current.id
    BY <2>2, <2>3, <2>4, <2>6 DEF SuggestionRanksDiffer
  <2> QED BY <2>5, <2>6
<1>2. CASE Rate
  <2>1. PICK s \in Suggestion : order' = order \/ order' = [order EXCEPT ![s] = 0]
    BY <1>2 DEF Rate
  <2> QED BY <2>1 DEF SuggestionRanksDiffer, SuggestionTypeOK
<1>3. ASSUME UNCHANGED order PROVE SuggestionRanksDiffer'
  BY <1>3 DEF SuggestionRanksDiffer
<1>4. CASE RunSuggestionOrder \/ SelectInitiatives \/ ProcessInitiative \/ SelectFails
  BY <1>3, <1>4 DEF RunSuggestionOrder, SelectInitiatives, ProcessInitiative, SelectFails, data
<1>5. CASE RankSuggestions \/ BeginWrite \/ ExitSuggestionOrder \/ BeginFails
  BY <1>3, <1>5 DEF RankSuggestions, BeginWrite, ExitSuggestionOrder, BeginFails, data
<1>6. CASE WriteFails \/ SuggestionCrash \/ TakeSnapshot \/ Freeze \/ CleanIssue
  BY <1>3, <1>6 DEF WriteFails, SuggestionCrash, TakeSnapshot, Freeze, CleanIssue, data
<1> QED BY <1>1, <1>2, <1>4, <1>5, <1>6 DEF SuggestionNext, SuggestionProgram

-----------------------------------------------------------------------------
(* The ballots of a frozen initiative stay what they are until its issue is *)
(* cleaned, and so do those read for its final order.                      *)

LEMMA SameBallots ==
  ASSUME NEW i, snapshot'[i] = snapshot[i],
         \A m \in Member : \A s \in Of(i) : opinion'[m][s] = opinion[m][s]
  PROVE  Ballots(i)' = Ballots(i)
<1> DEFINE D == {m \in Member : snapshot[i][m] > 0 /\ \E s \in Of(i) : opinion[m][s] # 0}
           E == {m \in Member : snapshot'[i][m] > 0 /\ \E s \in Of(i) : opinion'[m][s] # 0}
           B(m) == [weight |-> snapshot[i][m],
                    sections |-> [j \in 1 .. 4 |-> {s \in Of(i) : opinion[m][s] = j}]]
           C(m) == [weight |-> snapshot'[i][m],
                    sections |-> [j \in 1 .. 4 |-> {s \in Of(i) : opinion'[m][s] = j}]]
<1>1. E = D
  OBVIOUS
<1>2. ASSUME NEW m \in D PROVE C(m) = B(m)
  <2>1. \A j \in 1 .. 4 : {s \in Of(i) : opinion'[m][s] = j} = {s \in Of(i) : opinion[m][s] = j}
    BY <1>2
  <2>2. [j \in 1 .. 4 |-> {s \in Of(i) : opinion'[m][s] = j}]
            = [j \in 1 .. 4 |-> {s \in Of(i) : opinion[m][s] = j}]
    BY <2>1
  <2> QED BY <2>2
<1>3. Ballots(i) = [m \in D |-> B(m)] /\ Ballots(i)' = [m \in E |-> C(m)]
  BY DEF Ballots, Of
<1> HIDE DEF D, E, B, C
<1> QED BY <1>1, <1>2, <1>3

\* The final order counts the ballots there are, and the one being made will.
BallotsCount ==
    /\ FinalOrderCountsEverybody
    /\ Busy /\ current.final /\ current.id \notin cleaned => ballots = Ballots(current.id)
    /\ DOMAIN counted = Initiative

LEMMA FrozenBallots ==
  ASSUME SuggestionTypeOK, SuggestionNext, NEW i \in frozen, i \notin cleaned'
  PROVE  Ballots(i)' = Ballots(i)
<1>1. CASE Rate
  <2>1. PICK m \in Member, s \in Suggestion, p \in Ratings \cup {0} :
            InitiativeOf[s] \notin frozen /\ opinion' = [opinion EXCEPT ![m][s] = p]
    BY <1>1 DEF Rate
  <2>2. snapshot' = snapshot
    BY <1>1 DEF Rate
  <2>3. ASSUME NEW n \in Member, NEW r \in Of(i)
        PROVE  opinion'[n][r] = opinion[n][r]
    <3>1. r \in Suggestion /\ r # s
      BY <2>1 DEF Of
    <3> QED BY <2>1, <3>1 DEF SuggestionTypeOK
  <2> QED BY <2>2, <2>3, SameBallots
<1>2. CASE TakeSnapshot
  <2>1. opinion' = opinion /\ snapshot'[i] = snapshot[i]
    BY <1>2 DEF TakeSnapshot, SuggestionTypeOK
  <2> QED BY <2>1, SameBallots
<1>3. CASE CleanIssue
  <2>1. opinion' = opinion /\ snapshot'[i] = snapshot[i]
    BY <1>3 DEF CleanIssue, SuggestionTypeOK
  <2> QED BY <2>1, SameBallots
<1>4. ASSUME UNCHANGED <<opinion, snapshot>> PROVE Ballots(i)' = Ballots(i)
  BY <1>4, SameBallots
<1>5. CASE RunSuggestionOrder \/ SelectInitiatives \/ ProcessInitiative \/ SelectFails
  BY <1>4, <1>5 DEF RunSuggestionOrder, SelectInitiatives, ProcessInitiative, SelectFails, data
<1>6. CASE RankSuggestions \/ BeginWrite \/ ExitSuggestionOrder \/ BeginFails
  BY <1>4, <1>6 DEF RankSuggestions, BeginWrite, ExitSuggestionOrder, BeginFails, data
<1>7. CASE WriteFails \/ SuggestionCrash \/ CommitRanks \/ Freeze
  BY <1>4, <1>7 DEF WriteFails, SuggestionCrash, CommitRanks, Freeze, data
<1> QED BY <1>1, <1>2, <1>3, <1>5, <1>6, <1>7 DEF SuggestionNext, SuggestionProgram

LEMMA BallotsStillCount ==
  ASSUME SuggestionTypeOK, RowsAreTimely, BallotsCount, SuggestionNext
  PROVE  BallotsCount'
<1>1. CASE CommitRanks
  <2>1. /\ Busy /\ ~Busy' /\ UNCHANGED cleaned /\ current.id \in Initiative
        /\ calculated' = IF current.final THEN calculated \cup {current.id} ELSE calculated
        /\ counted' = [counted EXCEPT ![current.id] = ballots]
    BY <1>1 DEF CommitRanks, Marked, Busy, SuggestionTypeOK
  <2>2. ASSUME NEW i \in calculated', i \notin cleaned'
        PROVE  counted'[i] = Ballots(i)'
    <3>1. i \in frozen
      BY <2>1 DEF RowsAreTimely, Timely, SuggestionTypeOK
    <3>2. Ballots(i)' = Ballots(i)
      BY <2>2, <3>1, FrozenBallots
    <3>3. CASE i = current.id
      <4>1. current.final
        BY <2>1, <2>2, <3>3 DEF RowsAreTimely, Timely
      <4>2. ballots = Ballots(i)
        BY <2>1, <2>2, <3>3, <4>1 DEF BallotsCount
      <4>3. counted'[i] = ballots
        BY <2>1, <3>3 DEF BallotsCount
      <4> QED BY <3>2, <4>2, <4>3
    <3>4. CASE i # current.id
      <4>1. i \in calculated /\ counted'[i] = counted[i]
        BY <2>1, <2>2, <3>4 DEF BallotsCount
      <4>2. counted[i] = Ballots(i)
        BY <2>1, <2>2, <4>1 DEF BallotsCount, FinalOrderCountsEverybody
      <4> QED BY <3>2, <4>1, <4>2
    <3> QED BY <3>3, <3>4
  <2>3. DOMAIN counted' = Initiative
    BY <2>1 DEF BallotsCount
  <2> QED BY <2>1, <2>2, <2>3 DEF BallotsCount, FinalOrderCountsEverybody
<1>2. ASSUME UNCHANGED <<calculated, counted>>, cleaned \subseteq cleaned'
      PROVE  FinalOrderCountsEverybody' /\ DOMAIN counted' = Initiative
  <2>1. ASSUME NEW i \in calculated', i \notin cleaned'
        PROVE  counted'[i] = Ballots(i)'
    <3>1. Ballots(i)' = Ballots(i)
      BY <1>2, <2>1, FrozenBallots DEF SuggestionTypeOK
    <3>2. counted[i] = Ballots(i)
      BY <1>2, <2>1 DEF BallotsCount, FinalOrderCountsEverybody
    <3> QED BY <1>2, <3>1, <3>2
  <2> QED BY <1>2, <2>1 DEF BallotsCount, FinalOrderCountsEverybody
<1>3. CASE ProcessInitiative
  <2>1. PICK t \in todo :
            IF Candidates(t.id) = {} /\ ~t.final
              THEN UNCHANGED <<spc, current, runoff>>
              ELSE current' = t /\ SetUp(Ballots(t.id), Candidates(t.id))
    BY <1>3 DEF ProcessInitiative
  <2>2. UNCHANGED <<calculated, counted, cleaned, opinion, snapshot>> /\ ~Busy
    BY <1>3 DEF ProcessInitiative, Busy, data
  <2>3. ASSUME Busy' PROVE ballots' = Ballots(current.id)'
    <3>1. current' = t /\ ballots' = Ballots(t.id)
      BY <2>1, <2>2, <2>3 DEF Busy, SetUp
    <3>2. Ballots(current.id)' = Ballots(t.id)
      BY <2>2, <3>1 DEF Ballots, Of
    <3> QED BY <3>1, <3>2
  <2>4. FinalOrderCountsEverybody' /\ DOMAIN counted' = Initiative
    BY <1>2, <2>2
  <2> QED BY <2>3, <2>4 DEF BallotsCount
<1>4. ASSUME UNCHANGED <<calculated, counted, current, ballots>>,
             cleaned \subseteq cleaned', Busy' => Busy
      PROVE  BallotsCount'
  <2>1. ASSUME Busy', current.final, current.id \notin cleaned'
        PROVE  ballots = Ballots(current.id)'
    <3>1. current.id \in frozen /\ ballots = Ballots(current.id)
      BY <1>4, <2>1 DEF BallotsCount, RowsAreTimely, Timely
    <3> DEFINE i == current.id
    <3>2. i \in frozen /\ i \notin cleaned'
      BY <1>4, <2>1, <3>1
    <3>3. ASSUME NEW j \in frozen, j \notin cleaned' PROVE Ballots(j)' = Ballots(j)
      BY <3>3, FrozenBallots
    <3>4. \A j : j = i => Ballots(j)' = Ballots(current.id)'
      BY <1>4 DEF Ballots, Of
    <3> QED BY <3>1, <3>2, <3>3, <3>4
  <2>2. FinalOrderCountsEverybody' /\ DOMAIN counted' = Initiative
    BY <1>2, <1>4
  <2>3. (Busy /\ current.final /\ current.id \notin cleaned => ballots = Ballots(current.id))'
    BY <1>4, <2>1
  <2> QED BY <2>2, <2>3 DEF BallotsCount
<1>5. CASE RunSuggestionOrder
  <2>1. ~Busy' /\ UNCHANGED <<calculated, counted, cleaned>>
    BY <1>5 DEF RunSuggestionOrder, Busy, data
  <2> QED BY <1>2, <2>1 DEF BallotsCount
<1>6. CASE SelectInitiatives \/ SelectFails \/ BeginWrite
  BY <1>4, <1>6 DEF SelectInitiatives, SelectFails, BeginWrite, Busy, data, runoff
<1>7. CASE ExitSuggestionOrder \/ BeginFails \/ WriteFails \/ SuggestionCrash
  BY <1>4, <1>7 DEF ExitSuggestionOrder, BeginFails, WriteFails, SuggestionCrash, Busy, data, runoff
<1>8. CASE Rate \/ TakeSnapshot \/ Freeze \/ CleanIssue
  BY <1>4, <1>8 DEF Rate, TakeSnapshot, Freeze, CleanIssue, program, Busy, runoff
<1>9. CASE RankSuggestions
  <2>1. ballots' = ballots
    BY <1>9 DEF RankSuggestions, Turn, GiveSeat, runoff
  <2>2. UNCHANGED <<calculated, counted, current, cleaned>> /\ Busy
    BY <1>9 DEF RankSuggestions, Busy, data
  <2> QED BY <1>4, <2>1, <2>2
<1> QED BY <1>1, <1>3, <1>5, <1>6, <1>7, <1>8, <1>9 DEF SuggestionNext, SuggestionProgram

-----------------------------------------------------------------------------
(* The order of issues                                                     *)

ScopesOf(mode, ids) == {[mode |-> mode, id |-> x] : x \in ids}

LEMMA Scopes ==
  /\ Scope = ScopesOf("area", Area) \cup ScopesOf("unit", Unit)
  /\ \A s \in Scope : s.mode \in Column
BY DEF Scope, ScopesOf, Column

LEMMA VotersSupport ==
  ASSUME IssueTypeOK, NEW s, NEW b \in BallotSets(s)
  PROVE  /\ DOMAIN b \subseteq Supporter
         /\ Supported(s) \subseteq IssuesOf(s) /\ Supported(s) \subseteq Issue
<1>1. Supported(s) \subseteq IssuesOf(s) /\ Supported(s) \subseteq Issue
  BY DEF Supported, IssuesOf
<1>2. Voters(s) \subseteq Supporter
  BY <1>1 DEF Voters, IssueTypeOK
<1>3. DOMAIN b = Voters(s)
  BY DEF BallotSets
<1> QED BY <1>1, <1>2, <1>3

LEMMA SetUpInScope ==
  ASSUME IssueAssumption, IssueTypeOK, NEW s \in Scope, ProcessAreaOrUnit(s)
  PROVE  /\ SeatsDiffer' /\ scope' = s /\ ipc' = "rank"
         /\ DOMAIN seat' \subseteq IssuesOf(s) /\ DOMAIN ballots' \subseteq Supporter
<1>1. PICK b \in BallotSets(s) : SetUp(b, Supported(s))
  BY DEF ProcessAreaOrUnit
<1>2. /\ DOMAIN b \subseteq Supporter
      /\ Supported(s) \subseteq IssuesOf(s) /\ Supported(s) \subseteq Issue
  BY VotersSupport
<1>3. IsFiniteSet(Supported(s))
  BY <1>2, FS_Subset DEF IssueAssumption
<1>4. SeatsDiffer' /\ ballots' = b /\ DOMAIN seat' = Supported(s)
  BY <1>1, <1>3, NoSeats
<1> QED BY <1>2, <1>4 DEF ProcessAreaOrUnit

LEMMA EntryTypes ==
  ASSUME IssueTypeOK, SeatsDiffer, WriteRanks
  PROVE  DOMAIN entry' = DOMAIN entry /\ \A i \in DOMAIN entry' : entry'[i] \in [Column -> Nat]
<1>1. scope.mode \in Column
  BY Scopes DEF IssueTypeOK
<1>2. entry' = [i \in DOMAIN entry |->
                  IF i \in DOMAIN seat THEN [entry[i] EXCEPT ![scope.mode] = seat[i]]
                  ELSE entry[i]]
  BY DEF WriteRanks
<1>3. ASSUME NEW i \in DOMAIN entry PROVE entry'[i] \in [Column -> Nat]
  <2>1. entry[i] \in [Column -> Nat]
    BY DEF IssueTypeOK
  <2>2. CASE i \in DOMAIN seat
    <3>1. seat[i] \in Nat
      BY <2>2 DEF SeatsDiffer
    <3>2. entry'[i] = [entry[i] EXCEPT ![scope.mode] = seat[i]]
      BY <1>2, <2>2
    <3> QED BY <1>1, <2>1, <3>1, <3>2
  <2>3. CASE i \notin DOMAIN seat
    BY <1>2, <2>1, <2>3
  <2> QED BY <2>2, <2>3
<1> QED BY <1>2, <1>3

LEMMA InsertTypes ==
  ASSUME IssueTypeOK, InsertEntries
  PROVE  DOMAIN entry' \subseteq known /\ \A i \in DOMAIN entry' : entry'[i] \in [Column -> Nat]
<1>1. CASE entry' = entry
  BY <1>1 DEF IssueTypeOK
<1>2. CASE entry' = [i \in DOMAIN entry \cup DOMAIN MissingEntries |->
                      IF i \in DOMAIN entry THEN entry[i] ELSE MissingEntries[i]]
  <2>1. DOMAIN MissingEntries = admission \ DOMAIN entry
    BY DEF MissingEntries
  <2>2. \A i \in DOMAIN MissingEntries : MissingEntries[i] \in [Column -> Nat]
    BY <2>1 DEF MissingEntries
  <2>3. \A i \in DOMAIN entry' : entry'[i] \in [Column -> Nat]
    BY <1>2, <2>2 DEF IssueTypeOK
  <2> QED BY <1>2, <2>1, <2>3 DEF IssueTypeOK
<1> QED BY <1>1, <1>2 DEF InsertEntries

LEMMA EventTypes ==
  ASSUME IssueAssumption, IssueTypeOK, NewIssue \/ LeaveAdmission \/ ChangeSupport
  PROVE  IssueTypeOK'
<1> USE DEF IssueAssumption, IssueTypeOK, Event, iprogram, runoff
<1>1. CASE NewIssue
  <2>1. PICK i \in Issue \ known : known' = known \cup {i} /\ admission' = admission \cup {i}
    BY <1>1 DEF NewIssue
  <2>2. admission' \subseteq known' /\ known' \subseteq Issue /\ known \subseteq known'
    BY <2>1
  <2> QED BY <1>1, <2>2 DEF NewIssue, IssuesOf
<1>2. CASE LeaveAdmission
  BY <1>2 DEF LeaveAdmission, IssuesOf
<1>3. CASE ChangeSupport
  <2>1. PICK i \in admission, m \in Supporter :
            supporters' = [supporters EXCEPT ![i] = IF m \in @ THEN @ \ {m} ELSE @ \cup {m}]
    BY <1>3 DEF ChangeSupport
  <2>2. supporters[i] \in SUBSET Supporter
    OBVIOUS
  <2>3. supporters' \in [Issue -> SUBSET Supporter]
    BY <2>1, <2>2
  <2> QED BY <1>3, <2>3 DEF ChangeSupport, IssuesOf
<1> QED BY <1>1, <1>2, <1>3

LEMMA IssueProgramTypes ==
  ASSUME IssueAssumption, IssueTypeOK, SeatsDiffer,
         IssueProgram \/ SelectSupportersFails \/ WriteFailure \/ IssueOrderCrash
  PROVE  IssueTypeOK' /\ SeatsDiffer'
<1> DEFINE Data == UNCHANGED <<supporters, weight, admission, known, events>>
           Entries == DOMAIN entry' \subseteq known /\ \A i \in DOMAIN entry' : entry'[i] \in [Column -> Nat]
           Place == /\ ipc' \in {"start", "areas", "next", "nextunit", "rank", "write", "exit"}
                    /\ areas' \subseteq Area /\ units' \subseteq Unit
                    /\ scope' \in Scope /\ ordered' \subseteq Scope
                    /\ ierr' \in BOOLEAN /\ ifaults' \in 0 .. MaxFailures
           Seats == DOMAIN seat' \subseteq IssuesOf(scope') /\ DOMAIN ballots' \subseteq Supporter
<1>1. ASSUME Data, Entries, Place, Seats PROVE IssueTypeOK'
  BY <1>1 DEF IssueTypeOK, IssuesOf
<1>2. ASSUME UNCHANGED <<runoff, scope>> PROVE Seats /\ SeatsDiffer'
  BY <1>2 DEF IssueTypeOK, SeatsDiffer, Unseated, runoff
<1>3. ASSUME UNCHANGED idata PROVE Data /\ Entries
  BY <1>3 DEF idata, IssueTypeOK
<1>15. ASSUME Failure, ierr' = TRUE PROVE ierr' \in BOOLEAN /\ ifaults' \in 0 .. MaxFailures
  BY <1>15 DEF Failure, IssueTypeOK, IssueAssumption
<1>16. ASSUME UNCHANGED <<ierr, ifaults>> PROVE ierr' \in BOOLEAN /\ ifaults' \in 0 .. MaxFailures
  BY <1>16 DEF IssueTypeOK
<1>17. ASSUME Failure, UNCHANGED ierr PROVE ierr' \in BOOLEAN /\ ifaults' \in 0 .. MaxFailures
  BY <1>17 DEF Failure, IssueTypeOK, IssueAssumption
<1> HIDE DEF Data, Entries, Place, Seats
<1>4. CASE RunIssueOrder
  <2>1. SetUp(<<>>, {}) /\ UNCHANGED <<scope, idata>>
    BY <1>4 DEF RunIssueOrder
  <2>2. IsFiniteSet({})
    BY FS_EmptySet
  <2>3. SeatsDiffer' /\ DOMAIN seat' = {} /\ DOMAIN ballots' = {}
    BY <2>1, <2>2, NoSeats
  <2>4. Seats
    BY <2>3 DEF Seats
  <2>5. Place
    BY <1>4 DEF RunIssueOrder, Place, IssueTypeOK
  <2> QED BY <1>1, <1>3, <2>1, <2>3, <2>4, <2>5
<1>5. CASE InsertEntries
  <2>1. Place
    <3>1. ierr' \in BOOLEAN /\ ifaults' \in 0 .. MaxFailures
      BY <1>5, <1>15, <1>16 DEF InsertEntries
    <3> QED BY <1>5, <3>1 DEF InsertEntries, Place, IssueTypeOK
  <2>2. Data /\ UNCHANGED <<runoff, scope>>
    BY <1>5 DEF InsertEntries, Data
  <2>3. Entries
    BY <1>5, InsertTypes DEF Entries
  <2> QED BY <1>1, <1>2, <2>1, <2>2, <2>3
<1>6. CASE SelectAreas \/ SelectUnits
  <2>1. Place
    <3>1. ierr' \in BOOLEAN /\ ifaults' \in 0 .. MaxFailures
      BY <1>6, <1>15, <1>16 DEF SelectAreas, SelectUnits
    <3> QED BY <1>6, <3>1 DEF SelectAreas, SelectUnits, Place, IssueTypeOK
  <2>2. UNCHANGED <<runoff, scope, idata>>
    BY <1>6 DEF SelectAreas, SelectUnits
  <2> QED BY <1>1, <1>2, <1>3, <2>1, <2>2
<1>7. CASE NextArea
  <2>1. PICK a \in areas : areas' = areas \ {a} /\ ProcessAreaOrUnit([mode |-> "area", id |-> a])
    BY <1>7 DEF NextArea
  <2>2. [mode |-> "area", id |-> a] \in Scope
    BY DEF IssueTypeOK, Scope
  <2>3. /\ SeatsDiffer' /\ scope' = [mode |-> "area", id |-> a] /\ ipc' = "rank"
        /\ DOMAIN seat' \subseteq IssuesOf(scope') /\ DOMAIN ballots' \subseteq Supporter
    BY <2>1, <2>2, SetUpInScope
  <2>4. UNCHANGED <<units, ierr, ordered, ifaults, idata>>
    BY <1>7, <2>1 DEF NextArea, ProcessAreaOrUnit
  <2>5. Place
    BY <2>1, <2>2, <2>3, <2>4 DEF Place, IssueTypeOK
  <2> QED BY <1>1, <1>3, <2>3, <2>4, <2>5 DEF Seats
<1>8. CASE NextUnit
  <2>1. PICK u \in units : units' = units \ {u} /\ ProcessAreaOrUnit([mode |-> "unit", id |-> u])
    BY <1>8 DEF NextUnit
  <2>2. [mode |-> "unit", id |-> u] \in Scope
    BY DEF IssueTypeOK, Scope
  <2>3. /\ SeatsDiffer' /\ scope' = [mode |-> "unit", id |-> u] /\ ipc' = "rank"
        /\ DOMAIN seat' \subseteq IssuesOf(scope') /\ DOMAIN ballots' \subseteq Supporter
    BY <2>1, <2>2, SetUpInScope
  <2>4. UNCHANGED <<areas, ierr, ordered, ifaults, idata>>
    BY <1>8, <2>1 DEF NextUnit, ProcessAreaOrUnit
  <2>5. Place
    BY <2>1, <2>2, <2>3, <2>4 DEF Place, IssueTypeOK
  <2> QED BY <1>1, <1>3, <2>3, <2>4, <2>5 DEF Seats
<1>9. CASE RankIssues
  <2>1. UNCHANGED <<areas, units, scope, ierr, ordered, ifaults, idata>> /\ ipc' \in {"rank", "write"}
    BY <1>9 DEF RankIssues
  <2>2. DOMAIN seat' = DOMAIN seat /\ ballots' = ballots /\ SeatsDiffer'
    BY <1>9, RunoffStep DEF RankIssues, runoff, SeatsDiffer, Unseated
  <2>3. Place /\ Seats
    BY <2>1, <2>2 DEF Place, Seats, IssueTypeOK
  <2> QED BY <1>1, <1>3, <2>1, <2>2, <2>3
<1>10. CASE WriteRanks
  <2>1. Place
    BY <1>10 DEF WriteRanks, AfterWrite, Place, IssueTypeOK
  <2>2. Data /\ UNCHANGED <<runoff, scope>>
    BY <1>10 DEF WriteRanks, Data
  <2>3. Entries
    BY <1>10, EntryTypes DEF Entries, IssueTypeOK
  <2> QED BY <1>1, <1>2, <2>1, <2>2, <2>3
<1>11. CASE DeleteEntries
  <2>1. Place
    <3>1. ierr' \in BOOLEAN /\ ifaults' \in 0 .. MaxFailures
      BY <1>11, <1>15, <1>16 DEF DeleteEntries
    <3> QED BY <1>11, <3>1 DEF DeleteEntries, Place, IssueTypeOK
  <2>2. Data /\ UNCHANGED <<runoff, scope>>
    BY <1>11 DEF DeleteEntries, Data
  <2>3. Entries
    BY <1>11 DEF DeleteEntries, Entries, IssueTypeOK
  <2> QED BY <1>1, <1>2, <2>1, <2>2, <2>3
<1>12. CASE SelectSupportersFails
  <2>1. Place
    BY <1>12 DEF SelectSupportersFails, Place, IssueTypeOK, IssueAssumption, Failure
  <2>2. UNCHANGED <<runoff, scope, idata>>
    BY <1>12 DEF SelectSupportersFails
  <2> QED BY <1>1, <1>2, <1>3, <2>1, <2>2
<1>13. CASE WriteFailure
  <2>1. Place
    <3>1. ierr' \in BOOLEAN /\ ifaults' \in 0 .. MaxFailures
      BY <1>13, <1>15, <1>17 DEF WriteFailure
    <3>2. ordered' = ordered \/ ordered' = ordered \cup {scope}
      BY <1>13 DEF WriteFailure
    <3>3. UNCHANGED <<areas, units, scope>> /\ ipc' \in {"next", "nextunit"}
      BY <1>13 DEF WriteFailure, AfterWrite
    <3> QED BY <3>1, <3>2, <3>3 DEF Place, IssueTypeOK
  <2>2. UNCHANGED <<runoff, scope, idata>>
    BY <1>13 DEF WriteFailure
  <2> QED BY <1>1, <1>2, <1>3, <2>1, <2>2
<1>14. CASE IssueOrderCrash
  <2>1. Place
    BY <1>14 DEF IssueOrderCrash, Place, IssueTypeOK, IssueAssumption, Failure
  <2>2. UNCHANGED <<runoff, scope, idata>>
    BY <1>14 DEF IssueOrderCrash
  <2> QED BY <1>1, <1>2, <1>3, <2>1, <2>2
<1> QED BY <1>4, <1>5, <1>6, <1>7, <1>8, <1>9, <1>10, <1>11, <1>12, <1>13, <1>14
      DEF IssueProgram

-----------------------------------------------------------------------------
(* Areas come first, and then the units: a run that knows of no error has   *)
(* dealt with all but those that are to do and the one being done.         *)

Seating == ipc \in {"rank", "write"}
AreasAreDue == ipc = "next" \/ (Seating /\ scope.mode = "area")
UnitsAreDue == ipc = "nextunit" \/ (Seating /\ scope.mode = "unit")

DoneBut(mode, all, left) ==
    \A x \in all : LET s == [mode |-> mode, id |-> x]
                   IN  s \in ordered \/ x \in left \/ (Seating /\ scope = s)

InTurn ==
    /\ ~ierr /\ AreasAreDue => DoneBut("area", Area, areas)
    /\ ~ierr /\ UnitsAreDue => DoneBut("area", Area, {}) /\ DoneBut("unit", Unit, units)
    /\ IssueSuccess

LEMMA TurnsAreKept ==
  ASSUME IssueAssumption, IssueTypeOK, InTurn, IssueNext
  PROVE  InTurn'
<1> USE DEF Seating, AreasAreDue, UnitsAreDue, InTurn, IssueSuccess
<1>1. ASSUME ierr' = TRUE PROVE InTurn'
  BY <1>1
<1>2. CASE RunIssueOrder \/ InsertEntries
  BY <1>2 DEF RunIssueOrder, InsertEntries
<1>3. CASE SelectAreas
  <2>1. ipc' = "next" /\ (areas' = Area \/ ierr' = TRUE)
    BY <1>3 DEF SelectAreas
  <2>2. CASE areas' = Area
    BY <2>1, <2>2 DEF DoneBut
  <2> QED BY <1>1, <2>1, <2>2
<1>4. CASE SelectUnits
  <2>1. CASE units' = Unit /\ ierr' = ierr
    <3>1. ipc = "next" /\ ipc' = "nextunit" /\ areas = {} /\ ordered' = ordered
      BY <1>4 DEF SelectUnits
    <3>2. ~ierr => \A x \in Area : [mode |-> "area", id |-> x] \in ordered
      BY <3>1 DEF DoneBut
    <3> QED BY <2>1, <3>1, <3>2 DEF DoneBut
  <2> QED BY <1>1, <1>4, <2>1 DEF SelectUnits
<1>5. CASE NextArea
  <2>1. PICK a \in areas : areas' = areas \ {a} /\ ProcessAreaOrUnit([mode |-> "area", id |-> a])
    BY <1>5 DEF NextArea
  <2>2. /\ scope' = [mode |-> "area", id |-> a] /\ ipc = "next" /\ ipc' = "rank"
        /\ UNCHANGED <<ierr, ordered>>
    BY <1>5, <2>1 DEF NextArea, ProcessAreaOrUnit
  <2>3. scope'.mode = "area"
    BY <2>2
  <2>4. ASSUME ~ierr, NEW x \in Area
        PROVE  LET s == [mode |-> "area", id |-> x]
               IN  s \in ordered \/ x \in areas' \/ scope' = s
    <3>1. [mode |-> "area", id |-> x] \in ordered \/ x \in areas
      BY <2>2, <2>4 DEF DoneBut
    <3> QED BY <2>1, <2>2, <3>1
  <2> QED BY <2>2, <2>3, <2>4 DEF DoneBut
<1>6. CASE NextUnit
  <2>1. PICK u \in units : units' = units \ {u} /\ ProcessAreaOrUnit([mode |-> "unit", id |-> u])
    BY <1>6 DEF NextUnit
  <2>2. /\ scope' = [mode |-> "unit", id |-> u] /\ ipc = "nextunit" /\ ipc' = "rank"
        /\ UNCHANGED <<ierr, ordered>>
    BY <1>6, <2>1 DEF NextUnit, ProcessAreaOrUnit
  <2>3. scope'.mode = "unit"
    BY <2>2
  <2>4. ASSUME ~ierr, NEW x \in Unit
        PROVE  LET s == [mode |-> "unit", id |-> x]
               IN  s \in ordered \/ x \in units' \/ scope' = s
    <3>1. [mode |-> "unit", id |-> x] \in ordered \/ x \in units
      BY <2>2, <2>4 DEF DoneBut
    <3> QED BY <2>1, <2>2, <3>1
  <2>5. ~ierr => \A x \in Area : [mode |-> "area", id |-> x] \in ordered
    BY <2>2 DEF DoneBut
  <2> QED BY <2>2, <2>3, <2>4, <2>5 DEF DoneBut
<1>7. CASE RankIssues
  <2>1. UNCHANGED <<areas, units, scope, ierr, ordered>> /\ Seating /\ Seating'
    BY <1>7 DEF RankIssues
  <2> QED BY <2>1 DEF DoneBut
<1>8. CASE ipc = "write" /\ ipc' = AfterWrite /\ ordered' = ordered \cup {scope}
           /\ UNCHANGED <<areas, units, scope, ierr>>
  <2>1. scope.mode = "area" \/ scope.mode = "unit"
    BY DEF IssueTypeOK, Scope
  <2>2. CASE scope.mode = "area"
    <3>1. ipc' = "next"
      BY <1>8, <2>2 DEF AfterWrite
    <3> QED BY <1>8, <2>2, <3>1 DEF DoneBut
  <2>3. CASE scope.mode = "unit"
    <3>1. ipc' = "nextunit"
      BY <1>8, <2>3 DEF AfterWrite
    <3> QED BY <1>8, <2>3, <3>1 DEF DoneBut
  <2> QED BY <2>1, <2>2, <2>3
<1>9. CASE WriteRanks
  BY <1>8, <1>9 DEF WriteRanks
<1>10. CASE WriteFailure
  BY <1>1, <1>8, <1>10 DEF WriteFailure
<1>11. CASE DeleteEntries
  <2>1. ipc = "nextunit" /\ units = {} /\ ipc' = "exit" /\ ordered' = ordered
    BY <1>11 DEF DeleteEntries
  <2>2. CASE ierr' = ierr
    <3>1. ~ierr => Scope \subseteq ordered
      BY <2>1 DEF DoneBut, Scope
    <3> QED BY <2>1, <2>2, <3>1 DEF IssueTypeOK
  <2> QED BY <1>1, <1>11, <2>2 DEF DeleteEntries
<1>12. CASE SelectSupportersFails \/ IssueOrderCrash
  BY <1>1, <1>12 DEF SelectSupportersFails, IssueOrderCrash
<1>13. CASE NewIssue \/ LeaveAdmission \/ ChangeSupport
  <2>1. UNCHANGED <<ipc, areas, units, scope, ierr, ordered>>
    BY <1>13 DEF NewIssue, LeaveAdmission, ChangeSupport, iprogram
  <2> QED BY <2>1 DEF DoneBut
<1> QED BY <1>2, <1>3, <1>4, <1>5, <1>6, <1>7, <1>9, <1>10, <1>11, <1>12, <1>13
      DEF IssueNext, IssueProgram

-----------------------------------------------------------------------------
(* Sums over finite sets                                                   *)

\* A set that grows element by element to S has what each step keeps.
LEMMA SetGrows ==
  ASSUME NEW S, IsFiniteSet(S), NEW P, {} \in P,
         \A T \in SUBSET S : T \in P => \A x \in S \ T : T \cup {x} \in P
  PROVE  S \in P
<1> DEFINE Rest == {n \in Nat : \E T \in SUBSET S : T \in P /\ Cardinality(S \ T) = n}
<1>1. Cardinality(S) \in Rest
  <2>1. Cardinality(S) \in Nat /\ S \ {} = S /\ {} \in SUBSET S
    BY FS_CardinalityType
  <2> QED BY <2>1
<1>2. PICK n \in Rest : \A k \in Rest : n <= k
  <2>1. Rest \subseteq Nat /\ Rest # {}
    BY <1>1
  <2> HIDE DEF Rest
  <2> QED BY <2>1, FirstOf
<1>3. PICK T \in SUBSET S : T \in P /\ Cardinality(S \ T) = n
  BY <1>2
<1>4. IsFiniteSet(S \ T)
  BY FS_Subset
<1>5. ASSUME NEW x \in S \ T PROVE FALSE
  <2>1. T \cup {x} \in P /\ T \cup {x} \in SUBSET S
    BY <1>3
  <2>2. S \ (T \cup {x}) = (S \ T) \ {x}
    OBVIOUS
  <2>3. Cardinality((S \ T) \ {x}) = Cardinality(S \ T) - 1
    BY <1>4, <1>5, FS_RemoveElement
  <2>4. Cardinality((S \ T) \ {x}) \in Nat
    BY <1>4, FS_Subset, FS_CardinalityType
  <2>5. n - 1 \in Rest
    BY <1>3, <2>1, <2>2, <2>3, <2>4
  <2>6. n \in Nat
    BY <1>2
  <2> HIDE DEF Rest
  <2> QED BY <1>2, <2>5, <2>6
<1>6. S = T
  BY <1>5
<1> QED BY <1>3, <1>6

\* One element of a set, and what a fold of h over the subsets of D does.
Some(s) == CHOOSE x \in s : TRUE

Folding(D, b, h, f) ==
    /\ f \in [SUBSET D -> Int]
    /\ \A s \in SUBSET D : f[s] = IF s = {} THEN b ELSE h[<<Some(s), f[s \ {Some(s)}]>>]

LEMMA FoldExists ==
  ASSUME NEW D, IsFiniteSet(D), NEW b \in Int, NEW h \in [D \X Int -> Int]
  PROVE  \E f : Folding(D, b, h, f)
<1> DEFINE Small(n) == {s \in SUBSET D : Cardinality(s) <= n}
           Folds(n, f) == /\ f \in [Small(n) -> Int]
                          /\ \A s \in Small(n) :
                               f[s] = IF s = {} THEN b ELSE h[<<Some(s), f[s \ {Some(s)}]>>]
           Bad == {n \in Nat : ~\E f : Folds(n, f)}
<1>0. \A s \in SUBSET D : IsFiniteSet(s) /\ Cardinality(s) \in Nat
  BY FS_Subset, FS_CardinalityType
<1>1. ASSUME NEW n \in Nat, NEW s \in Small(n), s # {}
      PROVE  /\ Some(s) \in D /\ s \ {Some(s)} \in SUBSET D
             /\ Cardinality(s \ {Some(s)}) = Cardinality(s) - 1 /\ Cardinality(s) >= 1
  <2>1. Some(s) \in s
    BY <1>1 DEF Some
  <2>2. Cardinality(s \ {Some(s)}) = Cardinality(s) - 1
    BY <1>0, <1>1, <2>1, FS_RemoveElement
  <2>3. Cardinality(s \ {Some(s)}) \in Nat /\ Cardinality(s) \in Nat
    BY <1>0
  <2> QED BY <2>1, <2>2, <2>3
<1>2. \E f : Folds(0, f)
  <2>1. Small(0) = {{}}
    <3>1. \A s \in Small(0) : s = {}
      BY <1>0, FS_EmptySet
    <3>2. {} \in Small(0)
      BY FS_EmptySet
    <3> QED BY <3>1, <3>2
  <2> DEFINE f == [s \in Small(0) |-> b]
  <2>2. Folds(0, f)
    BY <2>1
  <2> QED BY <2>2
<1>3. ASSUME NEW n \in Nat, \E f : Folds(n, f)
      PROVE  \E f : Folds(n + 1, f)
  <2>1. PICK f : Folds(n, f)
    BY <1>3
  <2> DEFINE g == [s \in Small(n + 1) |->
                      IF s = {} THEN b ELSE h[<<Some(s), f[s \ {Some(s)}]>>]]
  <2>2. ASSUME NEW s \in Small(n + 1), s # {}
        PROVE  Some(s) \in D /\ s \ {Some(s)} \in Small(n)
    BY <1>0, <1>1, <2>2
  <2>3. \A s \in Small(n) : s \in Small(n + 1) /\ g[s] = f[s]
    BY <1>0, <2>1
  <2>4. g \in [Small(n + 1) -> Int]
    BY <2>1, <2>2
  <2>5. \A s \in Small(n + 1) : g[s] = IF s = {} THEN b ELSE h[<<Some(s), g[s \ {Some(s)}]>>]
    BY <2>2, <2>3
  <2> HIDE DEF g
  <2> QED BY <2>4, <2>5
<1>4. Bad = {}
  <2>1. SUFFICES ASSUME Bad # {} PROVE FALSE
    OBVIOUS
  <2>2. PICK n \in Bad : \A k \in Bad : n <= k
    <3>1. Bad \subseteq Nat
      OBVIOUS
    <3> HIDE DEF Bad
    <3> QED BY <2>1, <3>1, FirstOf
  <2>3. n \in Nat /\ ~\E f : Folds(n, f)
    BY <2>2
  <2>4. n # 0
    BY <1>2, <2>3
  <2>5. n - 1 \in Nat /\ n - 1 + 1 = n /\ ~(n <= n - 1)
    BY <2>3, <2>4
  <2>6. \E f : Folds(n - 1, f)
    BY <2>2, <2>5
  <2> HIDE DEF Folds, Bad
  <2> QED BY <1>3, <2>3, <2>5, <2>6
<1>5. Cardinality(D) \in Nat
  BY FS_CardinalityType
<1>6. PICK f : Folds(Cardinality(D), f)
  BY <1>4, <1>5
<1>7. Small(Cardinality(D)) = SUBSET D
  BY <1>0, <1>5, FS_Subset
<1> QED BY <1>6, <1>7 DEF Folding

\* The sum of the integers w[x] over the elements x of a set.
Sums(w, f) ==
    /\ f \in [SUBSET DOMAIN w -> Int]
    /\ \A s \in SUBSET DOMAIN w : f[s] = IF s = {} THEN 0 ELSE w[Some(s)] + f[s \ {Some(s)}]

Total(w, S) == (CHOOSE f : Sums(w, f))[S]

LEMMA SumsExist ==
  ASSUME NEW D, IsFiniteSet(D), NEW w \in [D -> Int]
  PROVE  Sums(w, CHOOSE f : Sums(w, f))
<1> DEFINE h == [p \in D \X Int |-> w[p[1]] + p[2]]
<1>1. h \in [D \X Int -> Int]
  OBVIOUS
<1>2. PICK f : Folding(D, 0, h, f)
  <2>1. 0 \in Int
    OBVIOUS
  <2> HIDE DEF h
  <2>2. \A b \in Int : \E f : Folding(D, b, h, f)
    BY <1>1, FoldExists
  <2> QED BY <2>1, <2>2
<1>3. ASSUME NEW s \in SUBSET D
      PROVE  f[s] = IF s = {} THEN 0 ELSE w[Some(s)] + f[s \ {Some(s)}]
  <2>1. s # {} => Some(s) \in D /\ f[s \ {Some(s)}] \in Int
    BY <1>2 DEF Some, Folding
  <2> QED BY <1>2, <2>1 DEF Folding
<1>4. Sums(w, f)
  BY <1>2, <1>3 DEF Folding, Sums
<1> QED BY <1>4

LEMMA TotalType ==
  ASSUME NEW D, IsFiniteSet(D), NEW w \in [D -> Int], NEW S \in SUBSET D
  PROVE  /\ Total(w, S) \in Int /\ Total(w, {}) = 0
         /\ S # {} => /\ Some(S) \in S
                      /\ Total(w, S) = w[Some(S)] + Total(w, S \ {Some(S)})
<1> DEFINE f == CHOOSE f : Sums(w, f)
<1>1. Sums(w, f)
  BY SumsExist
<1>2. Total(w, S) = f[S] /\ Total(w, {}) = f[{}] /\ Total(w, S \ {Some(S)}) = f[S \ {Some(S)}]
  BY DEF Total
<1> HIDE DEF f
<1>3. DOMAIN w = D /\ {} \in SUBSET D
  OBVIOUS
<1>4. f[S] \in Int /\ f[{}] = 0
  BY <1>1, <1>3 DEF Sums
<1>5. ASSUME S # {} PROVE Some(S) \in S /\ f[S] = w[Some(S)] + f[S \ {Some(S)}]
  <2>1. Some(S) \in S
    BY <1>5 DEF Some
  <2> QED BY <1>1, <1>3, <1>5, <2>1 DEF Sums
<1> QED BY <1>2, <1>4, <1>5

LEMMA TotalGrows ==
  ASSUME NEW D, IsFiniteSet(D), NEW w \in [D -> Int], NEW S \in SUBSET D, NEW y \in D \ S
  PROVE  Total(w, S \cup {y}) = Total(w, S) + w[y]
<1> DEFINE Wrong(T, x) == Total(w, T \cup {x}) # Total(w, T) + w[x]
           Bad == {n \in Nat : \E T \in SUBSET D : \E x \in D \ T :
                                  Cardinality(T) = n /\ Wrong(T, x)}
<1>0. \A T \in SUBSET D : IsFiniteSet(T) /\ Cardinality(T) \in Nat
  BY FS_Subset, FS_CardinalityType
<1>1. SUFFICES ASSUME Bad # {} PROVE FALSE
  BY <1>0
<1>2. PICK n \in Bad : \A k \in Bad : n <= k
  <2>1. Bad \subseteq Nat
    OBVIOUS
  <2> HIDE DEF Bad
  <2> QED BY <1>1, <2>1, FirstOf
<1>3. PICK T \in SUBSET D : \E x \in D \ T : Cardinality(T) = n /\ Wrong(T, x)
  BY <1>2
<1>4. PICK x \in D \ T : Cardinality(T) = n /\ Wrong(T, x)
  BY <1>3
<1>5. T \cup {x} \in SUBSET D /\ T \cup {x} # {}
  OBVIOUS
<1>6. PICK c \in T \cup {x} : Total(w, T \cup {x}) = w[c] + Total(w, (T \cup {x}) \ {c})
  <2>1. PICK Y : Y = T \cup {x}
    OBVIOUS
  <2>2. Y \in SUBSET D /\ Y # {}
    BY <1>5, <2>1
  <2>3. \A Z \in SUBSET D :
          Z # {} => Some(Z) \in Z /\ Total(w, Z) = w[Some(Z)] + Total(w, Z \ {Some(Z)})
    <3> HIDE DEF Wrong, Bad
    <3> QED BY TotalType
  <2>4. Some(Y) \in Y /\ Total(w, Y) = w[Some(Y)] + Total(w, Y \ {Some(Y)})
    BY <2>2, <2>3
  <2> QED BY <2>1, <2>4
<1>7. /\ Total(w, T \cup {x}) \in Int /\ Total(w, T) \in Int /\ Total(w, T \ {c}) \in Int
      /\ w[c] \in Int /\ w[x] \in Int
  <2>1. T \ {c} \in SUBSET D
    OBVIOUS
  <2> QED BY <1>5, <2>1, TotalType
<1>8. CASE c = x
  <2>1. (T \cup {x}) \ {c} = T
    BY <1>8
  <2>2. Total(w, T \cup {x}) = w[x] + Total(w, T)
    BY <1>6, <1>8, <2>1
  <2>3. Total(w, T \cup {x}) # Total(w, T) + w[x]
    BY <1>4
  <2> HIDE DEF Wrong, Bad
  <2> QED BY <1>7, <2>2, <2>3
<1>9. CASE c # x
  <2>1. c \in T /\ (T \cup {x}) \ {c} = (T \ {c}) \cup {x} /\ (T \ {c}) \cup {c} = T
    BY <1>6, <1>9
  <2>2. /\ Cardinality(T \ {c}) = Cardinality(T) - 1 /\ Cardinality(T \ {c}) \in Nat
        /\ T \ {c} \in SUBSET D
    BY <1>0, <2>1, FS_RemoveElement
  <2>3. Cardinality(T \ {c}) = n - 1 /\ n \in Nat /\ ~(n <= n - 1)
    BY <1>2, <1>4, <2>2
  <2>4. n - 1 \notin Bad
    BY <1>2, <2>3
  <2>5. ASSUME NEW z \in D \ (T \ {c}) PROVE ~Wrong(T \ {c}, z)
    <3> HIDE DEF Wrong
    <3> QED BY <2>2, <2>3, <2>4
  <2>6. Total(w, (T \ {c}) \cup {x}) = Total(w, T \ {c}) + w[x]
    BY <2>5
  <2>7. Total(w, (T \ {c}) \cup {c}) = Total(w, T \ {c}) + w[c]
    BY <2>1, <2>5
  <2>8. Total(w, T \cup {x}) = w[c] + (Total(w, T \ {c}) + w[x])
    BY <1>6, <2>1, <2>6
  <2>9. Total(w, T) = Total(w, T \ {c}) + w[c]
    BY <2>1, <2>7
  <2>10. Total(w, T \cup {x}) # Total(w, T) + w[x]
    BY <1>4
  <2> HIDE DEF Wrong, Bad
  <2> QED BY <1>7, <2>8, <2>9, <2>10
<1> QED BY <1>8, <1>9

\* A function that unfolds as the sum does is the sum.
LEMMA TotalIsUnique ==
  ASSUME NEW D, IsFiniteSet(D), NEW w \in [D -> Int], NEW S \in SUBSET D, NEW f,
         \A s \in SUBSET S : f[s] = IF s = {} THEN 0 ELSE w[Some(s)] + f[s \ {Some(s)}]
  PROVE  f[S] = Total(w, S)
<1> DEFINE Bad == {n \in Nat : \E T \in SUBSET S : Cardinality(T) = n /\ f[T] # Total(w, T)}
<1>0. \A T \in SUBSET S : IsFiniteSet(T) /\ Cardinality(T) \in Nat
  BY FS_Subset, FS_CardinalityType
<1>1. SUFFICES ASSUME Bad # {} PROVE FALSE
  BY <1>0
<1>2. PICK n \in Bad : \A k \in Bad : n <= k
  <2>1. Bad \subseteq Nat
    OBVIOUS
  <2> HIDE DEF Bad
  <2> QED BY <1>1, <2>1, FirstOf
<1>3. PICK T \in SUBSET S : Cardinality(T) = n /\ f[T] # Total(w, T)
  BY <1>2
<1>4. T # {}
  BY <1>3, TotalType
<1>5. /\ Some(T) \in T /\ Total(w, T) = w[Some(T)] + Total(w, T \ {Some(T)})
      /\ f[T] = w[Some(T)] + f[T \ {Some(T)}]
  <2>1. T \in SUBSET D
    OBVIOUS
  <2> QED BY <1>4, <2>1, TotalType
<1>6. /\ T \ {Some(T)} \in SUBSET S /\ Cardinality(T \ {Some(T)}) = n - 1
      /\ Cardinality(T \ {Some(T)}) \in Nat
  BY <1>0, <1>3, <1>5, FS_RemoveElement
<1>7. n - 1 \notin Bad
  <2>1. n \in Nat /\ ~(n <= n - 1)
    BY <1>2
  <2> QED BY <1>2, <2>1
<1>8. f[T \ {Some(T)}] = Total(w, T \ {Some(T)})
  BY <1>6, <1>7
<1> QED BY <1>3, <1>5, <1>8

\* Sums of the same integers are the same.
LEMMA TotalAgrees ==
  ASSUME NEW D, IsFiniteSet(D), NEW v \in [D -> Int],
         NEW E, IsFiniteSet(E), NEW w \in [E -> Int],
         NEW S, S \subseteq D, S \subseteq E, \A x \in S : v[x] = w[x]
  PROVE  Total(v, S) = Total(w, S)
<1> DEFINE P == {T \in SUBSET S : Total(v, T) = Total(w, T)}
<1>1. IsFiniteSet(S) /\ {} \in SUBSET D /\ {} \in SUBSET E
  BY FS_Subset
<1>2. {} \in P
  <2>1. Total(v, {}) = 0 /\ Total(w, {}) = 0
    BY <1>1, TotalType
  <2> QED BY <2>1
<1>3. ASSUME NEW T \in SUBSET S, T \in P, NEW x \in S \ T PROVE T \cup {x} \in P
  <2>1. T \in SUBSET D /\ x \in D \ T /\ T \in SUBSET E /\ x \in E \ T
    OBVIOUS
  <2>2. Total(v, T \cup {x}) = Total(v, T) + v[x]
    BY <2>1, TotalGrows
  <2>3. Total(w, T \cup {x}) = Total(w, T) + w[x]
    BY <2>1, TotalGrows
  <2> QED BY <1>3, <2>2, <2>3
<1>4. S \in P
  <2> HIDE DEF P
  <2> QED BY <1>1, <1>2, <1>3, SetGrows
<1> QED BY <1>4

LEMMA TotalMonotone ==
  ASSUME NEW D, IsFiniteSet(D), NEW v \in [D -> Int], NEW w \in [D -> Int],
         NEW S \in SUBSET D, \A x \in S : v[x] <= w[x]
  PROVE  Total(v, S) <= Total(w, S)
<1> DEFINE P == {T \in SUBSET S : Total(v, T) <= Total(w, T)}
<1>1. IsFiniteSet(S) /\ {} \in SUBSET D
  BY FS_Subset
<1>2. {} \in P
  <2>1. Total(v, {}) = 0 /\ Total(w, {}) = 0
    BY <1>1, TotalType
  <2> QED BY <2>1
<1>3. ASSUME NEW T \in SUBSET S, T \in P, NEW x \in S \ T PROVE T \cup {x} \in P
  <2>1. T \in SUBSET D /\ x \in D \ T
    OBVIOUS
  <2>2. Total(v, T \cup {x}) = Total(v, T) + v[x] /\ Total(v, T) \in Int
    <3>1. Total(v, T \cup {x}) = Total(v, T) + v[x]
      BY <2>1, TotalGrows
    <3>2. Total(v, T) \in Int
      BY <2>1, TotalType
    <3> QED BY <3>1, <3>2
  <2>3. Total(w, T \cup {x}) = Total(w, T) + w[x] /\ Total(w, T) \in Int
    <3>1. Total(w, T \cup {x}) = Total(w, T) + w[x]
      BY <2>1, TotalGrows
    <3>2. Total(w, T) \in Int
      BY <2>1, TotalType
    <3> QED BY <3>1, <3>2
  <2>4. v[x] \in Int /\ w[x] \in Int /\ v[x] <= w[x] /\ Total(v, T) <= Total(w, T)
    BY <1>3
  <2>5. Total(v, T \cup {x}) <= Total(w, T \cup {x})
    BY <2>2, <2>3, <2>4
  <2> QED BY <2>5
<1>4. S \in P
  <2> HIDE DEF P
  <2> QED BY <1>1, <1>2, <1>3, SetGrows
<1> QED BY <1>4

LEMMA TotalAdds ==
  ASSUME NEW D, IsFiniteSet(D), NEW u \in [D -> Int], NEW v \in [D -> Int], NEW w \in [D -> Int],
         NEW S \in SUBSET D, \A x \in S : u[x] = v[x] + w[x]
  PROVE  Total(u, S) = Total(v, S) + Total(w, S)
<1> DEFINE P == {T \in SUBSET S : Total(u, T) = Total(v, T) + Total(w, T)}
<1>1. IsFiniteSet(S) /\ {} \in SUBSET D
  BY FS_Subset
<1>2. {} \in P
  <2>1. Total(u, {}) = 0 /\ Total(v, {}) = 0 /\ Total(w, {}) = 0
    BY <1>1, TotalType
  <2> QED BY <2>1
<1>3. ASSUME NEW T \in SUBSET S, T \in P, NEW x \in S \ T PROVE T \cup {x} \in P
  <2>1. T \in SUBSET D /\ x \in D \ T
    OBVIOUS
  <2>2. /\ Total(u, T \cup {x}) = Total(u, T) + u[x]
        /\ Total(u, T) \in Int /\ u[x] \in Int
    <3>1. Total(u, T \cup {x}) = Total(u, T) + u[x]
      BY <2>1, TotalGrows
    <3>2. Total(u, T) \in Int /\ u[x] \in Int
      BY <2>1, TotalType
    <3> QED BY <3>1, <3>2
  <2>3. /\ Total(v, T \cup {x}) = Total(v, T) + v[x]
        /\ Total(v, T) \in Int /\ v[x] \in Int
    <3>1. Total(v, T \cup {x}) = Total(v, T) + v[x]
      BY <2>1, TotalGrows
    <3>2. Total(v, T) \in Int /\ v[x] \in Int
      BY <2>1, TotalType
    <3> QED BY <3>1, <3>2
  <2>4. /\ Total(w, T \cup {x}) = Total(w, T) + w[x]
        /\ Total(w, T) \in Int /\ w[x] \in Int
    <3>1. Total(w, T \cup {x}) = Total(w, T) + w[x]
      BY <2>1, TotalGrows
    <3>2. Total(w, T) \in Int /\ w[x] \in Int
      BY <2>1, TotalType
    <3> QED BY <3>1, <3>2
  <2>5. u[x] = v[x] + w[x] /\ Total(u, T) = Total(v, T) + Total(w, T)
    BY <1>3
  <2>6. Total(u, T \cup {x}) = Total(v, T \cup {x}) + Total(w, T \cup {x})
    BY <2>2, <2>3, <2>4, <2>5
  <2> QED BY <2>6
<1>4. S \in P
  <2> HIDE DEF P
  <2> QED BY <1>1, <1>2, <1>3, SetGrows
<1> QED BY <1>4

LEMMA Distributes ==
  ASSUME NEW k \in Int, NEW x \in Int, NEW y \in Int
  PROVE  k * x + k * y = k * (x + y)
OBVIOUS

LEMMA TotalScaled ==
  ASSUME NEW D, IsFiniteSet(D), NEW u \in [D -> Int], NEW v \in [D -> Int], NEW k \in Int,
         NEW S \in SUBSET D, \A x \in S : u[x] = k * v[x]
  PROVE  Total(u, S) = k * Total(v, S)
<1> DEFINE P == {T \in SUBSET S : Total(u, T) = k * Total(v, T)}
<1>1. IsFiniteSet(S) /\ {} \in SUBSET D
  BY FS_Subset
<1>2. {} \in P
  <2>1. Total(u, {}) = 0 /\ Total(v, {}) = 0
    BY <1>1, TotalType
  <2>2. k * 0 = 0
    OBVIOUS
  <2> QED BY <2>1, <2>2
<1>3. ASSUME NEW T \in SUBSET S, T \in P, NEW x \in S \ T PROVE T \cup {x} \in P
  <2>1. T \in SUBSET D /\ x \in D \ T
    OBVIOUS
  <2>2. /\ Total(u, T \cup {x}) = Total(u, T) + u[x]
        /\ Total(u, T) \in Int /\ u[x] \in Int
    <3>1. Total(u, T \cup {x}) = Total(u, T) + u[x]
      BY <2>1, TotalGrows
    <3>2. Total(u, T) \in Int /\ u[x] \in Int
      BY <2>1, TotalType
    <3> QED BY <3>1, <3>2
  <2>3. /\ Total(v, T \cup {x}) = Total(v, T) + v[x]
        /\ Total(v, T) \in Int /\ v[x] \in Int
    <3>1. Total(v, T \cup {x}) = Total(v, T) + v[x]
      BY <2>1, TotalGrows
    <3>2. Total(v, T) \in Int /\ v[x] \in Int
      BY <2>1, TotalType
    <3> QED BY <3>1, <3>2
  <2>4. u[x] = k * v[x] /\ Total(u, T) = k * Total(v, T)
    BY <1>3
  <2>5. k * Total(v, T) + k * v[x] = k * (Total(v, T) + v[x])
    BY <2>3, Distributes
  <2>6. Total(u, T \cup {x}) = k * Total(v, T \cup {x})
    BY <2>2, <2>3, <2>4, <2>5
  <2> QED BY <2>6
<1>4. S \in P
  <2> HIDE DEF P
  <2> QED BY <1>1, <1>2, <1>3, SetGrows
<1> QED BY <1>4

LEMMA TotalOfEqual ==
  ASSUME NEW D, IsFiniteSet(D), NEW w \in [D -> Int], NEW k \in Int,
         NEW S \in SUBSET D, \A x \in S : w[x] = k
  PROVE  Total(w, S) = k * Cardinality(S)
<1> DEFINE P == {T \in SUBSET S : Total(w, T) = k * Cardinality(T)}
<1>1. IsFiniteSet(S) /\ {} \in SUBSET D
  BY FS_Subset
<1>2. {} \in P
  <2>1. Total(w, {}) = 0
    BY <1>1, TotalType
  <2>2. Cardinality({}) = 0 /\ k * 0 = 0
    BY FS_EmptySet
  <2> QED BY <2>1, <2>2
<1>3. ASSUME NEW T \in SUBSET S, T \in P, NEW x \in S \ T PROVE T \cup {x} \in P
  <2>1. T \in SUBSET D /\ x \in D \ T /\ IsFiniteSet(T)
    BY <1>1, FS_Subset
  <2>2. Total(w, T \cup {x}) = Total(w, T) + k
    BY <2>1, TotalGrows
  <2>3. Cardinality(T \cup {x}) = Cardinality(T) + 1 /\ Cardinality(T) \in Nat
    BY <1>3, <2>1, FS_AddElement, FS_CardinalityType
  <2>4. \A n \in Nat : k * n + k = k * (n + 1)
    OBVIOUS
  <2>5. k * Cardinality(T) + k = k * (Cardinality(T) + 1)
    BY <2>3, <2>4
  <2>6. Total(w, T \cup {x}) = k * Cardinality(T \cup {x})
    BY <1>3, <2>2, <2>3, <2>5
  <2> QED BY <2>6
<1>4. S \in P
  <2> HIDE DEF P
  <2> QED BY <1>1, <1>2, <1>3, SetGrows
<1> QED BY <1>4

LEMMA TotalOfTwo ==
  ASSUME NEW D, IsFiniteSet(D), NEW w \in [D -> Int],
         NEW S \in SUBSET D, NEW R \in SUBSET D, R \cap S = {}
  PROVE  Total(w, R \cup S) = Total(w, R) + Total(w, S)
<1> DEFINE P == {T \in SUBSET S : Total(w, R \cup T) = Total(w, R) + Total(w, T)}
<1>1. IsFiniteSet(S) /\ {} \in SUBSET D
  BY FS_Subset
<1>2. {} \in P
  <2>1. Total(w, {}) = 0 /\ R \cup {} = R /\ Total(w, R) \in Int
    BY <1>1, TotalType
  <2> QED BY <2>1
<1>3. ASSUME NEW T \in SUBSET S, T \in P, NEW x \in S \ T PROVE T \cup {x} \in P
  <2>1. /\ T \in SUBSET D /\ x \in D \ T /\ R \cup T \in SUBSET D /\ x \in D \ (R \cup T)
        /\ R \cup (T \cup {x}) = (R \cup T) \cup {x}
    OBVIOUS
  <2>2. Total(w, (R \cup T) \cup {x}) = Total(w, R \cup T) + w[x]
    BY <2>1, TotalGrows
  <2>3. Total(w, T \cup {x}) = Total(w, T) + w[x]
    BY <2>1, TotalGrows
  <2>4. Total(w, T) \in Int /\ Total(w, R) \in Int /\ w[x] \in Int
    BY <2>1, TotalType
  <2>5. Total(w, R \cup T) = Total(w, R) + Total(w, T)
    BY <1>3
  <2>6. Total(w, R \cup (T \cup {x})) = Total(w, R \cup T) + w[x]
    BY <2>1, <2>2
  <2>7. Total(w, R \cup (T \cup {x})) = Total(w, R) + Total(w, T \cup {x})
    <3> HIDE DEF P
    <3> QED BY <2>3, <2>4, <2>5, <2>6
  <2> QED BY <2>7
<1>4. S \in P
  <2> HIDE DEF P
  <2> QED BY <1>1, <1>2, <1>3, SetGrows
<1> QED BY <1>4

\* A sum of as many k's as S has elements of A.
LEMMA TotalOfSome ==
  ASSUME NEW D, IsFiniteSet(D), NEW w \in [D -> Int], NEW k \in Int, NEW S \in SUBSET D,
         NEW R \in SUBSET S, \A x \in R : w[x] = k, \A x \in S \ R : w[x] = 0
  PROVE  Total(w, S) = k * Cardinality(R)
<1>1. PICK Q \in SUBSET D : Q = S \ R
  OBVIOUS
<1>2. R \in SUBSET D /\ R \cap Q = {} /\ R \cup Q = S /\ (\A x \in Q : w[x] = 0)
  BY <1>1
<1>3. Total(w, S) = Total(w, R) + Total(w, Q)
  <2>1. Total(w, R \cup Q) = Total(w, R) + Total(w, Q)
    BY <1>2, TotalOfTwo
  <2> QED BY <1>2, <2>1
<1>4. Total(w, R) = k * Cardinality(R)
  BY <1>2, TotalOfEqual
<1>5. Total(w, Q) = 0
  <2>1. 0 \in Int
    OBVIOUS
  <2>2. Total(w, Q) = 0 * Cardinality(Q)
    BY <1>2, <2>1, TotalOfEqual
  <2>3. Cardinality(Q) \in Nat
    BY FS_Subset, FS_CardinalityType
  <2> QED BY <2>2, <2>3
<1>6. Total(w, R) \in Int
  BY <1>2, TotalType
<1> QED BY <1>3, <1>4, <1>5, <1>6

\* What each v gives to the elements of M[v], summed up by element and by v.
LEMMA TotalExchanged ==
  ASSUME NEW C, IsFiniteSet(C), NEW V, IsFiniteSet(V),
         NEW M \in [V -> SUBSET C], NEW s \in [V -> Int], NEW X \in SUBSET C
  PROVE  Total([c \in C |-> Total(s, {v \in V : c \in M[v]})], X)
           = Total([v \in V |-> s[v] * Cardinality(X \cap M[v])], V)
<1> DEFINE r(W) == [c \in C |-> Total(s, {v \in W : c \in M[v]})]
           g == [v \in V |-> s[v] * Cardinality(X \cap M[v])]
           P == {W \in SUBSET V : Total(r(W), X) = Total(g, W)}
<1>0. \A v \in V : X \cap M[v] \in SUBSET C /\ Cardinality(X \cap M[v]) \in Nat
  <2>1. ASSUME NEW v \in V PROVE IsFiniteSet(X \cap M[v])
    BY FS_Subset
  <2> QED BY <2>1, FS_CardinalityType
<1>1. g \in [V -> Int]
  BY <1>0
<1>2. ASSUME NEW W \in SUBSET V PROVE r(W) \in [C -> Int]
  <2>1. \A c \in C : {v \in W : c \in M[v]} \in SUBSET V
    OBVIOUS
  <2>2. \A Y \in SUBSET V : Total(s, Y) \in Int
    BY TotalType
  <2> QED BY <2>1, <2>2
<1>3. {} \in P
  <2>1. Total(g, {}) = 0 /\ Total(s, {}) = 0
    <3>1. {} \in SUBSET V
      OBVIOUS
    <3> HIDE DEF g
    <3> QED BY <1>1, <3>1, TotalType
  <2>2. \A c \in X : r({})[c] = 0
    BY <2>1
  <2>3. r({}) \in [C -> Int] /\ 0 \in Int
    <3>1. {} \in SUBSET V
      OBVIOUS
    <3> HIDE DEF r
    <3> QED BY <1>2, <3>1
  <2>4. Cardinality(X) \in Nat
    BY FS_Subset, FS_CardinalityType
  <2>5. Total(r({}), X) = 0 * Cardinality(X)
    <3> HIDE DEF r
    <3> QED BY <2>2, <2>3, TotalOfEqual
  <2> QED BY <2>1, <2>4, <2>5
<1>4. ASSUME NEW W \in SUBSET V, W \in P, NEW y \in V \ W PROVE W \cup {y} \in P
  <2> DEFINE d == [c \in C |-> IF c \in M[y] THEN s[y] ELSE 0]
  <2>1. d \in [C -> Int] /\ r(W) \in [C -> Int] /\ r(W \cup {y}) \in [C -> Int]
    <3>1. d \in [C -> Int]
      OBVIOUS
    <3>2. W \cup {y} \in SUBSET V
      OBVIOUS
    <3> HIDE DEF r, d
    <3> QED BY <1>2, <3>1, <3>2
  <2>2. ASSUME NEW c \in X PROVE r(W \cup {y})[c] = r(W)[c] + d[c]
    <3>1. PICK Y \in SUBSET V : Y = {v \in W : c \in M[v]}
      OBVIOUS
    <3>2. r(W)[c] = Total(s, Y) /\ Total(s, Y) \in Int
      BY <3>1, TotalType
    <3>3. CASE c \in M[y]
      <4>1. {v \in W \cup {y} : c \in M[v]} = Y \cup {y} /\ y \in V \ Y
        BY <3>1, <3>3
      <4>2. Total(s, Y \cup {y}) = Total(s, Y) + s[y]
        BY <4>1, TotalGrows
      <4>3. r(W \cup {y})[c] = Total(s, Y \cup {y}) /\ d[c] = s[y] /\ s[y] \in Int
        BY <3>3, <4>1
      <4> HIDE DEF r, d
      <4> QED BY <3>2, <4>2, <4>3
    <3>4. CASE c \notin M[y]
      <4>1. {v \in W \cup {y} : c \in M[v]} = Y
        BY <3>1, <3>4
      <4>2. r(W \cup {y})[c] = Total(s, Y) /\ d[c] = 0
        BY <3>4, <4>1
      <4> HIDE DEF r, d
      <4> QED BY <3>2, <4>2
    <3> QED BY <3>3, <3>4
  <2>3. Total(r(W \cup {y}), X) = Total(r(W), X) + Total(d, X)
    <3>1. PICK u \in [C -> Int] : u = r(W \cup {y})
      BY <2>1
    <3>2. PICK t \in [C -> Int] : t = r(W)
      BY <2>1
    <3>3. PICK e \in [C -> Int] : e = d
      BY <2>1
    <3>4. \A c \in X : u[c] = t[c] + e[c]
      <4> HIDE DEF r, d
      <4> QED BY <2>2, <3>1, <3>2, <3>3
    <3>5. Total(u, X) = Total(t, X) + Total(e, X)
      <4> HIDE DEF r, d, g, P
      <4> QED BY <3>4, TotalAdds
    <3> HIDE DEF r, d
    <3> QED BY <3>1, <3>2, <3>3, <3>5
  <2>4. Total(d, X) = s[y] * Cardinality(X \cap M[y])
    <3>1. \A c \in X : d[c] = IF c \in M[y] THEN s[y] ELSE 0
      OBVIOUS
    <3>2. s[y] \in Int
      OBVIOUS
    <3>3. PICK e \in [C -> Int] : e = d
      BY <2>1
    <3>4. PICK R \in SUBSET X : R = X \cap M[y]
      OBVIOUS
    <3>5. (\A c \in R : e[c] = s[y]) /\ (\A c \in X \ R : e[c] = 0)
      <4> HIDE DEF r, d, g, P
      <4> QED BY <3>1, <3>3, <3>4
    <3>6. Total(e, X) = s[y] * Cardinality(R)
      <4> HIDE DEF r, d, g, P
      <4> QED BY <3>2, <3>5, TotalOfSome
    <3> HIDE DEF d
    <3> QED BY <3>3, <3>4, <3>6
  <2>5. Total(r(W), X) \in Int /\ Total(d, X) \in Int
    <3> HIDE DEF r, d
    <3> QED BY <2>1, TotalType
  <2>6. Total(g, W \cup {y}) = Total(g, W) + g[y] /\ g[y] = Total(d, X)
    <3>1. Total(g, W \cup {y}) = Total(g, W) + g[y]
      <4> HIDE DEF g
      <4> QED BY <1>1, TotalGrows
    <3> QED BY <2>4, <3>1
  <2>7. Total(r(W), X) = Total(g, W)
    BY <1>4
  <2>8. Total(r(W \cup {y}), X) = Total(g, W \cup {y})
    <3> HIDE DEF r, d, g
    <3> QED BY <2>3, <2>5, <2>6, <2>7
  <2> HIDE DEF r, g
  <2> QED BY <2>8
<1>5. V \in P
  <2> HIDE DEF P
  <2> QED BY <1>3, <1>4, SetGrows
<1> QED BY <1>5

\* Each factor divides the product.
LEMMA ProductIsDivided ==
  ASSUME NEW n \in Nat
  PROVE  /\ ProductSet(1 .. n) \in Nat \ {0}
         /\ \A k \in 1 .. n : \E z \in Nat : ProductSet(1 .. n) = k * z
<1> DEFINE D == 1 .. n
           h == [p \in D \X Int |-> p[1] * p[2]]
           Eq(f) == f = [s \in SUBSET D |-> IF s = {} THEN 1
                           ELSE (CHOOSE x \in s : TRUE) * f[s \ {CHOOSE x \in s : TRUE}]]
           F == CHOOSE f : Eq(f)
<1>1. ProductSet(1 .. n) = F[D]
  BY DEF ProductSet, FoldSet, MapThenFoldSet
<1>2. \E f : Eq(f)
  <2>1. IsFiniteSet(D) /\ h \in [D \X Int -> Int] /\ 1 \in Int
    BY FS_Interval
  <2>2. PICK f : Folding(D, 1, h, f)
    <3>1. \A b \in Int : \E f : Folding(D, b, h, f)
      <4> HIDE DEF D, h
      <4> QED BY <2>1, FoldExists
    <3> QED BY <2>1, <3>1
  <2>3. ASSUME NEW s \in SUBSET D
        PROVE  f[s] = IF s = {} THEN 1
                      ELSE (CHOOSE x \in s : TRUE) * f[s \ {CHOOSE x \in s : TRUE}]
    <3>1. s # {} => Some(s) \in D /\ f[s \ {Some(s)}] \in Int
      BY <2>2 DEF Some, Folding
    <3> QED BY <2>2, <3>1 DEF Folding, Some
  <2>4. Eq(f)
    BY <2>2, <2>3 DEF Folding
  <2> QED BY <2>4
<1>3. Eq(F)
  <2> HIDE DEF Eq
  <2> QED BY <1>2
<1>4. \A s \in SUBSET D : F[s] = IF s = {} THEN 1 ELSE Some(s) * F[s \ {Some(s)}]
  <2> HIDE DEF F
  <2> QED BY <1>3 DEF Some
<1> HIDE DEF F, Eq
<1> DEFINE Divided(s) == F[s] \in Nat \ {0} /\ \A k \in s : \E z \in Nat : F[s] = k * z
           Bad == {m \in Nat : \E s \in SUBSET D : Cardinality(s) = m /\ ~Divided(s)}
<1>5. \A s \in SUBSET D : IsFiniteSet(s) /\ Cardinality(s) \in Nat
  <2>1. IsFiniteSet(D)
    BY FS_Interval
  <2> HIDE DEF D
  <2> QED BY <2>1, FS_Subset, FS_CardinalityType
<1>6. ASSUME Bad # {} PROVE FALSE
  <2>1. PICK m \in Bad : \A k \in Bad : m <= k
    <3>1. Bad \subseteq Nat
      OBVIOUS
    <3> HIDE DEF Bad
    <3> QED BY <1>6, <3>1, FirstOf
  <2>2. PICK s \in SUBSET D : Cardinality(s) = m /\ ~Divided(s)
    BY <2>1
  <2>3. CASE s = {}
    BY <1>4, <2>2, <2>3
  <2>4. CASE s # {}
    <3>1. PICK c \in s : c = Some(s) /\ F[s] = c * F[s \ {c}]
      BY <1>4, <2>4 DEF Some
    <3>2. /\ s \ {c} \in SUBSET D /\ Cardinality(s \ {c}) = m - 1
          /\ Cardinality(s \ {c}) \in Nat
      BY <1>5, <2>2, <3>1, FS_RemoveElement
    <3>3. m - 1 \notin Bad
      <4>1. m \in Nat /\ ~(m <= m - 1)
        BY <2>1
      <4> HIDE DEF Bad
      <4> QED BY <2>1, <4>1
    <3>4. Divided(s \ {c})
      BY <3>2, <3>3
    <3>5. PICK p \in Nat \ {0} : p = F[s \ {c}]
      BY <3>4
    <3>6. c \in Nat \ {0} /\ c * p \in Nat \ {0} /\ F[s] = c * p
      <4>1. c \in Nat \ {0} /\ F[s] = c * p
        BY <3>1, <3>5
      <4>2. c * p \in Nat \ {0}
        BY <4>1
      <4> QED BY <4>1, <4>2
    <3>7. ASSUME NEW k \in s PROVE \E z \in Nat : F[s] = k * z
      <4>1. CASE k = c
        BY <3>5, <3>6, <4>1
      <4>2. CASE k # c
        <5>1. PICK z \in Nat : p = k * z
          BY <3>4, <3>5, <4>2
        <5>2. k \in Nat /\ c * z \in Nat
          BY <3>6
        <5>3. F[s] = k * (c * z)
          BY <3>6, <5>1, <5>2
        <5> QED BY <5>2, <5>3
      <4> QED BY <4>1, <4>2
    <3> QED BY <2>2, <3>6, <3>7
  <2> QED BY <2>3, <2>4
<1>7. Divided(D)
  <2>1. D \in SUBSET D /\ Cardinality(D) \in Nat
    BY <1>5
  <2> QED BY <1>6, <2>1
<1> QED BY <1>1, <1>7

LEMMA Quotient ==
  ASSUME NEW k \in Nat \ {0}, NEW z \in Nat
  PROVE  (k * z) \div k = z
OBVIOUS

-----------------------------------------------------------------------------
(* The rounds of the runoff                                                *)

\* The ballots of a runoff among candidates.
Castable(b, candidates) ==
    /\ IsFiniteSet(candidates) /\ IsFiniteSet(DOMAIN b)
    /\ \A v \in DOMAIN b :
        /\ b[v].weight \in Nat \ {0}
        /\ \E n \in Nat : DOMAIN b[v].sections = 1 .. n
        /\ \A j \in DOMAIN b[v].sections : b[v].sections[j] \subseteq candidates

ScoresOK ==
    /\ Castable(ballots, DOMAIN seat)
    /\ seat \in [DOMAIN seat -> Nat] /\ score \in [DOMAIN seat -> Nat] /\ one \in Nat \ {0}
    /\ \A c \in DOMAIN seat : score[c] <= one

LEMMA LeftTypes ==
  ASSUME ScoresOK
  PROVE  /\ Left \subseteq Unseated /\ Unseated \subseteq DOMAIN seat
         /\ IsFiniteSet(Left) /\ IsFiniteSet(Unseated)
<1>1. Left \subseteq Unseated /\ Unseated \subseteq DOMAIN seat /\ IsFiniteSet(DOMAIN seat)
  BY DEF Left, Unseated, ScoresOK, Castable
<1> QED BY <1>1, FS_Subset

\* The members whose ballots put the candidates of G first, and their weight.
AdvocatesOf(b, G) ==
    {v \in DOMAIN b :
        \E j \in DOMAIN b[v].sections : UNION {b[v].sections[k] : k \in 1 .. j} = G}

Weights(b) == [v \in DOMAIN b |-> b[v].weight]
All(b) == Total(Weights(b), DOMAIN b)
Part(b, G) == Total(Weights(b), AdvocatesOf(b, G))

LEMMA MatchesLeft ==
  ASSUME ScoresOK, NEW v \in DOMAIN ballots
  PROVE  Matches(ballots[v]) \subseteq Left
BY DEF Matches

\* As long as candidates of their group are left, advocates count for them only.
LEMMA AdvocatesMatch ==
  ASSUME ScoresOK, NEW G, G \cap Left # {}, NEW v \in AdvocatesOf(ballots, G)
  PROVE  Matches(ballots[v]) # {} /\ Matches(ballots[v]) \subseteq G
<1> DEFINE sections == ballots[v].sections
           some == {j \in DOMAIN sections : sections[j] \cap Left # {}}
<1>1. PICK n \in Nat : DOMAIN sections = 1 .. n
  BY DEF AdvocatesOf, ScoresOK, Castable
<1>2. PICK j \in DOMAIN sections : UNION {sections[k] : k \in 1 .. j} = G
  BY DEF AdvocatesOf
<1>3. PICK k \in 1 .. j : sections[k] \cap Left # {}
  BY <1>2
<1>4. k \in some /\ some \subseteq Nat
  BY <1>1, <1>2, <1>3
<1>5. PICK m \in some : \A i \in some : m <= i
  <2> HIDE DEF some
  <2> QED BY <1>4, FirstOf
<1>6. Min(some) \in some /\ \A i \in some : Min(some) <= i
  <2> HIDE DEF some
  <2> QED BY <1>5 DEF Min
<1>7. PICK i \in some : i = Min(some)
  BY <1>6
<1>8. i \in 1 .. j
  <2>1. i <= k
    <3> HIDE DEF some
    <3> QED BY <1>4, <1>6, <1>7
  <2> QED BY <1>1, <1>2, <1>3, <1>7, <2>1
<1>9. sections[i] \subseteq G
  BY <1>2, <1>8
<1>10. Matches(ballots[v]) = sections[i] \cap Left
  BY <1>4, <1>7 DEF Matches
<1>11. sections[i] \cap Left # {}
  BY <1>7
<1> QED BY <1>9, <1>10, <1>11

\* What a ballot gives to each of its matches; together they get its weight, in
\* units of which a whole one has as many as Whole.
Whole == ProductSet(1 .. Cardinality(Left))

LEMMA SharesAddUp ==
  ASSUME ScoresOK, NEW v \in DOMAIN ballots, Matches(ballots[v]) # {}
  PROVE  /\ Share(ballots[v]) \in Nat
         /\ Share(ballots[v]) * Cardinality(Matches(ballots[v])) = ballots[v].weight * Whole
<1>1. PICK n \in Nat : n = Cardinality(Left)
  BY LeftTypes, FS_CardinalityType
<1>2. PICK k \in Nat : k = Cardinality(Matches(ballots[v]))
  BY LeftTypes, MatchesLeft, FS_Subset, FS_CardinalityType
<1>3. k \in 1 .. n
  <2>1. IsFiniteSet(Left) /\ Matches(ballots[v]) \subseteq Left
    BY LeftTypes, MatchesLeft
  <2>2. IsFiniteSet(Matches(ballots[v])) /\ k <= n
    BY <1>1, <1>2, <2>1, FS_Subset
  <2>3. k # 0
    BY <1>2, <2>2, FS_EmptySet
  <2> QED BY <2>2, <2>3
<1>4. PICK z \in Nat : ProductSet(1 .. n) = k * z
  BY <1>3, ProductIsDivided
<1>5. PICK w \in Nat : w = ballots[v].weight
  BY DEF ScoresOK, Castable
<1>6. Whole = k * z /\ (k * z) \div k = z
  BY <1>1, <1>3, <1>4, Quotient DEF Whole
<1>7. Share(ballots[v]) = w * z
  BY <1>2, <1>5, <1>6 DEF Share, Whole
<1>8. w * z \in Nat /\ (w * z) * k = w * (k * z)
  OBVIOUS
<1> QED BY <1>2, <1>5, <1>6, <1>7, <1>8

Gives == [v \in DOMAIN ballots |-> IF Matches(ballots[v]) = {} THEN 0 ELSE Share(ballots[v])]
MatchesOf == [v \in DOMAIN ballots |-> Matches(ballots[v])]

LEMMA GivesType ==
  ASSUME ScoresOK
  PROVE  /\ IsFiniteSet(DOMAIN ballots) /\ Gives \in [DOMAIN ballots -> Nat]
         /\ Gives \in [DOMAIN ballots -> Int]
         /\ MatchesOf \in [DOMAIN ballots -> SUBSET Left]
         /\ Weights(ballots) \in [DOMAIN ballots -> Int]
<1>1. IsFiniteSet(DOMAIN ballots)
  BY DEF ScoresOK, Castable
<1>2. Gives \in [DOMAIN ballots -> Nat]
  BY SharesAddUp DEF Gives
<1>3. MatchesOf \in [DOMAIN ballots -> SUBSET Left]
  BY MatchesLeft DEF MatchesOf
<1>4. Weights(ballots) \in [DOMAIN ballots -> Int]
  BY DEF Weights, ScoresOK, Castable
<1>5. Gives \in [DOMAIN ballots -> Int]
  BY <1>2
<1> QED BY <1>1, <1>2, <1>3, <1>4, <1>5

LEMMA TotalIsNat ==
  ASSUME NEW D, IsFiniteSet(D), NEW w \in [D -> Nat], NEW S \in SUBSET D
  PROVE  Total(w, S) \in Nat
<1>1. w \in [D -> Int]
  OBVIOUS
<1>2. PICK z \in [D -> Int] : z = [x \in D |-> 0]
  <2> DEFINE zero == [x \in D |-> 0]
  <2>1. zero \in [D -> Int]
    OBVIOUS
  <2> QED BY <2>1
<1>3. \A x \in S : z[x] <= w[x]
  BY <1>2
<1>4. Total(z, S) <= Total(w, S)
  BY <1>1, <1>3, TotalMonotone
<1>5. 0 \in Int /\ \A x \in S : z[x] = 0
  BY <1>2
<1>6. Total(z, S) = 0 * Cardinality(S)
  BY <1>5, TotalOfEqual
<1>7. Cardinality(S) \in Nat /\ Total(w, S) \in Int
  BY <1>1, FS_Subset, FS_CardinalityType, TotalType
<1> QED BY <1>4, <1>6, <1>7

\* The sums of the model.
LEMMA SumOfShares ==
  ASSUME ScoresOK, NEW S \in SUBSET DOMAIN ballots, \A v \in S : Matches(ballots[v]) # {}
  PROVE  MapThenSumSet(LAMBDA v : Share(ballots[v]), S) = Total(Gives, S)
<1> DEFINE Eq(f) == f = [s \in SUBSET S |-> IF s = {} THEN 0
                           ELSE Share(ballots[CHOOSE x \in s : TRUE]) + f[s \ {CHOOSE x \in s : TRUE}]]
           F == CHOOSE f : Eq(f)
<1>1. MapThenSumSet(LAMBDA v : Share(ballots[v]), S) = F[S]
  BY DEF MapThenSumSet, MapThenFoldSet
<1>2. PICK w \in [DOMAIN ballots -> Int] : w = Gives
  BY GivesType
<1>3. \A v \in S : w[v] = Share(ballots[v])
  BY <1>2 DEF Gives
<1> DEFINE t == [s \in SUBSET S |-> Total(w, s)]
<1>4. \A s \in SUBSET S : s # {} => /\ Some(s) \in S /\ s \ {Some(s)} \in SUBSET S
                                    /\ w[Some(s)] = Share(ballots[Some(s)])
  BY <1>3 DEF Some
<1>5. Eq(t)
  <2>1. ASSUME NEW s \in SUBSET S
        PROVE  t[s] = IF s = {} THEN 0
                           ELSE Share(ballots[CHOOSE x \in s : TRUE]) + t[s \ {CHOOSE x \in s : TRUE}]
    <3>1. s \in SUBSET DOMAIN ballots
      OBVIOUS
    <3>2. Total(w, {}) = 0 /\ (s # {} => Total(w, s) = w[Some(s)] + Total(w, s \ {Some(s)}))
      BY <3>1, GivesType, TotalType
    <3> QED BY <1>4, <3>2 DEF Some
  <2> QED BY <2>1
<1>6. Eq(F)
  <2>1. \E f : Eq(f)
    BY <1>5
  <2> HIDE DEF Eq
  <2> QED BY <2>1
<1>7. \A s \in SUBSET S : F[s] = IF s = {} THEN 0 ELSE w[Some(s)] + F[s \ {Some(s)}]
  <2> HIDE DEF F
  <2> QED BY <1>4, <1>6 DEF Some
<1>8. F[S] = Total(w, S)
  <2> HIDE DEF F
  <2> QED BY <1>7, GivesType, TotalIsUnique
<1> QED BY <1>1, <1>2, <1>8

LEMMA SumOfWeights ==
  ASSUME NEW b, IsFiniteSet(DOMAIN b), \A v \in DOMAIN b : b[v].weight \in Int,
         NEW S \in SUBSET DOMAIN b
  PROVE  MapThenSumSet(LAMBDA v : b[v].weight, S) = Total(Weights(b), S)
<1> DEFINE Eq(f) == f = [s \in SUBSET S |-> IF s = {} THEN 0
                           ELSE b[CHOOSE x \in s : TRUE].weight + f[s \ {CHOOSE x \in s : TRUE}]]
           F == CHOOSE f : Eq(f)
<1>1. MapThenSumSet(LAMBDA v : b[v].weight, S) = F[S]
  BY DEF MapThenSumSet, MapThenFoldSet
<1>2. PICK w \in [DOMAIN b -> Int] : w = Weights(b)
  BY DEF Weights
<1>3. \A v \in S : w[v] = b[v].weight
  BY <1>2 DEF Weights
<1> DEFINE t == [s \in SUBSET S |-> Total(w, s)]
<1>4. \A s \in SUBSET S : s # {} => /\ Some(s) \in S /\ s \ {Some(s)} \in SUBSET S
                                    /\ w[Some(s)] = b[Some(s)].weight
  BY <1>3 DEF Some
<1>5. Eq(t)
  <2>1. ASSUME NEW s \in SUBSET S
        PROVE  t[s] = IF s = {} THEN 0
                           ELSE b[CHOOSE x \in s : TRUE].weight + t[s \ {CHOOSE x \in s : TRUE}]
    <3>1. s \in SUBSET DOMAIN b
      OBVIOUS
    <3>2. Total(w, {}) = 0 /\ (s # {} => Total(w, s) = w[Some(s)] + Total(w, s \ {Some(s)}))
      BY <3>1, TotalType
    <3> QED BY <1>4, <3>2 DEF Some
  <2> QED BY <2>1
<1>6. Eq(F)
  <2>1. \E f : Eq(f)
    BY <1>5
  <2> HIDE DEF Eq
  <2> QED BY <2>1
<1>7. \A s \in SUBSET S : F[s] = IF s = {} THEN 0 ELSE w[Some(s)] + F[s \ {Some(s)}]
  <2> HIDE DEF F
  <2> QED BY <1>4, <1>6 DEF Some
<1>8. F[S] = Total(w, S)
  <2> HIDE DEF F
  <2> QED BY <1>7, TotalIsUnique
<1> QED BY <1>1, <1>2, <1>8

\* What is outside of R does not count.
LEMMA TotalInside ==
  ASSUME NEW D, IsFiniteSet(D), NEW w \in [D -> Int], NEW S \in SUBSET D,
         NEW R \in SUBSET S, \A x \in S \ R : w[x] = 0
  PROVE  Total(w, S) = Total(w, R)
<1>1. PICK Q \in SUBSET D : Q = S \ R
  OBVIOUS
<1>2. R \in SUBSET D /\ R \cap Q = {} /\ R \cup Q = S /\ (\A x \in Q : w[x] = 0)
  BY <1>1
<1>3. Total(w, S) = Total(w, R) + Total(w, Q)
  <2>1. Total(w, R \cup Q) = Total(w, R) + Total(w, Q)
    BY <1>2, TotalOfTwo
  <2> QED BY <1>2, <2>1
<1>4. Total(w, Q) = 0
  <2>1. 0 \in Int
    OBVIOUS
  <2>2. Total(w, Q) = 0 * Cardinality(Q)
    BY <1>2, <2>1, TotalOfEqual
  <2>3. Cardinality(Q) \in Nat
    BY FS_Subset, FS_CardinalityType
  <2> QED BY <2>2, <2>3
<1>5. Total(w, R) \in Int
  BY <1>2, TotalType
<1> QED BY <1>3, <1>4, <1>5

LEMMA PartTypes ==
  ASSUME ScoresOK, NEW G
  PROVE  Part(ballots, G) \in Nat /\ All(ballots) - Part(ballots, G) \in Nat /\ Whole \in Nat
<1>1. Weights(ballots) \in [DOMAIN ballots -> Nat] /\ IsFiniteSet(DOMAIN ballots)
  BY DEF Weights, ScoresOK, Castable
<1>2. PICK A \in SUBSET DOMAIN ballots : A = AdvocatesOf(ballots, G)
  BY DEF AdvocatesOf
<1>3. PICK B \in SUBSET DOMAIN ballots : B = DOMAIN ballots \ A
  OBVIOUS
<1>4. Total(Weights(ballots), A) \in Nat /\ Total(Weights(ballots), B) \in Nat
  BY <1>1, TotalIsNat
<1>5. Total(Weights(ballots), A \cup B) = Total(Weights(ballots), A) + Total(Weights(ballots), B)
  <2>1. A \cap B = {} /\ Weights(ballots) \in [DOMAIN ballots -> Int]
    BY <1>1, <1>3
  <2> QED BY <1>1, <2>1, TotalOfTwo
<1>6. A \cup B = DOMAIN ballots
  BY <1>3
<1>7. All(ballots) = Total(Weights(ballots), A) + Total(Weights(ballots), B)
  BY <1>5, <1>6 DEF All
<1>8. Whole \in Nat
  <2>1. PICK n \in Nat : n = Cardinality(Left)
    BY LeftTypes, FS_CardinalityType
  <2> QED BY <2>1, ProductIsDivided DEF Whole
<1> QED BY <1>2, <1>4, <1>7, <1>8 DEF Part

\* The score of each candidate grows by what its voters give.
LEMMA StepTypes ==
  ASSUME ScoresOK
  PROVE  /\ ScorePerStep = [c \in Left |-> Total(Gives, {v \in DOMAIN ballots : c \in MatchesOf[v]})]
         /\ ScorePerStep \in [Left -> Nat]
<1>1. ASSUME NEW c \in Left
      PROVE  /\ MapThenSumSet(LAMBDA v : Share(ballots[v]),
                              {v \in DOMAIN ballots : c \in Matches(ballots[v])})
                  = Total(Gives, {v \in DOMAIN ballots : c \in MatchesOf[v]})
             /\ Total(Gives, {v \in DOMAIN ballots : c \in MatchesOf[v]}) \in Nat
  <2>1. PICK S \in SUBSET DOMAIN ballots : S = {v \in DOMAIN ballots : c \in Matches(ballots[v])}
    OBVIOUS
  <2>2. S = {v \in DOMAIN ballots : c \in MatchesOf[v]}
    BY <2>1 DEF MatchesOf
  <2>3. \A v \in S : Matches(ballots[v]) # {}
    BY <2>1
  <2>4. MapThenSumSet(LAMBDA v : Share(ballots[v]), S) = Total(Gives, S)
    BY <2>3, SumOfShares
  <2>5. Total(Gives, S) \in Nat
    BY GivesType, TotalIsNat
  <2> QED BY <2>1, <2>2, <2>4, <2>5
<1>2. ScorePerStep = [c \in Left |-> Total(Gives, {v \in DOMAIN ballots : c \in MatchesOf[v]})]
  BY <1>1 DEF ScorePerStep
<1> QED BY <1>1, <1>2

\* What each ballot adds to the scores of the candidates in X.
Adds(X) == [v \in DOMAIN ballots |-> Gives[v] * Cardinality(X \cap MatchesOf[v])]

LEMMA PaceOf ==
  ASSUME ScoresOK, NEW X \in SUBSET Left
  PROVE  /\ Adds(X) \in [DOMAIN ballots -> Nat]
         /\ Total(ScorePerStep, X) = Total(Adds(X), DOMAIN ballots)
         /\ \A v \in DOMAIN ballots :
              /\ Adds(X)[v] <= ballots[v].weight * Whole
              /\ X \cap Matches(ballots[v]) = {} => Adds(X)[v] = 0
              /\ Matches(ballots[v]) # {} /\ Matches(ballots[v]) \subseteq X
                   => Adds(X)[v] = ballots[v].weight * Whole
<1>1. Total(ScorePerStep, X) = Total(Adds(X), DOMAIN ballots)
  <2>1. PICK M \in [DOMAIN ballots -> SUBSET Left] : M = MatchesOf
    BY GivesType
  <2>2. PICK s \in [DOMAIN ballots -> Int] : s = Gives
    BY GivesType
  <2>3. PICK V : V = DOMAIN ballots /\ IsFiniteSet(V)
    BY GivesType
  <2>4. PICK C : C = Left /\ IsFiniteSet(C)
    BY LeftTypes
  <2>5. Total([c \in C |-> Total(s, {v \in V : c \in M[v]})], X)
          = Total([v \in V |-> s[v] * Cardinality(X \cap M[v])], V)
    BY <2>3, <2>4, TotalExchanged
  <2>6. ScorePerStep = [c \in C |-> Total(s, {v \in V : c \in M[v]})]
    BY <2>1, <2>2, <2>3, <2>4, StepTypes
  <2>7. Adds(X) = [v \in V |-> s[v] * Cardinality(X \cap M[v])]
    BY <2>1, <2>2, <2>3 DEF Adds
  <2> QED BY <2>3, <2>5, <2>6, <2>7
<1>2. ASSUME NEW v \in DOMAIN ballots
      PROVE  /\ Adds(X)[v] \in Nat
             /\ Adds(X)[v] <= ballots[v].weight * Whole
             /\ X \cap Matches(ballots[v]) = {} => Adds(X)[v] = 0
             /\ Matches(ballots[v]) # {} /\ Matches(ballots[v]) \subseteq X
                  => Adds(X)[v] = ballots[v].weight * Whole
  <2>1. PICK M \in SUBSET Left : M = Matches(ballots[v])
    BY MatchesLeft
  <2>2. IsFiniteSet(M) /\ IsFiniteSet(X \cap M)
    BY LeftTypes, FS_Subset
  <2>3. PICK m \in Nat : m = Cardinality(M)
    BY <2>2, FS_CardinalityType
  <2>4. PICK k \in Nat : k = Cardinality(X \cap M)
    BY <2>2, FS_CardinalityType
  <2>5. k <= m
    <3>1. X \cap M \subseteq M
      OBVIOUS
    <3> QED BY <2>2, <2>3, <2>4, <3>1, FS_Subset
  <2>6. PICK g \in Nat : g = Gives[v]
    BY GivesType
  <2>7. PICK w \in Nat : w = ballots[v].weight * Whole
    <3>1. ballots[v].weight \in Nat /\ Whole \in Nat
      BY PartTypes DEF ScoresOK, Castable
    <3> QED BY <3>1
  <2>8. Adds(X)[v] = g * k
    BY <2>1, <2>4, <2>6 DEF Adds, MatchesOf
  <2>9. M # {} => g * m = w
    BY <2>1, <2>3, <2>6, <2>7, SharesAddUp DEF Gives
  <2>10. M = {} => g = 0
    BY <2>1, <2>6 DEF Gives
  <2>11. g * k \in Nat /\ g * k <= g * m
    BY <2>5
  <2>12. g * k <= w
    BY <2>9, <2>10, <2>11
  <2>13. X \cap M = {} => k = 0
    BY <2>4, FS_EmptySet
  <2>14. M # {} /\ M \subseteq X => k = m /\ g * m = w
    <3>1. M \subseteq X => X \cap M = M
      OBVIOUS
    <3> QED BY <2>3, <2>4, <2>9, <3>1
  <2>15. g * 0 = 0
    OBVIOUS
  <2> QED BY <2>1, <2>7, <2>8, <2>11, <2>12, <2>13, <2>14, <2>15
<1>3. Adds(X) \in [DOMAIN ballots -> Nat]
  BY <1>2 DEF Adds
<1> QED BY <1>1, <1>2, <1>3

\* In each turn a group gains at least what its advocates have, and the others
\* do not gain more than what the rest has.
LEMMA GroupsGain ==
  ASSUME ScoresOK, NEW G, G \cap Left # {}
  PROVE  /\ Part(ballots, G) * Whole <= Total(ScorePerStep, G \cap Left)
         /\ Total(ScorePerStep, Left \ G) <= (All(ballots) - Part(ballots, G)) * Whole
<1>1. PICK V : V = DOMAIN ballots /\ IsFiniteSet(V)
  BY GivesType
<1>2. PICK A \in SUBSET V : A = AdvocatesOf(ballots, G)
  BY <1>1 DEF AdvocatesOf
<1>3. PICK B \in SUBSET V : B = V \ A
  OBVIOUS
<1>4. PICK w \in [V -> Int] : w = Weights(ballots)
  BY <1>1, GivesType
<1>5. \A v \in V : w[v] = ballots[v].weight /\ w[v] \in Nat
  BY <1>1, <1>4 DEF Weights, ScoresOK, Castable
<1>6. PICK whole \in Nat : whole = Whole
  BY PartTypes
<1>7. PICK ww \in [V -> Int] : \A v \in V : ww[v] = whole * w[v]
  <2> DEFINE f == [v \in V |-> whole * w[v]]
  <2>1. f \in [V -> Int]
    OBVIOUS
  <2> QED BY <2>1
<1>8. \A S \in SUBSET V : Total(ww, S) = whole * Total(w, S)
  <2>1. ASSUME NEW S \in SUBSET V PROVE Total(ww, S) = whole * Total(w, S)
    <3>1. \A v \in S : ww[v] = whole * w[v]
      BY <1>7
    <3> QED BY <1>1, <3>1, TotalScaled
  <2> QED BY <2>1
<1>9. Part(ballots, G) = Total(w, A) /\ All(ballots) = Total(w, V)
  BY <1>1, <1>2, <1>4 DEF Part, All
<1>10. Total(w, A) \in Int /\ Total(w, B) \in Int
  BY <1>1, TotalType
<1>11. Total(w, V) = Total(w, A) + Total(w, B)
  <2>1. A \cap B = {} /\ A \cup B = V
    BY <1>3
  <2>2. Total(w, A \cup B) = Total(w, A) + Total(w, B)
    BY <1>1, <2>1, TotalOfTwo
  <2> QED BY <2>1, <2>2
<1>12. \A v \in V : ballots[v].weight * Whole = ww[v] /\ ww[v] \in Nat
  <2>1. ASSUME NEW v \in V PROVE ballots[v].weight * Whole = ww[v] /\ ww[v] \in Nat
    <3>1. PICK n \in Nat : n = w[v]
      BY <1>5
    <3>2. ww[v] = whole * n /\ ballots[v].weight * Whole = n * whole
      BY <1>5, <1>6, <1>7, <3>1
    <3>3. whole * n = n * whole /\ whole * n \in Nat
      OBVIOUS
    <3> QED BY <3>2, <3>3
  <2> QED BY <2>1
<1>13. Part(ballots, G) * Whole <= Total(ScorePerStep, G \cap Left)
  <2>1. PICK X \in SUBSET Left : X = G \cap Left
    OBVIOUS
  <2>2. PICK a \in [V -> Int] : a = Adds(X)
    <3>1. Adds(X) \in [V -> Nat]
      BY <1>1, PaceOf
    <3> QED BY <3>1
  <2>3. PICK b \in [V -> Int] : \A v \in V : b[v] = IF v \in A THEN ww[v] ELSE 0
    <3> DEFINE f == [v \in V |-> IF v \in A THEN ww[v] ELSE 0]
    <3>1. f \in [V -> Int]
      OBVIOUS
    <3> QED BY <3>1
  <2>4. \A v \in V : b[v] <= a[v]
    <3>1. ASSUME NEW v \in V PROVE b[v] <= a[v]
      <4>1. CASE v \in A
        <5>1. Matches(ballots[v]) # {} /\ Matches(ballots[v]) \subseteq X
          BY <1>1, <1>2, <2>1, <4>1, AdvocatesMatch, MatchesLeft
        <5>2. a[v] = ww[v]
          BY <1>1, <1>12, <2>2, <5>1, PaceOf
        <5> QED BY <2>3, <4>1, <5>2
      <4>2. CASE v \notin A
        <5>1. a[v] \in Nat
          BY <1>1, <2>2, PaceOf
        <5> QED BY <2>3, <4>2, <5>1
      <4> QED BY <4>1, <4>2
    <3> QED BY <3>1
  <2>5. V \in SUBSET V
    OBVIOUS
  <2>6. Total(b, V) <= Total(a, V)
    BY <1>1, <2>4, <2>5, TotalMonotone
  <2>7. Total(b, V) = Total(b, A)
    <3>1. \A v \in V \ A : b[v] = 0
      BY <2>3
    <3> QED BY <1>1, <2>5, <3>1, TotalInside
  <2>8. Total(b, A) = Total(ww, A)
    <3>1. \A v \in A : b[v] = ww[v]
      BY <2>3
    <3>2. A \subseteq V
      OBVIOUS
    <3> QED BY <1>1, <3>1, <3>2, TotalAgrees
  <2>9. Total(ScorePerStep, X) = Total(a, V)
    BY <1>1, <2>2, PaceOf
  <2>10. whole * Total(w, A) = Total(w, A) * whole
    BY <1>10
  <2> QED BY <1>6, <1>8, <1>9, <2>1, <2>6, <2>7, <2>8, <2>9, <2>10
<1>14. Total(ScorePerStep, Left \ G) <= (All(ballots) - Part(ballots, G)) * Whole
  <2>1. PICK X \in SUBSET Left : X = Left \ G
    OBVIOUS
  <2>2. PICK a \in [V -> Int] : a = Adds(X)
    <3>1. Adds(X) \in [V -> Nat]
      BY <1>1, PaceOf
    <3> QED BY <3>1
  <2>3. ASSUME NEW v \in A PROVE a[v] = 0
    <3>1. v \in V /\ X \cap Matches(ballots[v]) = {}
      BY <1>1, <1>2, <2>1, <2>3, AdvocatesMatch
    <3> QED BY <1>1, <2>2, <3>1, PaceOf
  <2>4. \A v \in B : a[v] <= ww[v]
    <3>1. ASSUME NEW v \in B PROVE a[v] <= ww[v]
      <4>1. v \in DOMAIN ballots
        BY <1>1
      <4>2. Adds(X)[v] <= ballots[v].weight * Whole
        BY <4>1, PaceOf
      <4> QED BY <1>12, <2>2, <4>2
    <3> QED BY <3>1
  <2>5. Total(a, B) <= Total(ww, B)
    BY <1>1, <2>4, TotalMonotone
  <2>6. Total(a, V) = Total(a, B)
    <3>1. \A v \in V \ B : a[v] = 0
      BY <1>3, <2>3
    <3>2. V \in SUBSET V
      OBVIOUS
    <3> QED BY <1>1, <3>1, <3>2, TotalInside
  <2>7. Total(ScorePerStep, X) = Total(a, V)
    BY <1>1, <2>2, PaceOf
  <2>8. All(ballots) - Part(ballots, G) = Total(w, B)
    BY <1>9, <1>10, <1>11
  <2>9. whole * Total(w, B) = Total(w, B) * whole
    BY <1>10
  <2> QED BY <1>6, <1>8, <2>1, <2>5, <2>6, <2>7, <2>8, <2>9
<1> QED BY <1>13, <1>14

-----------------------------------------------------------------------------
(* Proportionality                                                         *)

\* A group that is still in this round has not fallen behind: its score is not
\* less, in proportion to the weight behind it, than that of the others.  When
\* all that are left fill their scores together, and one of them stays only since
\* the loop ends with one, it may lose a part of its score; then it is known that
\* the group has no right to the seat.
Entitled(G, n) == Part(ballots, G) * n > All(ballots) * Cardinality(G)

KeepsUp(G) ==
    Part(ballots, G) * Total(score, Unseated \ G)
        <= (All(ballots) - Part(ballots, G)) * Total(score, Unseated \cap G)

SeatsAreFair ==
    /\ \A G \in SUBSET DOMAIN seat :
         G \cap Left # {} => KeepsUp(G) \/ ~Entitled(G, Cardinality(Unseated))
    /\ \A G \in SUBSET DOMAIN seat : \A c \in G : seat[c] # 0 => ~Entitled(G, seat[c])

LEMMA Multiplied ==
  ASSUME NEW k \in Nat, NEW x \in Int, NEW y \in Int, x <= y
  PROVE  k * x <= k * y
OBVIOUS

LEMMA Divided ==
  ASSUME NEW k \in Nat \ {0}, NEW x \in Int, NEW y \in Int, k * x <= k * y
  PROVE  x <= y
OBVIOUS

LEMMA MoreThanShare ==
  ASSUME NEW p \in Nat, NEW q \in Nat, NEW w \in Nat, NEW k \in Nat, NEW n \in Nat,
         NEW s \in Int, NEW t \in Int, p * s <= q * t,
         NEW x \in Int, NEW y \in Int, x <= q * w, p * w <= y
  PROVE  p * (k * s + n * x) <= q * (k * t + n * y)
<1>1. p * x <= q * y
  <2>1. p * x <= p * (q * w) /\ q * (p * w) <= q * y
    BY Multiplied
  <2>2. p * (q * w) = q * (p * w)
    OBVIOUS
  <2>3. PICK a \in Int : a = p * x
    OBVIOUS
  <2>4. PICK b \in Int : b = q * y
    OBVIOUS
  <2>5. PICK c \in Int : c = p * (q * w)
    OBVIOUS
  <2> QED BY <2>1, <2>2, <2>3, <2>4, <2>5
<1>2. k * (p * s) <= k * (q * t) /\ n * (p * x) <= n * (q * y)
  BY <1>1, Multiplied
<1>3. p * (k * s + n * x) = k * (p * s) + n * (p * x)
  OBVIOUS
<1>4. q * (k * t + n * y) = k * (q * t) + n * (q * y)
  OBVIOUS
<1>5. PICK a \in Int : a = k * (p * s)
  OBVIOUS
<1>6. PICK b \in Int : b = k * (q * t)
  OBVIOUS
<1>7. PICK c \in Int : c = n * (p * x)
  OBVIOUS
<1>8. PICK d \in Int : d = n * (q * y)
  OBVIOUS
<1> QED BY <1>2, <1>3, <1>4, <1>5, <1>6, <1>7, <1>8

\* When all of U have the full score, except perhaps some of G, what keeps up is
\* not entitled.
LEMMA FullIsFair ==
  ASSUME NEW D, IsFiniteSet(D), NEW v \in [D -> Int], NEW k \in Nat \ {0},
         NEW U \in SUBSET D, NEW G \in SUBSET D, NEW p \in Nat, NEW q \in Nat,
         \A c \in U \ G : v[c] = k, \A c \in U \cap G : v[c] <= k,
         p * Total(v, U \ G) <= q * Total(v, U \cap G)
  PROVE  p * Cardinality(U) <= (p + q) * Cardinality(G)
<1>1. PICK X \in SUBSET D : X = U \ G
  OBVIOUS
<1>2. PICK Y \in SUBSET D : Y = U \cap G
  OBVIOUS
<1>3. IsFiniteSet(X) /\ IsFiniteSet(Y) /\ IsFiniteSet(G)
  BY FS_Subset
<1>4. PICK x \in Nat : x = Cardinality(X)
  BY <1>3, FS_CardinalityType
<1>5. PICK y \in Nat : y = Cardinality(Y)
  BY <1>3, FS_CardinalityType
<1>6. PICK g \in Nat : g = Cardinality(G)
  BY <1>3, FS_CardinalityType
<1>7. y <= g
  <2>1. Y \subseteq G
    BY <1>2
  <2> QED BY <1>3, <1>5, <1>6, <2>1, FS_Subset
<1>8. Cardinality(U) = x + y
  <2>1. X \cup Y = U /\ X \cap Y = {}
    BY <1>1, <1>2
  <2>2. Cardinality(X \cap Y) = 0
    BY <2>1, FS_EmptySet
  <2>3. Cardinality(X \cup Y) = Cardinality(X) + Cardinality(Y) - Cardinality(X \cap Y)
    BY <1>3, FS_Union
  <2>4. Cardinality(U) = x + y - Cardinality(X \cap Y)
    BY <1>4, <1>5, <2>1, <2>3
  <2> QED BY <2>2, <2>4
<1>9. Total(v, X) = k * x
  <2>1. \A c \in X : v[c] = k
    BY <1>1
  <2> QED BY <1>4, <2>1, TotalOfEqual
<1>10. Total(v, Y) <= k * y
  <2>1. PICK w \in [D -> Int] : \A c \in D : w[c] = k
    <3> DEFINE f == [c \in D |-> k]
    <3>1. f \in [D -> Int]
      OBVIOUS
    <3> QED BY <3>1
  <2>2. \A c \in Y : v[c] <= w[c]
    BY <1>2, <2>1
  <2>3. Total(v, Y) <= Total(w, Y)
    BY <2>2, TotalMonotone
  <2>4. \A c \in Y : w[c] = k
    BY <2>1
  <2>5. Total(w, Y) = k * Cardinality(Y)
    BY <2>4, TotalOfEqual
  <2> QED BY <1>5, <2>3, <2>5
<1>11. PICK t \in Int : t = Total(v, Y)
  BY TotalType
<1>12. p * (k * x) <= q * t /\ t <= k * y
  BY <1>1, <1>2, <1>9, <1>10, <1>11
<1>13. q * t <= q * (k * y)
  BY <1>12, Multiplied
<1>14. k * (p * x) <= k * (q * y)
  <2>1. p * (k * x) = k * (p * x) /\ q * (k * y) = k * (q * y)
    OBVIOUS
  <2>2. PICK a \in Int : a = p * (k * x)
    OBVIOUS
  <2>3. PICK b \in Int : b = q * t
    OBVIOUS
  <2>4. PICK c \in Int : c = q * (k * y)
    OBVIOUS
  <2> QED BY <1>12, <1>13, <2>1, <2>2, <2>3, <2>4
<1>15. p * x <= q * y
  BY <1>14, Divided
<1>16. p * (x + y) <= (p + q) * y
  BY <1>15
<1>17. (p + q) * y <= (p + q) * g
  BY <1>7, Multiplied
<1>18. p * (x + y) <= (p + q) * g
  <2>1. PICK a \in Int : a = p * (x + y)
    OBVIOUS
  <2>2. PICK b \in Int : b = (p + q) * y
    OBVIOUS
  <2>3. PICK c \in Int : c = (p + q) * g
    OBVIOUS
  <2> QED BY <1>16, <1>17, <2>1, <2>2, <2>3
<1> QED BY <1>6, <1>8, <1>18

\* One turn of the loop, in numbers: score c grows by pace[c], which is nothing
\* for who is not left, and of those that are full one may stay.
LEMMA TurnInNumbers ==
  ASSUME ScoresOK, Turn
  PROVE  \E k \in Nat \ {0}, n \in Nat :
           \E pace \in [DOMAIN seat -> Nat], grown \in [DOMAIN seat -> Nat] :
             /\ one' = one * k /\ seat' = seat /\ ballots' = ballots
             /\ \A c \in DOMAIN seat : /\ pace[c] = IF c \in Left THEN ScorePerStep[c] ELSE 0
                                       /\ grown[c] = k * score[c] + n * pace[c]
                                       /\ grown[c] <= one'
             /\ score' \in [DOMAIN seat -> Nat]
             /\ \/ score' = grown
                \/ \E last \in Left :
                     /\ \A c \in DOMAIN seat \ {last} : score'[c] = grown[c]
                     /\ score'[last] <= grown[last]
                     /\ \A c \in Left : grown[c] = one'
<1>1. PICK step : step = ScorePerStep /\ step \in [Left -> Nat]
  BY StepTypes
<1>2. PICK f \in FirstFull(step) :
        /\ score' = [c \in DOMAIN seat |->
                      IF c \in Left /\ ~(FirstFull(step) = Left /\ c = Max(Left))
                        THEN score[c] * step[f] + Need(f) * step[c]
                        ELSE score[c] * step[f]]
        /\ one' = one * step[f] /\ ballots' = ballots /\ seat' = seat
  BY <1>1 DEF Turn
<1>3. Left \subseteq DOMAIN seat /\ f \in Left /\ f \in Moving(step)
  BY <1>2, LeftTypes DEF FirstFull, Moving
<1>4. PICK k \in Nat \ {0} : k = step[f]
  BY <1>1, <1>3 DEF Moving
<1>5. PICK n \in Nat : n = Need(f)
  BY <1>3 DEF Need, ScoresOK
<1>6. PICK u \in Nat \ {0} : u = one
  BY DEF ScoresOK
<1>7. PICK pace \in [DOMAIN seat -> Nat] :
         \A c \in DOMAIN seat : pace[c] = IF c \in Left THEN step[c] ELSE 0
  <2> DEFINE g == [c \in DOMAIN seat |-> IF c \in Left THEN step[c] ELSE 0]
  <2>1. g \in [DOMAIN seat -> Nat]
    BY <1>1
  <2> QED BY <2>1
<1>8. PICK s \in [DOMAIN seat -> Nat] : s = score /\ \A c \in DOMAIN seat : s[c] <= u
  BY <1>6 DEF ScoresOK
<1>9. PICK grown \in [DOMAIN seat -> Nat] :
         \A c \in DOMAIN seat : grown[c] = k * s[c] + n * pace[c]
  <2> DEFINE g == [c \in DOMAIN seat |-> k * s[c] + n * pace[c]]
  <2>1. g \in [DOMAIN seat -> Nat]
    <3>1. ASSUME NEW c \in DOMAIN seat PROVE k * s[c] + n * pace[c] \in Nat
      <4>1. PICK a \in Nat : a = s[c]
        OBVIOUS
      <4>2. PICK b \in Nat : b = pace[c]
        OBVIOUS
      <4>3. k * a + n * b \in Nat
        OBVIOUS
      <4> QED BY <4>1, <4>2, <4>3
    <3> QED BY <3>1
  <2> QED BY <2>1
<1>10. n = u - s[f] /\ f \in DOMAIN seat
  BY <1>3, <1>5, <1>6, <1>8 DEF Need
<1>11. one' = u * k /\ u * k = k * u /\ k * u \in Nat
  BY <1>2, <1>4, <1>6
\* Nobody has more than a whole one.
<1>12. ASSUME NEW c \in DOMAIN seat PROVE grown[c] <= k * u
  <2>1. PICK a \in Nat : a = s[c] /\ a <= u
    BY <1>8
  <2>2. PICK b \in Nat : b = pace[c]
    OBVIOUS
  <2>3. n * b <= (u - a) * k
    <3>1. CASE b = 0
      <4>1. (u - a) \in Nat
        BY <2>1
      <4>2. (u - a) * k \in Nat /\ n * 0 = 0
        BY <4>1
      <4> QED BY <3>1, <4>2
    <3>2. CASE b # 0
      <4>1. c \in Left /\ b = step[c]
        BY <1>7, <2>2, <3>2
      <4>2. c \in Moving(step)
        BY <3>2, <4>1 DEF Moving
      <4>3. Need(f) * step[c] <= Need(c) * step[f]
        BY <1>2, <4>2 DEF FirstFull
      <4>4. Need(c) = u - a
        BY <1>6, <1>8, <2>1 DEF Need
      <4> QED BY <1>4, <1>5, <4>1, <4>3, <4>4
    <3> QED BY <3>1, <3>2
  <2>4. k * a + (u - a) * k = k * u
    BY <2>1
  <2>5. PICK x \in Int : x = k * a
    OBVIOUS
  <2>6. PICK y \in Int : y = n * b
    OBVIOUS
  <2>7. PICK z \in Int : z = (u - a) * k
    BY <2>1
  <2>8. grown[c] = x + y
    BY <1>9, <2>1, <2>2, <2>5, <2>6
  <2> QED BY <2>3, <2>4, <2>5, <2>6, <2>7, <2>8
\* If all that are left are the first to be full, all of them are full.
<1>13. ASSUME FirstFull(step) = Left, NEW c \in Left PROVE grown[c] = k * u
  <2>0. c \in DOMAIN seat
    BY <1>3
  <2>1. PICK a \in Nat : a = s[c] /\ a <= u
    BY <1>8, <2>0
  <2>2. PICK b \in Nat : b = pace[c] /\ b = step[c]
    BY <1>7, <2>0
  <2>3. c \in FirstFull(step) /\ c \in Moving(step)
    BY <1>13 DEF FirstFull
  <2>4. Need(f) * step[c] <= Need(c) * step[f] /\ Need(c) * step[f] <= Need(f) * step[c]
    BY <1>2, <1>3, <2>3 DEF FirstFull
  <2>5. Need(c) = u - a
    BY <1>6, <1>8, <2>0, <2>1 DEF Need
  <2>6. PICK y \in Int : y = n * b
    OBVIOUS
  <2>7. PICK z \in Int : z = (u - a) * k
    BY <2>1
  <2>8. y = z
    BY <1>4, <1>5, <2>2, <2>4, <2>5, <2>6, <2>7
  <2>9. k * a + (u - a) * k = k * u
    BY <2>1
  <2>10. PICK x \in Int : x = k * a
    OBVIOUS
  <2>11. grown[c] = x + y
    BY <1>9, <2>0, <2>1, <2>2, <2>6, <2>10
  <2> QED BY <2>7, <2>8, <2>9, <2>10, <2>11
<1>14. ASSUME NEW c \in DOMAIN seat, c \in Left, ~(FirstFull(step) = Left /\ c = Max(Left))
       PROVE  score'[c] = grown[c]
  <2>1. score'[c] = score[c] * step[f] + Need(f) * step[c]
    BY <1>2, <1>14
  <2>2. PICK a \in Nat : a = s[c] /\ a = score[c]
    BY <1>8
  <2>3. PICK b \in Nat : b = pace[c] /\ b = step[c]
    BY <1>7, <1>14
  <2>4. a * k = k * a
    OBVIOUS
  <2> QED BY <1>4, <1>5, <1>9, <2>1, <2>2, <2>3, <2>4
<1>15. ASSUME NEW c \in DOMAIN seat, c \notin Left \/ (FirstFull(step) = Left /\ c = Max(Left))
       PROVE  /\ score'[c] \in Nat /\ score'[c] <= grown[c]
              /\ c \notin Left => score'[c] = grown[c]
  <2>1. score'[c] = score[c] * step[f]
    BY <1>2, <1>15
  <2>2. PICK a \in Nat : a = s[c] /\ a = score[c]
    BY <1>8
  <2>3. PICK b \in Nat : b = pace[c]
    OBVIOUS
  <2>4. a * k = k * a /\ k * a \in Nat /\ n * b \in Nat
    OBVIOUS
  <2>5. score'[c] = k * a
    BY <1>4, <2>1, <2>2, <2>4
  <2>6. grown[c] = k * a + n * b
    BY <1>9, <2>2, <2>3
  <2>7. c \notin Left => n * b = 0
    BY <1>7, <2>3
  <2> QED BY <2>4, <2>5, <2>6, <2>7
<1>16. score' \in [DOMAIN seat -> Nat]
  <2>1. ASSUME NEW c \in DOMAIN seat PROVE score'[c] \in Nat
    BY <1>14, <1>15
  <2>2. score' = [c \in DOMAIN seat |-> score'[c]]
    BY <1>2
  <2> QED BY <2>1, <2>2
<1>17. \/ score' = grown
       \/ \E last \in Left :
            /\ \A c \in DOMAIN seat \ {last} : score'[c] = grown[c]
            /\ score'[last] <= grown[last]
            /\ \A c \in Left : grown[c] = one'
  <2>1. CASE FirstFull(step) = Left /\ Max(Left) \in Left
    <3>1. PICK last \in Left : last = Max(Left)
      BY <2>1
    <3>2. \A c \in DOMAIN seat \ {last} : score'[c] = grown[c]
      BY <1>14, <1>15, <3>1
    <3>3. score'[last] <= grown[last]
      BY <1>3, <1>15, <2>1, <3>1
    <3>4. \A c \in Left : grown[c] = one'
      BY <1>11, <1>13, <2>1
    <3> QED BY <3>2, <3>3, <3>4
  <2>2. CASE ~(FirstFull(step) = Left /\ Max(Left) \in Left)
    <3>1. \A c \in DOMAIN seat : score'[c] = grown[c]
      BY <1>14, <1>15, <2>2
    <3>2. score' = grown
      BY <1>16, <3>1
    <3> QED BY <3>2
  <2> QED BY <2>1, <2>2
<1>18. \A c \in DOMAIN seat : /\ pace[c] = IF c \in Left THEN ScorePerStep[c] ELSE 0
                              /\ grown[c] = k * score[c] + n * pace[c]
                              /\ grown[c] <= one'
  BY <1>1, <1>7, <1>8, <1>9, <1>11, <1>12
<1>19. one' = one * k /\ seat' = seat /\ ballots' = ballots
  BY <1>2, <1>4
<1>20. \E p \in [DOMAIN seat -> Nat], g \in [DOMAIN seat -> Nat] :
             /\ one' = one * k /\ seat' = seat /\ ballots' = ballots
             /\ \A c \in DOMAIN seat : /\ p[c] = IF c \in Left THEN ScorePerStep[c] ELSE 0
                                       /\ g[c] = k * score[c] + n * p[c]
                                       /\ g[c] <= one'
             /\ score' \in [DOMAIN seat -> Nat]
             /\ \/ score' = g
                \/ \E last \in Left :
                     /\ \A c \in DOMAIN seat \ {last} : score'[c] = g[c]
                     /\ score'[last] <= g[last]
                     /\ \A c \in Left : g[c] = one'
  BY <1>16, <1>17, <1>18, <1>19, Zenon
<1> QED BY <1>20, ZenonT(60)

\* Before the last of those that are full is held back, a group keeps up.
LEMMA GrownKeepsUp ==
  ASSUME ScoresOK, NEW G \in SUBSET DOMAIN seat, G \cap Left # {}, KeepsUp(G),
         NEW k \in Nat, NEW n \in Nat,
         NEW pace \in [DOMAIN seat -> Nat], NEW grown \in [DOMAIN seat -> Nat],
         \A c \in DOMAIN seat : /\ pace[c] = IF c \in Left THEN ScorePerStep[c] ELSE 0
                                /\ grown[c] = k * score[c] + n * pace[c]
  PROVE  Part(ballots, G) * Total(grown, Unseated \ G)
           <= (All(ballots) - Part(ballots, G)) * Total(grown, Unseated \cap G)
<1>1. PICK D : D = DOMAIN seat /\ IsFiniteSet(D)
  BY DEF ScoresOK, Castable
<1>2. PICK X \in SUBSET D : X = Unseated \ G
  BY <1>1, LeftTypes
<1>3. PICK Y \in SUBSET D : Y = Unseated \cap G
  BY <1>1, LeftTypes
<1>4. PICK s \in [D -> Int] : s = score
  BY <1>1 DEF ScoresOK
<1>5. PICK r \in [D -> Int] : r = pace
  BY <1>1
<1>6. PICK g \in [D -> Int] : g = grown
  BY <1>1
<1>7. PICK ks \in [D -> Int] : \A c \in D : ks[c] = k * s[c]
  <2> DEFINE f == [c \in D |-> k * s[c]]
  <2>1. f \in [D -> Int]
    OBVIOUS
  <2> QED BY <2>1
<1>8. PICK nr \in [D -> Int] : \A c \in D : nr[c] = n * r[c]
  <2> DEFINE f == [c \in D |-> n * r[c]]
  <2>1. f \in [D -> Int]
    OBVIOUS
  <2> QED BY <2>1
<1>9. \A S \in SUBSET D : Total(g, S) = k * Total(s, S) + n * Total(r, S)
  <2>1. ASSUME NEW S \in SUBSET D PROVE Total(g, S) = k * Total(s, S) + n * Total(r, S)
    <3>1. \A c \in S : g[c] = ks[c] + nr[c]
      <4>1. ASSUME NEW c \in S PROVE g[c] = ks[c] + nr[c]
        <5>1. c \in D /\ c \in DOMAIN seat
          BY <1>1
        <5> QED BY <1>4, <1>5, <1>6, <1>7, <1>8, <5>1
      <4> QED BY <4>1
    <3>2. Total(g, S) = Total(ks, S) + Total(nr, S)
      BY <1>1, <3>1, TotalAdds
    <3>3. \A c \in S : ks[c] = k * s[c]
      BY <1>7
    <3>4. \A c \in S : nr[c] = n * r[c]
      BY <1>8
    <3>5. k \in Int /\ n \in Int
      OBVIOUS
    <3>6. Total(ks, S) = k * Total(s, S)
      BY <1>1, <3>3, <3>5, TotalScaled
    <3>7. Total(nr, S) = n * Total(r, S)
      BY <1>1, <3>4, <3>5, TotalScaled
    <3> QED BY <3>2, <3>6, <3>7
  <2> QED BY <2>1
<1>10. PICK step \in [Left -> Int] : step = ScorePerStep
  <2>1. ScorePerStep \in [Left -> Nat]
    BY StepTypes
  <2>2. ScorePerStep \in [Left -> Int]
    BY <2>1
  <2> QED BY <2>2
<1>11. Total(r, X) = Total(step, Left \ G)
  <2>1. PICK R \in SUBSET X : R = Left \ G
    BY <1>2, LeftTypes
  <2>2. \A c \in X \ R : r[c] = 0
    <3>1. \A c \in X \ R : c \in DOMAIN seat /\ c \notin Left
      BY <1>1, <1>2, <2>1
    <3> QED BY <1>5, <3>1
  <2>3. Total(r, X) = Total(r, R)
    BY <1>1, <2>2, TotalInside
  <2>4. \A c \in R : r[c] = step[c]
    <3>1. \A c \in R : c \in DOMAIN seat /\ c \in Left
      BY <1>1, <2>1
    <3> QED BY <1>5, <1>10, <3>1
  <2>5. R \subseteq D /\ R \subseteq Left /\ IsFiniteSet(Left)
    BY <2>1, LeftTypes
  <2>6. Total(r, R) = Total(step, R)
    BY <1>1, <2>4, <2>5, TotalAgrees
  <2> QED BY <2>1, <2>3, <2>6
<1>12. Total(r, Y) = Total(step, G \cap Left)
  <2>1. PICK R \in SUBSET Y : R = G \cap Left
    BY <1>3, LeftTypes
  <2>2. \A c \in Y \ R : r[c] = 0
    <3>1. \A c \in Y \ R : c \in DOMAIN seat /\ c \notin Left
      BY <1>1, <1>3, <2>1
    <3> QED BY <1>5, <3>1
  <2>3. Total(r, Y) = Total(r, R)
    BY <1>1, <2>2, TotalInside
  <2>4. \A c \in R : r[c] = step[c]
    <3>1. \A c \in R : c \in DOMAIN seat /\ c \in Left
      BY <1>1, <2>1
    <3> QED BY <1>5, <1>10, <3>1
  <2>5. R \subseteq D /\ R \subseteq Left /\ IsFiniteSet(Left)
    BY <2>1, LeftTypes
  <2>6. Total(r, R) = Total(step, R)
    BY <1>1, <2>4, <2>5, TotalAgrees
  <2> QED BY <2>1, <2>3, <2>6
<1>13. PICK p \in Nat : p = Part(ballots, G)
  BY PartTypes
<1>14. PICK q \in Nat : q = All(ballots) - Part(ballots, G)
  BY PartTypes
<1>15. PICK w \in Nat : w = Whole
  BY PartTypes
<1>16. p * Total(s, X) <= q * Total(s, Y)
  BY <1>2, <1>3, <1>4, <1>13, <1>14 DEF KeepsUp
<1>17. Total(r, X) <= q * w /\ p * w <= Total(r, Y)
  BY <1>10, <1>11, <1>12, <1>13, <1>14, <1>15, GroupsGain
<1>18. /\ Total(s, X) \in Int /\ Total(s, Y) \in Int /\ Total(r, X) \in Int /\ Total(r, Y) \in Int
  BY <1>1, TotalType
<1>19. p * (k * Total(s, X) + n * Total(r, X)) <= q * (k * Total(s, Y) + n * Total(r, Y))
  BY <1>16, <1>17, <1>18, MoreThanShare
<1>20. p * Total(g, X) <= q * Total(g, Y)
  BY <1>9, <1>19
<1> QED BY <1>2, <1>3, <1>6, <1>13, <1>14, <1>20

LEMMA TurnIsFair ==
  ASSUME ScoresOK, SeatsAreFair, Turn
  PROVE  ScoresOK' /\ SeatsAreFair'
<1>1. PICK k \in Nat \ {0}, n \in Nat :
        \E pace \in [DOMAIN seat -> Nat], grown \in [DOMAIN seat -> Nat] :
          /\ one' = one * k /\ seat' = seat /\ ballots' = ballots
          /\ \A c \in DOMAIN seat : /\ pace[c] = IF c \in Left THEN ScorePerStep[c] ELSE 0
                                    /\ grown[c] = k * score[c] + n * pace[c]
                                    /\ grown[c] <= one'
          /\ score' \in [DOMAIN seat -> Nat]
          /\ \/ score' = grown
             \/ \E last \in Left :
                  /\ \A c \in DOMAIN seat \ {last} : score'[c] = grown[c]
                  /\ score'[last] <= grown[last]
                  /\ \A c \in Left : grown[c] = one'
  BY TurnInNumbers
<1>2. PICK pace \in [DOMAIN seat -> Nat], grown \in [DOMAIN seat -> Nat] :
          /\ one' = one * k /\ seat' = seat /\ ballots' = ballots
          /\ \A c \in DOMAIN seat : /\ pace[c] = IF c \in Left THEN ScorePerStep[c] ELSE 0
                                    /\ grown[c] = k * score[c] + n * pace[c]
                                    /\ grown[c] <= one'
          /\ score' \in [DOMAIN seat -> Nat]
          /\ \/ score' = grown
             \/ \E last \in Left :
                  /\ \A c \in DOMAIN seat \ {last} : score'[c] = grown[c]
                  /\ score'[last] <= grown[last]
                  /\ \A c \in Left : grown[c] = one'
  BY <1>1
<1>3. PICK u \in Nat \ {0} : u = one'
  <2>1. PICK a \in Nat \ {0} : a = one
    BY DEF ScoresOK
  <2>2. a * k \in Nat \ {0}
    OBVIOUS
  <2> QED BY <1>2, <2>1, <2>2
<1>4. \A c \in DOMAIN seat : score'[c] \in Nat /\ grown[c] \in Nat /\ score'[c] <= grown[c]
                             /\ grown[c] <= u
  <2>1. ASSUME NEW c \in DOMAIN seat PROVE score'[c] <= grown[c]
    <3>1. score'[c] \in Nat /\ grown[c] \in Nat
      BY <1>2
    <3> QED BY <1>2, <3>1
  <2> QED BY <1>2, <1>3, <2>1
<1>5. ScoresOK'
  <2>1. \A c \in DOMAIN seat : score'[c] <= one'
    <3>1. ASSUME NEW c \in DOMAIN seat PROVE score'[c] <= one'
      <4>1. PICK a \in Nat : a = score'[c]
        BY <1>4
      <4>2. PICK b \in Nat : b = grown[c]
        BY <1>4
      <4> QED BY <1>3, <1>4, <4>1, <4>2
    <3> QED BY <3>1
  <2>2. Castable(ballots', DOMAIN seat')
    BY <1>2 DEF ScoresOK
  <2> QED BY <1>2, <1>3, <2>1, <2>2 DEF ScoresOK
<1>6. Unseated' = Unseated
  BY <1>2 DEF Unseated
\* Who is full stays full.
<1>7. \A c \in Unseated \ Left : grown[c] = u
  <2>1. ASSUME NEW c \in Unseated \ Left PROVE grown[c] = u
    <3>1. c \in DOMAIN seat
      BY DEF Unseated
    <3>2. PICK a \in Nat : a = score[c]
      BY <3>1 DEF ScoresOK
    <3>3. PICK b \in Nat \ {0} : b = one
      BY DEF ScoresOK
    <3>4. a <= b /\ ~(a < b)
      BY <2>1, <3>1, <3>2, <3>3 DEF ScoresOK, Left
    <3>5. grown[c] = k * a + n * 0
      BY <1>2, <2>1, <3>1, <3>2
    <3>6. a = b /\ k * a = a * k /\ n * 0 = 0 /\ k * a \in Nat
      BY <3>4
    <3> QED BY <1>2, <1>3, <3>3, <3>5, <3>6
  <2> QED BY <2>1
<1>8. Left' \subseteq Left
  <2>1. ASSUME NEW c \in Left', c \notin Left PROVE FALSE
    <3>1. c \in Unseated /\ score'[c] < one' /\ c \in DOMAIN seat
      BY <1>6, <2>1, LeftTypes DEF Left
    <3>2. grown[c] = u
      BY <1>7, <2>1, <3>1
    <3>3. score'[c] = grown[c]
      BY <1>2, <2>1, <3>1
    <3> QED BY <1>3, <3>1, <3>2, <3>3
  <2> QED BY <2>1
<1>9. ASSUME NEW G \in SUBSET DOMAIN seat, G \cap Left' # {}
      PROVE  KeepsUp(G)' \/ ~Entitled(G, Cardinality(Unseated))'
  <2>1. G \cap Left # {}
    BY <1>8, <1>9
  <2>2. PICK p \in Nat : p = Part(ballots, G)
    BY PartTypes
  <2>3. PICK q \in Nat : q = All(ballots) - Part(ballots, G)
    BY PartTypes
  <2>4. PICK D : D = DOMAIN seat /\ IsFiniteSet(D)
    BY DEF ScoresOK, Castable
  <2>5. PICK U \in SUBSET D : U = Unseated
    BY <2>4, LeftTypes
  <2>6. PICK g \in [D -> Int] : g = grown
    BY <2>4
  <2>7. PICK s \in [D -> Int] : s = score'
    BY <1>2, <2>4
  <2>8. CASE ~Entitled(G, Cardinality(Unseated))
    <3>1. Part(ballots', G) = Part(ballots, G) /\ All(ballots') = All(ballots)
      BY <1>2
    <3> QED BY <1>6, <2>8, <3>1 DEF Entitled
  <2>9. CASE KeepsUp(G)
    <3>1. p * Total(g, U \ G) <= q * Total(g, U \cap G)
      <4>1. k \in Nat
        OBVIOUS
      <4>2. \A c \in DOMAIN seat : /\ pace[c] = IF c \in Left THEN ScorePerStep[c] ELSE 0
                                   /\ grown[c] = k * score[c] + n * pace[c]
        BY <1>2
      <4>3. Part(ballots, G) * Total(grown, Unseated \ G)
              <= (All(ballots) - Part(ballots, G)) * Total(grown, Unseated \cap G)
        BY <2>1, <2>9, <4>1, <4>2, GrownKeepsUp, ZenonT(60)
      <4> QED BY <2>2, <2>3, <2>5, <2>6, <4>3
    <3>2. U \ G \in SUBSET D /\ U \cap G \in SUBSET D
      OBVIOUS
    <3>3. CASE \A c \in U \cap G : s[c] = g[c]
      <4>1. Total(s, U \cap G) = Total(g, U \cap G)
        <5>1. PICK Y \in SUBSET D : Y = U \cap G
          OBVIOUS
        <5>2. Y \subseteq D /\ \A c \in Y : s[c] = g[c]
          BY <3>3, <5>1
        <5>3. Total(s, Y) = Total(g, Y)
          BY <2>4, <5>2, TotalAgrees
        <5> QED BY <5>1, <5>3
      <4>2. Total(s, U \ G) <= Total(g, U \ G)
        <5>1. PICK X \in SUBSET D : X = U \ G
          OBVIOUS
        <5>2. \A c \in X : s[c] <= g[c]
          BY <1>4, <2>4, <2>6, <2>7
        <5>3. Total(s, X) <= Total(g, X)
          BY <2>4, <5>2, TotalMonotone
        <5> QED BY <5>1, <5>3
      <4>3. PICK a \in Int : a = Total(s, U \ G)
        BY <2>4, <3>2, TotalType
      <4>4. PICK b \in Int : b = Total(g, U \ G)
        BY <2>4, <3>2, TotalType
      <4>5. PICK c \in Int : c = Total(g, U \cap G)
        BY <2>4, <3>2, TotalType
      <4>6. p * a <= p * b
        BY <4>2, <4>3, <4>4, Multiplied
      <4>7. p * b <= q * c
        BY <3>1, <4>4, <4>5
      <4>8. p * a <= q * c
        <5>1. PICK x \in Int : x = p * a
          OBVIOUS
        <5>2. PICK y \in Int : y = p * b
          OBVIOUS
        <5>3. PICK z \in Int : z = q * c
          OBVIOUS
        <5> QED BY <4>6, <4>7, <5>1, <5>2, <5>3
      <4>9. p * Total(score', Unseated \ G) <= q * Total(score', Unseated \cap G)
        BY <2>5, <2>7, <4>1, <4>3, <4>5, <4>8
      <4>10. Part(ballots', G) = p /\ All(ballots') - Part(ballots', G) = q
        BY <1>2, <2>2, <2>3
      <4> QED BY <1>6, <4>9, <4>10 DEF KeepsUp
    <3>4. CASE \E c \in U \cap G : s[c] # g[c]
      <4>1. PICK last \in Left : \A c \in Left : grown[c] = one'
        BY <1>2, <2>4, <2>6, <2>7, <3>4
      <4>2. \A c \in U : g[c] = u
        BY <1>3, <1>7, <2>5, <2>6, <4>1
      <4>3. (\A c \in U \ G : g[c] = u) /\ (\A c \in U \cap G : g[c] <= u)
        BY <4>2
      <4>4. G \in SUBSET D
        BY <2>4
      <4>5. p * Cardinality(U) <= (p + q) * Cardinality(G)
        BY <2>4, <3>1, <4>3, <4>4, FullIsFair
      <4>6. p + q = All(ballots)
        <5>1. All(ballots) \in Int
          BY GivesType, TotalType DEF All
        <5> QED BY <2>2, <2>3, <5>1
      <4>7. Part(ballots', G) = p /\ All(ballots') = p + q
        BY <1>2, <2>2, <4>6
      <4>8. Cardinality(U) \in Nat /\ Cardinality(G) \in Nat
        <5>1. IsFiniteSet(U) /\ IsFiniteSet(G)
          BY <2>4, <4>4, FS_Subset
        <5> QED BY <5>1, FS_CardinalityType
      <4>9. PICK x \in Int : x = p * Cardinality(U)
        BY <4>8
      <4>10. PICK y \in Int : y = (p + q) * Cardinality(G)
        BY <4>8
      <4>11. ~(x > y)
        BY <4>5, <4>9, <4>10
      <4> QED BY <1>6, <2>5, <4>7, <4>9, <4>10, <4>11 DEF Entitled
    <3> QED BY <3>3, <3>4
  <2> QED BY <2>1, <2>8, <2>9 DEF SeatsAreFair
<1>10. ASSUME NEW G \in SUBSET DOMAIN seat, NEW c \in G, seat[c] # 0
       PROVE  ~Entitled(G, seat[c])'
  BY <1>2, <1>10 DEF SeatsAreFair, Entitled
<1>11. SeatsAreFair'
  <2>1. seat' = seat
    BY <1>2
  <2> QED BY <1>9, <1>10, <2>1 DEF SeatsAreFair
<1> QED BY <1>5, <1>11

LEMMA TotalOfNothing ==
  ASSUME NEW D, IsFiniteSet(D), NEW S \in SUBSET D
  PROVE  Total([c \in D |-> 0], S) = 0
<1>1. PICK s \in [D -> Int] : s = [c \in D |-> 0]
  <2> DEFINE f == [c \in D |-> 0]
  <2>1. f \in [D -> Int]
    OBVIOUS
  <2> QED BY <2>1
<1>2. 0 \in Int /\ \A c \in S : s[c] = 0
  BY <1>1
<1>3. Total(s, S) = 0 * Cardinality(S)
  BY <1>2, TotalOfEqual
<1>4. Cardinality(S) \in Nat
  BY FS_Subset, FS_CardinalityType
<1> QED BY <1>1, <1>3, <1>4

\* A round begins with the score of everybody at zero.
LEMMA RoundIsFair ==
  ASSUME NEW b, NEW D, Castable(b, D), NEW U \in SUBSET D, NEW G \in SUBSET D
  PROVE  Part(b, G) * Total([c \in D |-> 0], U \ G)
           <= (All(b) - Part(b, G)) * Total([c \in D |-> 0], U \cap G)
<1>1. U \ G \in SUBSET D /\ U \cap G \in SUBSET D /\ IsFiniteSet(D)
  BY DEF Castable
<1>2. Total([c \in D |-> 0], U \ G) = 0 /\ Total([c \in D |-> 0], U \cap G) = 0
  BY <1>1, TotalOfNothing
<1>3. Part(b, G) \in Int /\ All(b) \in Int
  <2>1. IsFiniteSet(DOMAIN b) /\ Weights(b) \in [DOMAIN b -> Int]
    BY DEF Castable, Weights
  <2>2. AdvocatesOf(b, G) \in SUBSET DOMAIN b /\ DOMAIN b \in SUBSET DOMAIN b
    BY DEF AdvocatesOf
  <2> QED BY <2>1, <2>2, TotalType DEF Part, All
<1>4. PICK p \in Int : p = Part(b, G)
  BY <1>3
<1>5. PICK q \in Int : q = All(b) - Part(b, G)
  BY <1>3
<1>6. p * 0 <= q * 0
  OBVIOUS
<1> QED BY <1>2, <1>4, <1>5, <1>6

\* No group that is entitled to the seat has the last candidate.
LEMMA LastIsNotEntitled ==
  ASSUME ScoresOK, SeatsAreFair, NEW c, Left = {c}, NEW G \in SUBSET DOMAIN seat, c \in G
  PROVE  ~Entitled(G, Cardinality(Unseated))
<1>1. SUFFICES ASSUME KeepsUp(G) PROVE ~Entitled(G, Cardinality(Unseated))
  BY DEF SeatsAreFair
<1>2. PICK D : D = DOMAIN seat /\ IsFiniteSet(D)
  BY DEF ScoresOK, Castable
<1>3. PICK U \in SUBSET D : U = Unseated
  BY <1>2, LeftTypes
<1>4. PICK s \in [D -> Int] : s = score
  BY <1>2 DEF ScoresOK
<1>5. PICK u \in Nat \ {0} : u = one
  BY DEF ScoresOK
<1>6. \A d \in D : s[d] \in Nat /\ s[d] <= u
  BY <1>2, <1>4, <1>5 DEF ScoresOK
<1>7. \A d \in U \ G : s[d] = u
  <2>1. ASSUME NEW d \in U \ G PROVE s[d] = u
    <3>1. ~(s[d] < u)
      BY <1>3, <1>4, <1>5, <2>1 DEF Left
    <3>2. PICK x \in Nat : x = s[d] /\ x <= u
      BY <1>6
    <3> QED BY <3>1, <3>2
  <2> QED BY <2>1
<1>8. PICK p \in Nat : p = Part(ballots, G)
  BY PartTypes
<1>9. PICK q \in Nat : q = All(ballots) - Part(ballots, G)
  BY PartTypes
<1>10. p * Total(s, U \ G) <= q * Total(s, U \cap G)
  BY <1>1, <1>3, <1>4, <1>8, <1>9 DEF KeepsUp
<1>11. (\A d \in U \cap G : s[d] <= u) /\ G \in SUBSET D
  BY <1>2, <1>6
<1>12. p * Cardinality(U) <= (p + q) * Cardinality(G)
  BY <1>2, <1>7, <1>10, <1>11, FullIsFair
<1>13. p + q = All(ballots)
  <2>1. All(ballots) \in Int
    BY GivesType, TotalType DEF All
  <2> QED BY <1>8, <1>9, <2>1
<1>14. Cardinality(U) \in Nat /\ Cardinality(G) \in Nat
  <2>1. IsFiniteSet(U) /\ IsFiniteSet(G)
    BY <1>2, <1>11, FS_Subset
  <2> QED BY <2>1, FS_CardinalityType
<1>15. PICK x \in Int : x = p * Cardinality(U)
  BY <1>14
<1>16. PICK y \in Int : y = (p + q) * Cardinality(G)
  BY <1>14
<1>17. ~(x > y)
  BY <1>12, <1>15, <1>16
<1> QED BY <1>3, <1>8, <1>13, <1>15, <1>16, <1>17 DEF Entitled

LEMMA GiveSeatIsFair ==
  ASSUME ScoresOK, SeatsAreFair, GiveSeat
  PROVE  ScoresOK' /\ SeatsAreFair'
<1>1. PICK c \in Left : seat' = [seat EXCEPT ![c] = Cardinality(Unseated)]
  BY DEF GiveSeat
<1>2. score' = [d \in DOMAIN seat |-> 0] /\ one' = 1 /\ ballots' = ballots
  BY DEF GiveSeat
<1>3. Left = {c}
  <2>1. IsFiniteSet(Left) /\ Cardinality(Left) = 1
    BY LeftTypes DEF GiveSeat
  <2>2. \E x : Left = {x}
    BY <2>1, FS_Singleton
  <2> QED BY <1>1, <2>2
<1>4. PICK m \in Nat : m = Cardinality(Unseated)
  BY LeftTypes, FS_CardinalityType
<1>5. DOMAIN seat' = DOMAIN seat
  BY <1>1
<1>6. ScoresOK'
  <2>1. Castable(ballots', DOMAIN seat')
    BY <1>2, <1>5 DEF ScoresOK
  <2>2. seat' \in [DOMAIN seat' -> Nat]
    BY <1>1, <1>4, <1>5 DEF ScoresOK
  <2>3. score' \in [DOMAIN seat' -> Nat] /\ one' \in Nat \ {0}
    BY <1>2, <1>5
  <2>4. \A d \in DOMAIN seat' : score'[d] <= one'
    BY <1>2, <1>5
  <2> QED BY <2>1, <2>2, <2>3, <2>4 DEF ScoresOK
<1>7. ASSUME NEW G \in SUBSET DOMAIN seat PROVE KeepsUp(G)'
  <2>1. PICK U \in SUBSET DOMAIN seat : U = Unseated'
    BY <1>5 DEF Unseated
  <2>2. Castable(ballots, DOMAIN seat)
    BY DEF ScoresOK
  <2>3. Part(ballots, G) * Total(score', U \ G)
           <= (All(ballots) - Part(ballots, G)) * Total(score', U \cap G)
    BY <1>2, <2>2, RoundIsFair
  <2> QED BY <1>2, <2>1, <2>3 DEF KeepsUp
<1>8. ASSUME NEW G \in SUBSET DOMAIN seat, NEW d \in G, NEW n, n = seat'[d], n # 0
      PROVE  ~Entitled(G, n)'
  <2>1. Entitled(G, n)' <=> Entitled(G, n)
    BY <1>2 DEF Entitled
  <2>2. CASE d = c
    <3>1. ~Entitled(G, Cardinality(Unseated))
      BY <1>3, <1>8, <2>2, LastIsNotEntitled
    <3>2. c \in DOMAIN seat
      BY LeftTypes
    <3>3. n = Cardinality(Unseated)
      BY <1>1, <1>8, <2>2, <3>2
    <3> QED BY <2>1, <3>1, <3>3
  <2>3. CASE d # c
    <3>1. n = seat[d]
      BY <1>1, <1>8, <2>3
    <3>2. ~Entitled(G, n)
      BY <1>8, <3>1 DEF SeatsAreFair
    <3> QED BY <2>1, <3>2
  <2> QED BY <2>2, <2>3
<1>9. SeatsAreFair'
  <2>1. \A G \in SUBSET DOMAIN seat' : KeepsUp(G)'
    BY <1>5, <1>7
  <2>2. \A G \in SUBSET DOMAIN seat' : \A d \in G : seat'[d] # 0 => ~Entitled(G, seat[d])'
    BY <1>5, <1>8
  <2> QED BY <2>1, <2>2 DEF SeatsAreFair
<1> QED BY <1>6, <1>9

LEMMA SetUpIsFair ==
  ASSUME NEW b, NEW candidates, Castable(b, candidates), SetUp(b, candidates)
  PROVE  ScoresOK' /\ SeatsAreFair'
<1>1. /\ ballots' = b /\ one' = 1
      /\ seat' = [c \in candidates |-> 0] /\ score' = [c \in candidates |-> 0]
  BY DEF SetUp
<1>2. ScoresOK'
  <2>1. DOMAIN seat' = candidates
    BY <1>1
  <2>2. Castable(ballots', DOMAIN seat')
    BY <1>1, <2>1
  <2> QED BY <1>1, <2>1, <2>2 DEF ScoresOK
<1>3. ASSUME NEW G \in SUBSET candidates PROVE KeepsUp(G)'
  <2>1. PICK U \in SUBSET candidates : U = Unseated'
    BY <1>1 DEF Unseated
  <2>2. Part(b, G) * Total(score', U \ G) <= (All(b) - Part(b, G)) * Total(score', U \cap G)
    BY <1>1, RoundIsFair
  <2> QED BY <1>1, <2>1, <2>2 DEF KeepsUp
<1> QED BY <1>1, <1>2, <1>3 DEF SeatsAreFair

-----------------------------------------------------------------------------
(* The ballots of the two programs                                         *)

LEMMA SuggestionsAreCastable ==
  ASSUME SuggestionAssumption, SuggestionTypeOK, NEW i \in Initiative
  PROVE  Castable(Ballots(i), Candidates(i))
<1>1. Candidates(i) \subseteq Suggestion /\ IsFiniteSet(Candidates(i))
  <2>1. Candidates(i) \subseteq Suggestion
    BY DEF Candidates, Of
  <2> QED BY <2>1, FS_Subset DEF SuggestionAssumption
<1> DEFINE V == {m \in Member : snapshot[i][m] > 0 /\ \E s \in Of(i) : opinion[m][s] # 0}
           B(m) == [weight |-> snapshot[i][m],
                    sections |-> [j \in 1 .. 4 |-> {s \in Of(i) : opinion[m][s] = j}]]
<1>2. DOMAIN Ballots(i) = V /\ \A m \in V : Ballots(i)[m] = B(m)
  BY DEF Ballots
<1>3. IsFiniteSet(V)
  <2>1. V \subseteq Member /\ IsFiniteSet(Member)
    BY DEF SuggestionAssumption
  <2> HIDE DEF V
  <2> QED BY <2>1, FS_Subset
<1>4. ASSUME NEW m \in V
      PROVE  /\ B(m).weight \in Nat \ {0}
             /\ DOMAIN B(m).sections = 1 .. 4
             /\ \A j \in 1 .. 4 : B(m).sections[j] \subseteq Candidates(i)
  <2>1. snapshot[i][m] \in Nat \ {0}
    BY DEF SuggestionTypeOK
  <2>2. ASSUME NEW j \in 1 .. 4 PROVE {s \in Of(i) : opinion[m][s] = j} \subseteq Candidates(i)
    BY DEF Candidates
  <2> QED BY <2>1, <2>2
<1> HIDE DEF V, B
<1>5. ASSUME NEW m \in DOMAIN Ballots(i)
      PROVE  /\ Ballots(i)[m].weight \in Nat \ {0}
             /\ \E n \in Nat : DOMAIN Ballots(i)[m].sections = 1 .. n
             /\ \A j \in DOMAIN Ballots(i)[m].sections :
                    Ballots(i)[m].sections[j] \subseteq Candidates(i)
  <2>1. m \in V /\ Ballots(i)[m] = B(m)
    BY <1>2
  <2>2. 4 \in Nat
    OBVIOUS
  <2> QED BY <1>4, <2>1, <2>2
<1> QED BY <1>1, <1>2, <1>3, <1>5 DEF Castable

LEMMA IssuesAreCastable ==
  ASSUME IssueAssumption, IssueTypeOK, NEW s, NEW b \in BallotSets(s)
  PROVE  Castable(b, Supported(s))
<1>1. Supported(s) \subseteq Issue /\ IsFiniteSet(Supported(s))
  <2>1. Supported(s) \subseteq Issue
    BY DEF Supported, IssuesOf
  <2> QED BY <2>1, FS_Subset DEF IssueAssumption
<1>2. Voters(s) \subseteq Supporter /\ IsFiniteSet(Voters(s))
  <2>1. Voters(s) \subseteq Supporter
    BY <1>1 DEF Voters, IssueTypeOK
  <2> QED BY <2>1, FS_Subset DEF IssueAssumption
<1> DEFINE issues == [m \in Voters(s) |-> {i \in Supported(s) : m \in supporters[i]}]
<1>3. PICK f \in [Voters(s) -> Issue] :
          b = [m \in Voters(s) |-> [weight |-> weight[m][f[m]], sections |-> <<issues[m]>>]]
  BY DEF BallotSets
<1>4. DOMAIN b = Voters(s)
  BY <1>3
<1>5. ASSUME NEW m \in DOMAIN b
      PROVE  /\ b[m].weight \in Nat \ {0}
             /\ \E n \in Nat : DOMAIN b[m].sections = 1 .. n
             /\ \A j \in DOMAIN b[m].sections : b[m].sections[j] \subseteq Supported(s)
  <2>1. m \in Supporter
    BY <1>2, <1>4
  <2>2. PICK i \in Issue : i = f[m]
    BY <1>4
  <2>3. PICK w \in Nat \ {0} : w = weight[m][i]
    BY <2>1 DEF IssueTypeOK
  <2>4. PICK X \in SUBSET Supported(s) : X = issues[m]
    BY <1>4
  <2>5. b[m] = [weight |-> w, sections |-> <<X>>]
    <3> HIDE DEF issues
    <3> QED BY <1>3, <1>4, <2>2, <2>3, <2>4
  <2>6. b[m].weight = w /\ b[m].sections = <<X>>
    <3> HIDE DEF issues
    <3> QED BY <2>5
  <2>7. DOMAIN <<X>> = 1 .. 1 /\ <<X>>[1] = X
    OBVIOUS
  <2>8. \A j \in 1 .. 1 : j = 1
    OBVIOUS
  <2> QED BY <2>3, <2>4, <2>6, <2>7, <2>8
<1> QED BY <1>1, <1>2, <1>4, <1>5 DEF Castable

LEMMA NothingIsCastable == Castable(<<>>, {})
<1>1. DOMAIN <<>> = {}
  OBVIOUS
<1> QED BY <1>1, FS_EmptySet DEF Castable

\* What a step of a program may do to the runoff.
Goes == \/ UNCHANGED runoff \/ Turn \/ GiveSeat
        \/ \E b, candidates : Castable(b, candidates) /\ SetUp(b, candidates)

LEMMA SuggestionsGo ==
  ASSUME SuggestionAssumption, SuggestionTypeOK, SuggestionNext
  PROVE  Goes
<1>1. CASE RunSuggestionOrder
  BY <1>1, NothingIsCastable DEF RunSuggestionOrder, Goes
<1>2. CASE ProcessInitiative
  <2>1. PICK t \in todo : UNCHANGED runoff \/ SetUp(Ballots(t.id), Candidates(t.id))
    BY <1>2 DEF ProcessInitiative, runoff
  <2>2. t.id \in Initiative
    BY DEF SuggestionTypeOK
  <2> QED BY <2>1, <2>2, SuggestionsAreCastable DEF Goes
<1>3. CASE RankSuggestions
  BY <1>3 DEF RankSuggestions, Goes
<1>4. CASE SelectInitiatives \/ SelectFails \/ BeginWrite \/ CommitRanks
  BY <1>4 DEF SelectInitiatives, SelectFails, BeginWrite, CommitRanks, Goes
<1>5. CASE ExitSuggestionOrder \/ BeginFails \/ WriteFails \/ SuggestionCrash
  BY <1>5 DEF ExitSuggestionOrder, BeginFails, WriteFails, SuggestionCrash, Goes
<1>6. CASE Rate \/ TakeSnapshot \/ Freeze \/ CleanIssue
  BY <1>6 DEF Rate, TakeSnapshot, Freeze, CleanIssue, program, Goes
<1> QED BY <1>1, <1>2, <1>3, <1>4, <1>5, <1>6 DEF SuggestionNext, SuggestionProgram

LEMMA IssuesGo ==
  ASSUME IssueAssumption, IssueTypeOK, IssueNext
  PROVE  Goes
<1>1. CASE RunIssueOrder
  BY <1>1, NothingIsCastable DEF RunIssueOrder, Goes
<1>2. CASE NextArea \/ NextUnit
  <2>1. PICK s : ProcessAreaOrUnit(s)
    BY <1>2 DEF NextArea, NextUnit
  <2>2. PICK b \in BallotSets(s) : SetUp(b, Supported(s))
    BY <2>1 DEF ProcessAreaOrUnit
  <2> QED BY <2>2, IssuesAreCastable DEF Goes
<1>3. CASE RankIssues
  BY <1>3 DEF RankIssues, Goes
<1>4. CASE InsertEntries \/ SelectAreas \/ SelectUnits \/ WriteRanks \/ DeleteEntries
  BY <1>4 DEF InsertEntries, SelectAreas, SelectUnits, WriteRanks, DeleteEntries, Goes
<1>5. CASE SelectSupportersFails \/ WriteFailure \/ IssueOrderCrash
  BY <1>5 DEF SelectSupportersFails, WriteFailure, IssueOrderCrash, Goes
<1>6. CASE NewIssue \/ LeaveAdmission \/ ChangeSupport
  BY <1>6 DEF NewIssue, LeaveAdmission, ChangeSupport, iprogram, Goes
<1> QED BY <1>1, <1>2, <1>3, <1>4, <1>5, <1>6 DEF IssueNext, IssueProgram

\* Whatever a step does to the runoff, it remains fair.
LEMMA FairStep ==
  ASSUME ScoresOK, SeatsAreFair, Goes
  PROVE  ScoresOK' /\ SeatsAreFair'
<1>1. CASE UNCHANGED runoff
  BY <1>1 DEF runoff, ScoresOK, Castable, SeatsAreFair, KeepsUp, Entitled, Left, Unseated
<1> QED BY <1>1, TurnIsFair, GiveSeatIsFair, SetUpIsFair DEF Goes

\* The seats that have been given are proportional, once all are.
LEMMA FairIsProportional ==
  ASSUME ScoresOK, SeatsAreFair, Seated
  PROVE  Proportional
<1> SUFFICES ASSUME NEW G \in (SUBSET DOMAIN seat) \ {{}},
                    NEW m \in Cardinality(G) + 1 .. Cardinality(DOMAIN seat),
                    WeightOf(Advocates(G)) * m > Cardinality(G) * WeightOf(DOMAIN ballots),
                    NEW c \in G
             PROVE  seat[c] < m
  BY DEF Proportional
<1>1. /\ IsFiniteSet(DOMAIN ballots) /\ \A v \in DOMAIN ballots : ballots[v].weight \in Int
      /\ Advocates(G) \in SUBSET DOMAIN ballots /\ Advocates(G) = AdvocatesOf(ballots, G)
  BY DEF ScoresOK, Castable, Advocates, AdvocatesOf
<1>2. WeightOf(Advocates(G)) = Part(ballots, G) /\ WeightOf(DOMAIN ballots) = All(ballots)
  <2>1. MapThenSumSet(LAMBDA v : ballots[v].weight, Advocates(G))
            = Total(Weights(ballots), Advocates(G))
    BY <1>1, SumOfWeights
  <2>2. DOMAIN ballots \in SUBSET DOMAIN ballots
    OBVIOUS
  <2>3. MapThenSumSet(LAMBDA v : ballots[v].weight, DOMAIN ballots)
            = Total(Weights(ballots), DOMAIN ballots)
    BY <1>1, <2>2, SumOfWeights
  <2> QED BY <1>1, <2>1, <2>3 DEF WeightOf, Part, All
<1>3. IsFiniteSet(G) /\ IsFiniteSet(DOMAIN seat)
  BY FS_Subset DEF ScoresOK, Castable
<1>4. PICK g \in Nat : g = Cardinality(G)
  BY <1>3, FS_CardinalityType
<1>5. PICK N \in Nat : N = Cardinality(DOMAIN seat)
  BY <1>3, FS_CardinalityType
<1>6. m \in Nat
  BY <1>4, <1>5
<1>7. PICK p \in Nat : p = Part(ballots, G)
  BY PartTypes
<1>8. PICK a \in Int : a = All(ballots)
  BY GivesType, TotalType DEF All
<1>9. p * m > g * a
  BY <1>2, <1>4, <1>7, <1>8
<1>10. PICK n \in Nat : n = seat[c]
  BY DEF ScoresOK
<1>11. ~(p * n > a * g)
  <2>1. seat[c] # 0
    BY DEF Seated, Unseated
  <2>2. ~Entitled(G, seat[c])
    BY <2>1 DEF SeatsAreFair
  <2> QED BY <1>4, <1>7, <1>8, <1>10, <2>2 DEF Entitled
<1>12. n < m
  <2> SUFFICES ASSUME m <= n PROVE FALSE
    BY <1>6, <1>10
  <2>1. p * m <= p * n
    BY <1>6, Multiplied
  <2>2. g * a = a * g
    BY <1>4, <1>8
  <2>3. PICK x \in Int : x = p * m
    BY <1>6
  <2>4. PICK y \in Int : y = p * n
    OBVIOUS
  <2>5. PICK z \in Int : z = a * g
    OBVIOUS
  <2> QED BY <1>9, <1>11, <2>1, <2>2, <2>3, <2>4, <2>5
<1> QED BY <1>10, <1>12

-----------------------------------------------------------------------------
(* The two programs together                                               *)

\* The program that is not followed is where it began, and has stored nothing.
SuggestionsInv ==
    /\ SuggestionTypeOK /\ SeatsBelong /\ RowsAreTimely /\ NoneForgotten
    /\ SuggestionRanksDiffer /\ BallotsCount

IssuesInv == IssueTypeOK /\ InTurn

SuggestionsRest == spc = "start" /\ calculated = {} /\ order = [s \in Suggestion |-> 0]

OrderInv ==
    /\ SeatsDiffer
    /\ service = "suggestion" => SuggestionsInv /\ ipc = "start"
    /\ service = "issue" => IssuesInv /\ SuggestionsRest
    /\ service \in {"issue", "suggestion"}

LEMMA SuggestionsBegin ==
  ASSUME SuggestionAssumption, SuggestionInit
  PROVE  SuggestionsInv /\ SeatsDiffer
<1>1. PICK o \in Start \cup Calm, c \in {0, MaxChanges}, f \in {0, MaxFaults} :
          SuggestionStart(o, c, f)
  BY DEF SuggestionInit
<1> USE DEF SuggestionStart
<1>2. /\ o.opinion \in [Member -> [Suggestion -> Ratings \cup {0}]]
      /\ o.snapshot \in [Member -> Nat]
  BY DEF SuggestionAssumption
<1>3. opinion \in [Member -> [Suggestion -> 0 .. 4]]
  <2>1. opinion \in [Member -> [Suggestion -> Ratings \cup {0}]]
    BY <1>1, <1>2
  <2>2. \A p \in Ratings \cup {0} : p \in 0 .. 4
    BY DEF SuggestionAssumption
  <2>3. ASSUME NEW m \in Member PROVE opinion[m] \in [Suggestion -> 0 .. 4]
    <3>1. opinion[m] \in [Suggestion -> Ratings \cup {0}]
      BY <2>1
    <3> QED BY <2>2, <3>1
  <2> QED BY <2>1, <2>3
<1>4. Nothing \in [id : Initiative, final : BOOLEAN]
  BY DEF Nothing, SuggestionAssumption
<1>5. DOMAIN seat = {} /\ DOMAIN ballots = {}
  BY <1>1
<1>6. changes \in 0 .. MaxChanges /\ sfaults \in 0 .. MaxFaults
  BY <1>1 DEF SuggestionAssumption
<1>7. todo \subseteq [id : Initiative, final : BOOLEAN]
  BY <1>1
<1>8. SuggestionTypeOK
  BY <1>1, <1>2, <1>3, <1>4, <1>5, <1>6, <1>7 DEF SuggestionTypeOK
<1>9. SeatsDiffer
  <2>1. seat \in [DOMAIN seat -> Nat]
    BY <1>1, <1>5
  <2> QED BY <1>5, <2>1, FS_EmptySet DEF SeatsDiffer
<1>10. SeatsBelong /\ RowsAreTimely /\ NoneForgotten
  BY <1>1 DEF SeatsBelong, RowsAreTimely, NoneForgotten, SuggestionSuccess, Busy
<1>11. SuggestionRanksDiffer /\ BallotsCount
  BY <1>1 DEF SuggestionRanksDiffer, BallotsCount, FinalOrderCountsEverybody, Busy
<1> QED BY <1>8, <1>9, <1>10, <1>11 DEF SuggestionsInv

LEMMA IssuesBegin ==
  ASSUME IssueAssumption, IssueInit
  PROVE  IssuesInv
<1>1. PICK s \in Support \cup CalmSupport, e \in {0, MaxEvents}, f \in {0, MaxFailures} :
          IssueStart(s, e, f)
  BY DEF IssueInit
<1> USE DEF IssueStart
<1>2. /\ s.newest \in Issue /\ s.supporters \in [Issue -> SUBSET Supporter]
      /\ s.weight \in [Supporter -> [Issue -> Nat \ {0}]]
  BY DEF IssueAssumption
<1>3. DOMAIN seat = {} /\ DOMAIN ballots = {} /\ DOMAIN entry = {}
  BY <1>1
<1>4. scope \in Scope
  BY <1>1, <1>2 DEF Scope, Area
<1>5. events \in 0 .. MaxEvents /\ ifaults \in 0 .. MaxFailures
  BY <1>1 DEF IssueAssumption
<1>6. IssueTypeOK
  BY <1>1, <1>2, <1>3, <1>4, <1>5 DEF IssueTypeOK
<1>7. InTurn
  BY <1>1 DEF InTurn, IssueSuccess, AreasAreDue, UnitsAreDue, Seating
<1> QED BY <1>6, <1>7 DEF IssuesInv

LEMMA OrderBegins ==
  ASSUME SuggestionAssumption, IssueAssumption, Init
  PROVE  OrderInv
<1>1. CASE service = "suggestion" /\ SuggestionInit /\ IssueStart(One(Support), 0, 0)
  <2>1. ipc = "start"
    BY <1>1 DEF IssueStart
  <2> QED BY <1>1, <2>1, SuggestionsBegin DEF OrderInv
<1>2. CASE service = "issue" /\ IssueInit /\ SuggestionStart(One(Start), 0, 0)
  <2>1. SuggestionsRest /\ seat = <<>>
    BY <1>2 DEF SuggestionStart, SuggestionsRest
  <2>2. DOMAIN seat = {} /\ seat \in [DOMAIN seat -> Nat]
    BY <2>1
  <2>3. SeatsDiffer
    BY <2>2, FS_EmptySet DEF SeatsDiffer
  <2> QED BY <1>2, <2>1, <2>3, IssuesBegin DEF OrderInv
<1> QED BY <1>1, <1>2 DEF Init

LEMMA OrderGoesOn ==
  ASSUME SuggestionAssumption, IssueAssumption, OrderInv, [Next]_ordervars
  PROVE  OrderInv'
<1>1. CASE Suggestions(SuggestionNext)
  <2>1. SuggestionNext /\ service = "suggestion" /\ service' = service /\ ipc' = ipc
    BY <1>1 DEF Suggestions, issuevars
  <2>2. SuggestionsInv /\ SeatsDiffer /\ ipc = "start"
    BY <2>1 DEF OrderInv
  <2>3. SuggestionTypeOK'
    BY <2>1, <2>2, DataTypes, ProgramTypes DEF SuggestionNext, SuggestionsInv
  <2>4. SeatsDiffer' /\ SeatsBelong'
    BY <2>1, <2>2, SeatsStayInOrder DEF SuggestionsInv
  <2>5. RowsAreTimely' /\ NoneForgotten'
    BY <2>1, <2>2, RowsStayTimely, NoneIsForgotten DEF SuggestionsInv
  <2>6. SuggestionRanksDiffer' /\ BallotsCount'
    BY <2>1, <2>2, RanksStayDifferent, BallotsStillCount DEF SuggestionsInv
  <2> QED BY <2>1, <2>2, <2>3, <2>4, <2>5, <2>6 DEF OrderInv, SuggestionsInv
<1>2. CASE Issues(IssueNext)
  <2>1. /\ IssueNext /\ service = "issue" /\ service' = service
        /\ UNCHANGED <<spc, calculated, order>>
    BY <1>2 DEF Issues, suggestionvars, data
  <2>2. IssuesInv /\ SuggestionsRest /\ SeatsDiffer
    BY <2>1 DEF OrderInv
  <2>3. IssueTypeOK' /\ SeatsDiffer'
    <3>1. CASE NewIssue \/ LeaveAdmission \/ ChangeSupport
      <4>1. UNCHANGED runoff
        BY <3>1 DEF NewIssue, LeaveAdmission, ChangeSupport, iprogram
      <4>2. SeatsDiffer'
        BY <2>2, <4>1 DEF SeatsDiffer, Unseated, runoff
      <4> QED BY <2>2, <3>1, <4>2, EventTypes DEF IssuesInv
    <3> QED BY <2>1, <2>2, <3>1, IssueProgramTypes DEF IssueNext, IssuesInv
  <2>4. InTurn'
    BY <2>1, <2>2, TurnsAreKept DEF IssuesInv
  <2>5. SuggestionsRest'
    BY <2>1, <2>2 DEF SuggestionsRest
  <2> QED BY <2>1, <2>3, <2>4, <2>5 DEF OrderInv, IssuesInv
<1>3. CASE UNCHANGED ordervars
  <2>1. UNCHANGED svars /\ UNCHANGED ivars /\ UNCHANGED service
    BY <1>3 DEF ordervars
  <2> USE <2>1 DEF svars, program, data, runoff, ivars, iprogram, idata
  <2>2. SeatsDiffer' /\ SuggestionsRest' = SuggestionsRest /\ ipc' = ipc
    BY DEF OrderInv, SeatsDiffer, Unseated, SuggestionsRest
  <2>3. SuggestionTypeOK' = SuggestionTypeOK /\ SeatsBelong' = SeatsBelong
    BY DEF SuggestionTypeOK, SeatsBelong, Busy, Of
  <2>4. RowsAreTimely' = RowsAreTimely /\ NoneForgotten' = NoneForgotten
    BY DEF RowsAreTimely, NoneForgotten, Timely, Busy, SuggestionSuccess
  <2>5. SuggestionRanksDiffer' = SuggestionRanksDiffer /\ BallotsCount' = BallotsCount
    BY DEF SuggestionRanksDiffer, BallotsCount, FinalOrderCountsEverybody, Ballots, Of, Busy
  <2>6. IssueTypeOK' = IssueTypeOK /\ InTurn' = InTurn
    BY DEF IssueTypeOK, IssuesOf, InTurn, IssueSuccess, AreasAreDue, UnitsAreDue, Seating, DoneBut
  <2> QED BY <2>2, <2>3, <2>4, <2>5, <2>6 DEF OrderInv, SuggestionsInv, IssuesInv
<1> QED BY <1>1, <1>2, <1>3 DEF Next

\* What the seats need beside OrderInv.
FairInv == ScoresOK /\ SeatsAreFair

LEMMA FairBegins ==
  ASSUME Init
  PROVE  FairInv
<1>1. ballots = <<>> /\ seat = <<>> /\ score = <<>> /\ one = 1
  BY DEF Init, SuggestionStart, IssueStart
<1>2. DOMAIN seat = {} /\ DOMAIN score = {} /\ DOMAIN ballots = {}
  BY <1>1
<1>3. seat \in [DOMAIN seat -> Nat] /\ score \in [DOMAIN seat -> Nat]
  BY <1>1, <1>2
<1>4. ScoresOK
  BY <1>1, <1>2, <1>3, FS_EmptySet DEF ScoresOK, Castable
<1>5. SeatsAreFair
  BY <1>2 DEF SeatsAreFair, Left, Unseated
<1> QED BY <1>4, <1>5 DEF FairInv

LEMMA FairGoesOn ==
  ASSUME SuggestionAssumption, IssueAssumption, OrderInv, FairInv, [Next]_ordervars
  PROVE  FairInv'
<1>1. CASE Suggestions(SuggestionNext)
  BY <1>1, SuggestionsGo, FairStep DEF Suggestions, OrderInv, SuggestionsInv, FairInv
<1>2. CASE Issues(IssueNext)
  BY <1>2, IssuesGo, FairStep DEF Issues, OrderInv, IssuesInv, FairInv
<1>3. CASE UNCHANGED ordervars
  <2>1. UNCHANGED runoff
    BY <1>3 DEF ordervars, svars, program
  <2> QED BY <2>1, FairStep DEF Goes, FairInv
<1> QED BY <1>1, <1>2, <1>3 DEF Next

-----------------------------------------------------------------------------
(* Theorems                                                                *)

\* The invariant holds.
THEOREM OrderInvariant == Spec => []OrderInv
<1>1. Init => OrderInv
  BY OrderBegins, SuggestionAssumption, IssueAssumption
<1>2. OrderInv /\ [Next]_ordervars => OrderInv'
  BY OrderGoesOn, SuggestionAssumption, IssueAssumption
<1> QED BY <1>1, <1>2, PTL DEF Spec

\* The rounds of the runoff are fair at all times.
THEOREM RunoffIsFair == Spec => []FairInv
<1>1. Init => FairInv
  BY FairBegins
<1>2. OrderInv /\ FairInv /\ [Next]_ordervars => FairInv'
  BY FairGoesOn, SuggestionAssumption, IssueAssumption
<1> QED BY <1>1, <1>2, OrderInvariant, PTL DEF Spec

\* The state of the two programs, the runoff and what they store has the declared
\* form; the scores, which are sums over the ballots, never exceed a seat's price.
THEOREM OrdersAreTyped == Spec => []OrderTypeOK
<1>1. OrderInv /\ FairInv => OrderTypeOK
  BY DEF OrderInv, FairInv, ScoresOK, Castable, SuggestionsInv, IssuesInv, OrderTypeOK,
         RunoffTypeOK
<1> QED BY <1>1, OrderInvariant, RunoffIsFair, PTL

\* The seats of a finished runoff are proportional, whatever the ratings, weights
\* and supporters: as long as the members who agree that some candidates come
\* first have more than their share of the seats that are left, the worst of
\* those seats goes to another candidate (lf_update_suggestion_order.c:98-183).
THEOREM SeatsAreProportional == Spec => []MinoritiesAreRepresented
<1>1. FairInv => MinoritiesAreRepresented
  BY FairIsProportional DEF FairInv, MinoritiesAreRepresented
<1> QED BY <1>1, RunoffIsFair, PTL

\* Of two suggestions of an initiative with a place none has that of the other,
\* and a final order has counted the ballots there were when the issue was
\* frozen, whatever members, lf_update and failures do between the reading of the
\* ratings (lf_update_suggestion_order.c:445) and the writing of the ranks.
THEOREM StoredOrdersAreSound == Spec => []OrdersAreSound
<1>1. OrderInv => OrdersAreSound
  <2>1. CASE service = "suggestion"
    BY <2>1 DEF OrderInv, SuggestionsInv, BallotsCount, OrdersAreSound
  <2>2. CASE service = "issue"
    BY <2>2 DEF OrderInv, SuggestionsRest, OrdersAreSound, SuggestionRanksDiffer,
                FinalOrderCountsEverybody
  <2> QED BY <2>1, <2>2 DEF OrderInv
<1> QED BY <1>1, OrderInvariant, PTL

\* A run of either program that exits with success has stored the order of every
\* initiative that is still open, of every area and of every unit.
THEOREM SuccessIsNoAccident == Spec => []SuccessMeansStored
<1>1. OrderInv => SuccessMeansStored
  <2>1. CASE service = "suggestion"
    BY <2>1 DEF OrderInv, SuggestionsInv, NoneForgotten, SuccessMeansStored, IssueSuccess
  <2>2. CASE service = "issue"
    BY <2>2 DEF OrderInv, IssuesInv, InTurn, SuggestionsRest, SuccessMeansStored, SuggestionSuccess
  <2> QED BY <2>1, <2>2 DEF OrderInv
<1> QED BY <1>1, OrderInvariant, PTL
=============================================================================
