----------------------- MODULE IssueLifecycle_proofs -----------------------
(***************************************************************************)
(* Proofs about IssueLifecycle, for any number of members, initiatives,    *)
(* sessions and crashes, and any policy.                                   *)
(*                                                                         *)
(* The inductive invariant IInv says what the two things that live longer  *)
(* than a transaction rely on.  The value "persist" that lf_update hands   *)
(* from call to call relies on phase_finished: once it is set, the CHECK   *)
(* constraint phase_finished_only_when_not_closed keeps administrators     *)
(* out, and the tests of the frontend keep the voters out.  The test that  *)
(* an open session has made relies on its share lock: the issue row cannot *)
(* change under it.                                                        *)
(*                                                                         *)
(* Settled, inductive together with IInv, says what every phase leaves to  *)
(* the next: which snapshot was taken and when, what it decided about the  *)
(* initiatives, and that no session can change what it has counted.  With  *)
(* both, every step is a step of IssueProcedure or none.                   *)
(*                                                                         *)
(* RowSound, on top of both, is the order of the timestamps and who alone  *)
(* can make a CHECK constraint refuse an UPDATE.                           *)
(***************************************************************************)
EXTENDS IssueRefinement, FiniteSetTheorems, TLAPS

(* Something was found to do that ends the phase.                           *)
Busy(p) == p.phase_finished \/ p.issue_revoked \/ p.conflicting_section

(* The state column and the timestamps of the issue row agree.             *)
RowValid == ValidState(issue) /\ (issue.phase_finished = Null \/ issue.closed = Null)

(* While the end of a phase is being worked on, the issue stays put.       *)
HandedOver ==
    /\ Busy(persist) => /\ issue.phase_finished # Null
                        /\ issue.state = persist.state
    /\ persist.state = "voting" => Busy(persist)
    /\ persist.harmonic_weights_set => MoreToDo

(* The ballots are counted once the box is sealed, and it stays sealed.    *)
CountIsFinal ==
    /\ persist.closed_voting => persist.state = "voting" /\ counted = voter
    /\ call = "tx" /\ persist.state = "voting" => snap.voter = voter
    /\ issue.state \in Finished => counted = voter

(* The test that admitted an open session still holds.                      *)
StillOpen(op) ==
    /\ issue.closed = Null
    /\ op = "revoke" => issue.half_frozen = Null
    /\ op \notin {"vote", "unvote", "revoke"} => issue.fully_frozen = Null

SessionsOpen == \A s \in Session : fe[s] # NoTx => StillOpen(fe[s].request.op)

IInv == TypeOK /\ RowValid /\ HandedOver /\ CountIsFinal /\ SessionsOpen

-----------------------------------------------------------------------------
USE DEF Time, Deliberation, Finished, Canceled, IssueState, SnapshotEvent

(* Rows of "initiative" as they are when there is none, and when one is new. *)
LEMMA NewRowTyped ==
  /\ NoInitiative \in InitiativeRow
  /\ \A polling \in BOOLEAN : /\ NewInitiative(polling) \in InitiativeRow
                             /\ NewInitiative(polling).exists
                             /\ NewInitiative(polling).revoked = Null
<1>1. NoInitiative \in InitiativeRow
  BY DEF InitiativeRow, NoInitiative
<1>2. NoInitiative.revoked = Null
  BY DEF NoInitiative
<1> QED BY <1>1, <1>2 DEF InitiativeRow, NewInitiative

(* The initial row and the initial tables satisfy the invariant.            *)
LEMMA InitIInv == ASSUME Init PROVE IInv
<1> USE NullAssumption, OptionAssumption
<1>1. TypeOK
  <2>1. issue \in IssueRow
    BY DEF Init, IssueRow
  <2>2. initiative \in [Initiative -> InitiativeRow]
    <3>1. PICK polling \in BOOLEAN, k \in Initiative :
            initiative = [j \in Initiative |->
               IF j = k THEN NewInitiative(polling) ELSE NoInitiative]
      BY DEF Init
    <3> QED BY <3>1, NewRowTyped
  <2>3. interest \in SUBSET Member /\ supporter \in SupportType
    BY DEF Init, SupportType
  <2>4. TablesTyped
    BY <2>1, <2>2, <2>3 DEF Init, TablesTyped
  <2>5. persist \in PersistType
    BY DEF Init, PersistType, NoPersist
  <2>6. snap \in SnapType
    BY NewRowTyped DEF Init, SnapType, NoSnap, SupportType
  <2>7. LfTyped
    BY <2>5, <2>6 DEF Init, LfTyped
  <2> QED BY <2>4, <2>7 DEF Init, TypeOK
<1>2. RowValid
  BY DEF Init, RowValid, ValidState
<1>3. HandedOver /\ CountIsFinal
  BY DEF Init, HandedOver, CountIsFinal, Busy, NoPersist, MoreToDo
<1>4. SessionsOpen
  BY DEF Init, SessionsOpen
<1> QED BY <1>1, <1>2, <1>3, <1>4 DEF IInv

-----------------------------------------------------------------------------
(* lf_update holds nothing, or the initial value, between two runs.         *)
LEMMA ResetTyped == NoPersist \in PersistType /\ NoSnap \in SnapType
<1>1. NoPersist \in PersistType
  BY DEF PersistType, NoPersist
<1>2. NoSnap \in SnapType
  BY NewRowTyped DEF SnapType, NoSnap, SupportType
<1> QED BY <1>1, <1>2

LEMMA ResetIsSafe ==
  ~Busy(NoPersist) /\ NoPersist.state = Null /\ NoPersist.state # "voting"
  /\ ~NoPersist.harmonic_weights_set /\ ~NoPersist.closed_voting
BY NullAssumption DEF NoPersist, Busy

(* A transaction that waited for the share locks finds no open session.     *)
LEMMA NobodyInside ==
  ASSUME ~ShareLocked, UNCHANGED fe
  PROVE  SessionsOpen'
BY DEF ShareLocked, SessionsOpen

(* An UPDATE of the issue that its CHECK constraints let through.           *)
LEMMA UpdateKeepsIInv ==
  ASSUME IInv, NEW r, NEW voters \in SUBSET Member,
         NEW count \in (SUBSET Member) \cup {Null},
         Checks(r) => r \in IssueRow,
         r.state \in Finished => count = voters,
         Touches({"issue"}),
         UpdateIssue(r, voters, count),
         UNCHANGED <<clock, conflict, fe>>
  PROVE  IInv'
<1>1. LfTyped'
  BY ResetTyped DEF UpdateIssue, ReturnNull, Abort, Idle, IInv, TypeOK, LfTyped
<1>2. TablesTyped'
  BY DEF UpdateIssue, Abort, IInv, TypeOK, TablesTyped, tables
<1>3. TypeOK'
  BY <1>1, <1>2 DEF IInv, TypeOK
<1>4. RowValid'
  BY DEF UpdateIssue, Abort, IInv, RowValid, tables, Checks, ValidState
<1>5. persist' = NoPersist /\ call' = "idle"
  BY DEF UpdateIssue, ReturnNull, Abort, Idle
<1>6. HandedOver'
  BY <1>5, ResetIsSafe DEF HandedOver, Busy, MoreToDo
<1>7. issue'.state \in Finished => counted' = voter'
  BY DEF UpdateIssue, Abort, IInv, CountIsFinal, tables
<1>8. CountIsFinal'
  BY <1>5, <1>7, ResetIsSafe DEF CountIsFinal
<1>9. SessionsOpen'
  BY NobodyInside DEF Touches
<1> QED BY <1>3, <1>4, <1>6, <1>8, <1>9 DEF IInv

-----------------------------------------------------------------------------
(* The sections of check_issue.                                            *)
LEMMA StartKeepsIInv ==
  ASSUME IInv, Start, UNCHANGED <<clock, conflict, fe>>
  PROVE  IInv'
<1> DEFINE over    == PhaseOver(snap.now)
           revoked == IssueRevoked(over)
           taken   == issue.state = "admission" /\ snap.conflict
<1> USE NullAssumption
<1>1. over \in BOOLEAN /\ revoked \in BOOLEAN /\ taken \in BOOLEAN
  BY DEF PhaseOver, IssueRevoked
<1>2. SessionsOpen'
  BY NobodyInside DEF Start, Touches
<1>3. snap.now \in Nat
  BY DEF IInv, TypeOK, LfTyped, SnapType
<1>4. CASE UNCHANGED issue /\ ReturnNull
  <2>1. LfTyped'
    BY <1>4, ResetTyped DEF ReturnNull, Idle, IInv, TypeOK, LfTyped
  <2>2. TypeOK' /\ RowValid'
    BY <1>4, <2>1 DEF Start, IInv, TypeOK, TablesTyped, RowValid, ValidState
  <2>3. persist' = NoPersist /\ call' = "idle"
    BY <1>4 DEF ReturnNull, Idle
  <2>4. HandedOver'
    BY <2>3, ResetIsSafe DEF HandedOver, Busy, MoreToDo
  <2>5. CountIsFinal'
    BY <1>4, <2>3, ResetIsSafe DEF Start, IInv, CountIsFinal
  <2> QED BY <1>2, <2>2, <2>4, <2>5 DEF IInv
<1>5. CASE /\ issue.closed = Null
           /\ issue' = IF over \/ revoked \/ taken THEN FinishPhase ELSE issue
           /\ over \/ revoked \/ taken \/ issue.state \in Deliberation
           /\ Return([NoPersist EXCEPT !.state = issue.state, !.phase_finished = over,
                        !.issue_revoked = revoked, !.conflicting_section = taken])
  <2> DEFINE p == [NoPersist EXCEPT !.state = issue.state, !.phase_finished = over,
                     !.issue_revoked = revoked, !.conflicting_section = taken]
  <2> HIDE DEF over, revoked, taken
  <2>1. issue.state \in Deliberation \cup {"voting"}
    BY <1>5 DEF IInv, RowValid, ValidState
  <2>2. p \in PersistType
    BY <1>1, <2>1, ResetTyped DEF PersistType
  <2>3. /\ p.state = issue.state /\ ~p.harmonic_weights_set /\ ~p.closed_voting
        /\ Busy(p) <=> over \/ revoked \/ taken
    BY <1>1, ResetTyped, ResetIsSafe DEF PersistType, Busy
  <2>4. persist' = p /\ call' = "ready" /\ snap' = NoSnap /\ UNCHANGED <<error, crashes>>
    BY <1>5 DEF Return
  <2> HIDE DEF p
  <2>5. LfTyped'
    BY <2>2, <2>4, ResetTyped DEF IInv, TypeOK, LfTyped
  <2>6. issue' \in IssueRow /\ issue'.state = issue.state /\ issue'.closed = issue.closed
        /\ (over \/ revoked \/ taken => issue'.phase_finished # Null)
    BY <1>3, <1>5 DEF IInv, TypeOK, TablesTyped, IssueRow, FinishPhase
  <2>7. TypeOK'
    BY <2>5, <2>6 DEF Start, IInv, TypeOK, TablesTyped
  <2>8. RowValid'
    BY <1>3, <1>5 DEF IInv, RowValid, ValidState, TypeOK, TablesTyped, IssueRow, FinishPhase
  <2>9. HandedOver'
    BY <1>5, <2>1, <2>3, <2>4, <2>6 DEF HandedOver, Busy, MoreToDo
  <2>10. CountIsFinal'
    BY <2>1, <2>3, <2>4, <2>6 DEF CountIsFinal
  <2> QED BY <1>2, <2>7, <2>8, <2>9, <2>10 DEF IInv
<1> QED BY <1>4, <1>5 DEF Start

(* The population of a snapshot consists of members.                        *)
LEMMA CreateSnapshotKeepsIInv ==
  ASSUME IInv, CreateSnapshot, UNCHANGED <<clock, conflict, fe>>
  PROVE  IInv'
<1> DEFINE event == IF persist.phase_finished THEN FinalEvent[persist.state] ELSE "periodic"
<1> USE NullAssumption
<1>1. SessionsOpen'
  BY NobodyInside DEF CreateSnapshot, Touches
<1>2. event \in SnapshotEvent
  BY DEF CreateSnapshot, AwaitsSnapshot, FinalEvent
<1>3. CASE Abort("unique_violation")
  <2>1. LfTyped' /\ UNCHANGED tables /\ persist' = NoPersist /\ call' = "idle"
    BY <1>3, ResetTyped DEF Abort, Idle, IInv, TypeOK, LfTyped
  <2>2. TypeOK' /\ RowValid'
    BY <2>1 DEF IInv, TypeOK, TablesTyped, tables, RowValid, ValidState
  <2>3. HandedOver' /\ CountIsFinal'
    BY <2>1, ResetIsSafe DEF IInv, HandedOver, Busy, MoreToDo, CountIsFinal, tables
  <2> QED BY <1>1, <2>2, <2>3 DEF IInv
<1>4. CASE /\ issue' = [issue EXCEPT !.snapshot = Coalesce(issue.phase_finished, snap.now),
                                     !.latest_snapshot_event = event]
           /\ snapshots' = [snapshots EXCEPT
                              !["periodic"] = IF event = "periodic" THEN Population ELSE {},
                              ![event] = IF event = "periodic" THEN Population
                                         ELSE @ \cup Population]
           /\ \E satisfying \in SUBSET Admissible :
                 initiative' = [k \in Initiative |->
                      IF k \in Visible THEN Counted(k, satisfying) ELSE initiative[k]]
           /\ Return([persist EXCEPT !.snapshot_created = TRUE])
           /\ UNCHANGED <<interest, supporter, voter, counted>>
  <2> HIDE DEF event
  <2>1. Population \in SUBSET Member
    BY OptionAssumption DEF Population, IInv, TypeOK, LfTyped, SnapType
  <2>2. snapshots' \in [SnapshotEvent -> SUBSET Member]
    BY <1>2, <1>4, <2>1 DEF IInv, TypeOK, TablesTyped
  <2>3. issue' \in IssueRow
    <3>1. issue \in IssueRow /\ snap.now \in Nat
      BY DEF IInv, TypeOK, TablesTyped, LfTyped, SnapType
    <3>2. Coalesce(issue.phase_finished, snap.now) \in Nat
      BY <3>1 DEF IssueRow, Coalesce
    <3> QED BY <1>2, <1>4, <3>1, <3>2 DEF IssueRow
  <2>4. ASSUME NEW k \in Initiative, NEW satisfying
        PROVE  Counted(k, satisfying) \in InitiativeRow
    <3>1. initiative[k] \in InitiativeRow
      BY DEF IInv, TypeOK, TablesTyped
    <3>2. ASSUME NEW b \in BOOLEAN
          PROVE  [initiative[k] EXCEPT !.quorum = b] \in InitiativeRow
      BY <3>1 DEF InitiativeRow
    <3>3. ASSUME NEW row \in InitiativeRow, NEW a \in {"admitted", "rejected"}
          PROVE  [row EXCEPT !.admitted = a] \in InitiativeRow
      BY DEF InitiativeRow
    <3> DEFINE q == Quorum(Cardinality(Supporters(k)), Cardinality(Population),
                           IssueQuorumNum, IssueQuorumDen)
    <3>4. q \in BOOLEAN
      BY DEF Quorum
    <3> HIDE DEF q
    <3>5. [initiative[k] EXCEPT !.quorum = q] \in InitiativeRow
      BY <3>2, <3>4
    <3> QED BY <3>3, <3>5 DEF Counted, q
  <2>5. initiative' \in [Initiative -> InitiativeRow]
    <3>1. \A k \in Initiative : initiative[k] \in InitiativeRow
      BY DEF IInv, TypeOK, TablesTyped
    <3> QED BY <1>4, <2>4, <3>1
  <2>6. TablesTyped'
    BY <1>4, <2>2, <2>3, <2>5 DEF IInv, TypeOK, TablesTyped
  <2> DEFINE p == [persist EXCEPT !.snapshot_created = TRUE]
  <2>7. /\ p \in PersistType /\ p.state = persist.state /\ Busy(p) = Busy(persist)
        /\ p.phase_finished = persist.phase_finished
        /\ p.issue_revoked = persist.issue_revoked
        /\ p.harmonic_weights_set = persist.harmonic_weights_set
        /\ p.closed_voting = persist.closed_voting
    BY DEF IInv, TypeOK, LfTyped, PersistType, Busy
  <2> HIDE DEF p
  <2>8. persist' = p /\ call' = "ready" /\ snap' = NoSnap /\ UNCHANGED <<error, crashes>>
    BY <1>4 DEF Return, p
  <2>9. TypeOK'
    BY <2>6, <2>7, <2>8, ResetTyped DEF IInv, TypeOK, LfTyped
  <2>10. /\ issue'.phase_finished = issue.phase_finished /\ issue'.state = issue.state
         /\ issue'.closed = issue.closed /\ issue'.accepted = issue.accepted
         /\ issue'.half_frozen = issue.half_frozen
         /\ issue'.fully_frozen = issue.fully_frozen
    BY <1>4 DEF IInv, TypeOK, TablesTyped, IssueRow
  <2>11. RowValid'
    BY <2>10 DEF IInv, RowValid, ValidState
  <2>12. HandedOver' /\ CountIsFinal'
    BY <1>4, <2>7, <2>8, <2>10 DEF IInv, HandedOver, Busy, MoreToDo, CountIsFinal
  <2> QED BY <1>1, <2>9, <2>11, <2>12 DEF IInv
<1> QED BY <1>3, <1>4 DEF CreateSnapshot

LEMMA SetHarmonicWeightsKeepsIInv ==
  ASSUME IInv, SetHarmonicWeights, UNCHANGED <<clock, conflict, fe>>
  PROVE  IInv'
<1> DEFINE p == [persist EXCEPT !.harmonic_weights_set = TRUE]
<1>1. /\ p \in PersistType /\ p.state = persist.state /\ Busy(p) = Busy(persist)
      /\ p.phase_finished = persist.phase_finished
      /\ p.issue_revoked = persist.issue_revoked
      /\ p.closed_voting = persist.closed_voting
  BY DEF IInv, TypeOK, LfTyped, PersistType, Busy
<1> HIDE DEF p
<1>2. (MoreToDo /\ persist' = p /\ call' = "ready") \/ (persist' = NoPersist /\ call' = "idle")
  BY DEF SetHarmonicWeights, Return, ReturnNull, Idle, p
<1>3. snap' = NoSnap /\ UNCHANGED <<error, crashes>> /\ UNCHANGED tables
  BY DEF SetHarmonicWeights, Return, ReturnNull, Idle
<1>4. TypeOK' /\ RowValid'
  BY <1>1, <1>2, <1>3, ResetTyped
     DEF IInv, TypeOK, TablesTyped, LfTyped, tables, RowValid, ValidState
<1>5. HandedOver'
  BY <1>1, <1>2, <1>3, ResetIsSafe DEF IInv, HandedOver, Busy, MoreToDo, tables
<1>6. CountIsFinal'
  BY <1>1, <1>2, <1>3, ResetIsSafe DEF IInv, CountIsFinal, tables
<1>7. SessionsOpen'
  BY <1>3 DEF IInv, SessionsOpen, StillOpen, tables
<1> QED BY <1>4, <1>5, <1>6, <1>7 DEF IInv

LEMMA CloseVotingKeepsIInv ==
  ASSUME IInv, CloseVoting, UNCHANGED <<clock, conflict, fe>>
  PROVE  IInv'
<1> DEFINE p == [persist EXCEPT !.closed_voting = TRUE]
<1>1. /\ p \in PersistType /\ p.state = persist.state /\ Busy(p) = Busy(persist)
      /\ p.phase_finished = persist.phase_finished
      /\ p.issue_revoked = persist.issue_revoked
      /\ p.harmonic_weights_set = persist.harmonic_weights_set
  BY DEF IInv, TypeOK, LfTyped, PersistType, Busy
<1> HIDE DEF p
<1>2. /\ persist' = p /\ call' = "ready" /\ snap' = NoSnap /\ UNCHANGED <<error, crashes>>
      /\ UNCHANGED <<issue, initiative, interest, supporter, voter, snapshots>>
  BY DEF CloseVoting, Return, p
<1>3. counted' = voter /\ persist.state = "voting"
  BY DEF CloseVoting, Touches, IInv, CountIsFinal
<1>4. TypeOK' /\ RowValid'
  BY <1>1, <1>2, <1>3, ResetTyped
     DEF IInv, TypeOK, TablesTyped, LfTyped, RowValid, ValidState
<1>5. HandedOver'
  BY <1>1, <1>2 DEF IInv, HandedOver, Busy, MoreToDo
<1>6. CountIsFinal'
  BY <1>1, <1>2, <1>3 DEF IInv, CountIsFinal
<1>7. SessionsOpen'
  BY <1>2 DEF IInv, SessionsOpen, StillOpen
<1> QED BY <1>4, <1>5, <1>6, <1>7 DEF IInv

(* Canceling, admitting and freezing: each is an UPDATE of the issue.        *)
LEMMA CancelIssueKeepsIInv ==
  ASSUME IInv, CancelIssue, UNCHANGED <<clock, conflict, fe>>
  PROVE  IInv'
<1> DEFINE r == [issue EXCEPT !.state = CanceledState,
                              !.closed = issue.phase_finished, !.phase_finished = Null]
<1>1. issue \in IssueRow /\ voter \in SUBSET Member
      /\ counted \in (SUBSET Member) \cup {Null}
  BY DEF IInv, TypeOK, TablesTyped
<1>2. r.state = CanceledState /\ CanceledState \notin Finished
  BY <1>1, NullAssumption DEF IssueRow, CanceledState
<1>3. Checks(r) => r.state \in IssueState
  BY DEF Checks, ValidState
<1>4. Checks(r) => r \in IssueRow
  BY <1>1, <1>2, <1>3 DEF IssueRow
<1>5. Touches({"issue"}) /\ UpdateIssue(r, voter, counted)
  BY DEF CancelIssue
<1> HIDE DEF r
<1> QED BY <1>1, <1>2, <1>4, <1>5, UpdateKeepsIInv

LEMMA AdmitIssueKeepsIInv ==
  ASSUME IInv, AdmitIssue, UNCHANGED <<clock, conflict, fe>>
  PROVE  IInv'
<1> DEFINE accepted == [issue EXCEPT !.state = "discussion",
                          !.accepted = Coalesce(issue.phase_finished, snap.now),
                          !.phase_finished = Null]
           canceled == [issue EXCEPT !.state = "canceled_issue_not_accepted",
                          !.closed = issue.phase_finished, !.phase_finished = Null]
<1>1. issue \in IssueRow /\ snap.now \in Nat /\ voter \in SUBSET Member
      /\ counted \in (SUBSET Member) \cup {Null}
  BY DEF IInv, TypeOK, TablesTyped, LfTyped, SnapType
<1>2. Coalesce(issue.phase_finished, snap.now) \in Nat
  BY <1>1 DEF IssueRow, Coalesce
<1>3. accepted \in IssueRow /\ canceled \in IssueRow
      /\ accepted.state = "discussion" /\ canceled.state = "canceled_issue_not_accepted"
  BY <1>1, <1>2 DEF IssueRow
<1>4. Touches({"issue"}) /\ \/ UpdateIssue(accepted, voter, counted)
                            \/ UpdateIssue(canceled, voter, counted)
                            \/ ReturnNull /\ UNCHANGED tables
  BY DEF AdmitIssue
<1> HIDE DEF accepted, canceled
<1>5. CASE UpdateIssue(accepted, voter, counted)
  BY <1>1, <1>3, <1>4, <1>5, UpdateKeepsIInv
<1>6. CASE UpdateIssue(canceled, voter, counted)
  BY <1>1, <1>3, <1>4, <1>6, UpdateKeepsIInv
<1>7. CASE ReturnNull /\ UNCHANGED tables
  <2>1. persist' = NoPersist /\ call' = "idle"
    BY <1>7 DEF ReturnNull, Idle
  <2>2. TypeOK' /\ RowValid'
    BY <1>7, ResetTyped DEF ReturnNull, Idle, IInv, TypeOK, TablesTyped, LfTyped,
       tables, RowValid, ValidState
  <2>3. HandedOver' /\ CountIsFinal'
    BY <1>7, <2>1, ResetIsSafe DEF IInv, HandedOver, Busy, MoreToDo, CountIsFinal, tables
  <2>4. SessionsOpen'
    BY <1>4, NobodyInside DEF Touches
  <2> QED BY <2>2, <2>3, <2>4 DEF IInv
<1> QED BY <1>4, <1>5, <1>6, <1>7

LEMMA HalfFreezeKeepsIInv ==
  ASSUME IInv, HalfFreeze, UNCHANGED <<clock, conflict, fe>>
  PROVE  IInv'
<1> DEFINE r == [issue EXCEPT !.state = "verification",
                              !.half_frozen = issue.phase_finished, !.phase_finished = Null]
<1>1. issue \in IssueRow /\ voter \in SUBSET Member
      /\ counted \in (SUBSET Member) \cup {Null}
  BY DEF IInv, TypeOK, TablesTyped
<1>2. r \in IssueRow /\ r.state = "verification"
  BY <1>1 DEF IssueRow
<1>3. Touches({"issue"}) /\ UpdateIssue(r, voter, counted)
  BY DEF HalfFreeze
<1> HIDE DEF r
<1> QED BY <1>1, <1>2, <1>3, UpdateKeepsIInv

LEMMA FullFreezeKeepsIInv ==
  ASSUME IInv, FullFreeze, UNCHANGED <<clock, conflict, fe>>
  PROVE  IInv'
<1> DEFINE frozen == [issue EXCEPT !.fully_frozen = issue.phase_finished,
                                   !.phase_finished = Null]
           open   == [frozen EXCEPT !.state = "voting"]
           closed == [frozen EXCEPT !.state = "canceled_no_initiative_admitted",
                                    !.closed = frozen.fully_frozen]
<1>1. issue \in IssueRow /\ voter \in SUBSET Member
      /\ counted \in (SUBSET Member) \cup {Null}
  BY DEF IInv, TypeOK, TablesTyped
<1>2. frozen \in IssueRow
  BY <1>1 DEF IssueRow
<1>3. Touches({"issue"}) /\ \/ UpdateIssue(open, voter, counted)
                            \/ UpdateIssue(closed, {}, Null)
  BY DEF FullFreeze
<1> HIDE DEF frozen
<1>4. /\ open \in IssueRow /\ open.state = "voting"
      /\ closed \in IssueRow /\ closed.state = "canceled_no_initiative_admitted"
  BY <1>2 DEF IssueRow
<1> HIDE DEF open, closed
<1>5. CASE UpdateIssue(open, voter, counted)
  BY <1>1, <1>3, <1>4, <1>5, UpdateKeepsIInv
<1>6. CASE UpdateIssue(closed, {}, Null)
  BY <1>1, <1>3, <1>4, <1>6, UpdateKeepsIInv
<1> QED BY <1>3, <1>5, <1>6

(* The ranking closes the issue over the ballots that were counted.         *)
LEMMA CalculateRanksKeepsIInv ==
  ASSUME IInv, CalculateRanks, UNCHANGED <<clock, conflict, fe>>
  PROVE  IInv'
<1>1. issue \in IssueRow /\ voter \in SUBSET Member
      /\ counted \in (SUBSET Member) \cup {Null}
  BY DEF IInv, TypeOK, TablesTyped
<1>2. counted = voter
  BY DEF CalculateRanks, IInv, CountIsFinal
<1>3. Touches({"issue"})
  BY DEF CalculateRanks, Touches, Conflicting
<1>4. PICK outcome \in Finished :
        UpdateIssue([issue EXCEPT !.state = outcome, !.closed = issue.phase_finished,
                                  !.phase_finished = Null], voter, counted)
  BY DEF CalculateRanks
<1> DEFINE r == [issue EXCEPT !.state = outcome, !.closed = issue.phase_finished,
                              !.phase_finished = Null]
<1>5. r \in IssueRow
  BY <1>1 DEF IssueRow
<1> HIDE DEF r
<1>6. UpdateIssue(r, voter, counted)
  BY <1>4 DEF r
<1> QED BY <1>1, <1>2, <1>3, <1>5, <1>6, UpdateKeepsIInv

LEMMA CheckIssueKeepsIInv == ASSUME IInv, CheckIssue PROVE IInv'
BY StartKeepsIInv, CreateSnapshotKeepsIInv, SetHarmonicWeightsKeepsIInv,
   CancelIssueKeepsIInv, AdmitIssueKeepsIInv, HalfFreezeKeepsIInv, FullFreezeKeepsIInv,
   CloseVotingKeepsIInv, CalculateRanksKeepsIInv DEF CheckIssue

-----------------------------------------------------------------------------
(* The loop of lf_update.                                                   *)
LEMMA SelectOpenIssueKeepsIInv == ASSUME IInv, SelectOpenIssue PROVE IInv'
<1>1. persist' = NoPersist /\ call' = "ready" /\ UNCHANGED <<clock, tables, conflict, fe>>
  BY DEF SelectOpenIssue
<1>2. TypeOK' /\ RowValid' /\ SessionsOpen'
  BY ResetTyped DEF SelectOpenIssue, IInv, TypeOK, TablesTyped, LfTyped, tables,
     RowValid, ValidState, SessionsOpen, StillOpen
<1>3. HandedOver' /\ CountIsFinal'
  BY <1>1, ResetIsSafe DEF IInv, HandedOver, Busy, MoreToDo, CountIsFinal, tables
<1> QED BY <1>2, <1>3 DEF IInv

LEMMA BeginCallKeepsIInv == ASSUME IInv, BeginCall PROVE IInv'
<1>1. Snapshot \in SnapType /\ Snapshot.voter = voter
  BY DEF Snapshot, SnapType, IInv, TypeOK, TablesTyped
<1>2. snap' = Snapshot /\ call' = "tx"
      /\ UNCHANGED <<clock, tables, conflict, fe, persist, error, crashes>>
  BY DEF BeginCall
<1>3. TypeOK' /\ RowValid' /\ SessionsOpen'
  BY <1>1, <1>2 DEF IInv, TypeOK, TablesTyped, LfTyped, tables,
     RowValid, ValidState, SessionsOpen, StillOpen
<1>4. HandedOver' /\ CountIsFinal'
  BY <1>1, <1>2 DEF IInv, HandedOver, Busy, MoreToDo, CountIsFinal, tables
<1> QED BY <1>3, <1>4 DEF IInv

(* Losing the call leaves the tables alone.                                 *)
LEMMA LostCallKeepsIInv ==
  ASSUME IInv, SerializationFailure \/ Crash
  PROVE  IInv'
<1>1. /\ persist' = NoPersist /\ call' = "idle"
      /\ UNCHANGED <<clock, tables, conflict, fe>>
  BY DEF SerializationFailure, Crash, Abort, Idle
<1>2. LfTyped'
  BY ResetTyped DEF SerializationFailure, Crash, Abort, Idle, IInv, TypeOK, LfTyped
<1>3. TypeOK' /\ RowValid' /\ SessionsOpen'
  BY <1>1, <1>2 DEF IInv, TypeOK, TablesTyped, tables,
     RowValid, ValidState, SessionsOpen, StillOpen
<1>4. HandedOver' /\ CountIsFinal'
  BY <1>1, ResetIsSafe DEF IInv, HandedOver, Busy, MoreToDo, CountIsFinal, tables
<1> QED BY <1>3, <1>4 DEF IInv

-----------------------------------------------------------------------------
(* Frontend sessions and the administrator.                                 *)
LEMMA FrontendBeginKeepsIInv ==
  ASSUME IInv, NEW s \in Session, FrontendBegin(s)
  PROVE  IInv'
<1>1. PICK r \in Requests :
        Permitted(r) /\ fe' = [fe EXCEPT ![s] = [request |-> r, now |-> Now(r)]]
  BY DEF FrontendBegin
<1>2. UNCHANGED <<clock, tables, conflict, lf>> /\ Now(r) \in Nat
  BY DEF FrontendBegin, Now, IInv, TypeOK
<1>3. TypeOK'
  BY <1>1, <1>2 DEF IInv, TypeOK, TablesTyped, LfTyped, tables, lf, Requests
<1>4. RowValid' /\ HandedOver' /\ CountIsFinal'
  BY <1>2 DEF IInv, RowValid, ValidState, HandedOver, Busy, MoreToDo, CountIsFinal,
     tables, lf
<1>5. StillOpen(r.op)
  <2>1. RowValid
    BY DEF IInv
  <2> QED BY <1>1, <2>1 DEF Permitted, CreationOpen, RevocationOpen, DebateOpen,
             VotingOpen, StillOpen
<1>6. SessionsOpen'
  BY <1>1, <1>2, <1>5 DEF IInv, TypeOK, SessionsOpen, StillOpen, tables
<1> QED BY <1>3, <1>4, <1>6 DEF IInv

LEMMA FrontendCommitKeepsIInv ==
  ASSUME IInv, NEW s \in Session, FrontendCommit(s)
  PROVE  IInv'
<1> DEFINE r == fe[s].request
<1>1. fe[s] \in [request : Requests, now : Nat] /\ r \in Requests /\ fe[s].now \in Nat
  BY DEF FrontendCommit, IInv, TypeOK
<1>2. /\ UNCHANGED <<clock, issue, counted, snapshots, conflict, call, persist, error, crashes>>
      /\ fe' = [fe EXCEPT ![s] = NoTx]
  BY DEF FrontendCommit, End
<1>3. \/ UNCHANGED snap /\ WriteInitiative(r)
      \/ UNCHANGED snap /\ WriteSupport(r)
      \/ UNCHANGED snap /\ WriteInterest(r)
      \/ UNCHANGED snap /\ WriteBallot(r)
      \/ WriteRevocation(r, fe[s].now) /\ Dirty({r.initiative})
  BY DEF FrontendCommit
<1> HIDE DEF r
<1>4. /\ r.op \in {"create", "support", "unsupport"} =>
              r.initiative \in Initiative /\ r.member \in Member
      /\ r.op = "create" => r.polling \in BOOLEAN
      /\ r.op = "revoke" => r.initiative \in Initiative
      /\ r.op \in {"interest", "uninterest", "vote", "unvote"} => r.member \in Member
  BY <1>1, OptionAssumption DEF Requests
<1>5. /\ initiative' \in [Initiative -> InitiativeRow]
      /\ interest' \in SUBSET Member /\ supporter' \in SupportType
      /\ voter' \in SUBSET Member
  <2>1. /\ initiative \in [Initiative -> InitiativeRow]
        /\ interest \in SUBSET Member /\ supporter \in [Initiative -> SUBSET Member]
        /\ voter \in SUBSET Member
    BY DEF IInv, TypeOK, TablesTyped, SupportType
  <2>2. CASE WriteInitiative(r)
    BY <1>4, <2>1, <2>2, NewRowTyped DEF WriteInitiative, Support, SupportType
  <2>3. CASE WriteSupport(r)
    BY <1>4, <2>1, <2>3 DEF WriteSupport, Support, SupportType
  <2>4. CASE WriteInterest(r)
    BY <1>4, <2>1, <2>4 DEF WriteInterest, SupportType
  <2>5. CASE WriteBallot(r)
    BY <1>4, <2>1, <2>5 DEF WriteBallot, SupportType
  <2>6. CASE WriteRevocation(r, fe[s].now)
    BY <1>1, <1>4, <2>1, <2>6 DEF WriteRevocation, SupportType, InitiativeRow
  <2> QED BY <1>3, <2>2, <2>3, <2>4, <2>5, <2>6
<1>6. snap' \in SnapType /\ snap'.voter = snap.voter
  <2>1. snap \in SnapType
    BY DEF IInv, TypeOK, LfTyped
  <2>2. CASE UNCHANGED snap
    BY <2>1, <2>2
  <2>3. CASE WriteRevocation(r, fe[s].now) /\ Dirty({r.initiative})
    BY <1>4, <2>1, <2>3 DEF WriteRevocation, Dirty, SnapType
  <2> QED BY <1>3, <2>2, <2>3
<1>7. TypeOK'
  BY <1>2, <1>5, <1>6 DEF IInv, TypeOK, TablesTyped, LfTyped
<1>8. RowValid' /\ HandedOver'
  BY <1>2 DEF IInv, RowValid, ValidState, HandedOver, Busy, MoreToDo
<1>9. ChangesForbidden => voter' = voter
  BY <1>3 DEF WriteInitiative, WriteSupport, WriteInterest, WriteBallot, WriteRevocation
<1>10. persist.state = "voting" \/ issue.state \in Finished => ChangesForbidden
  BY DEF IInv, HandedOver, RowValid, ValidState, ChangesForbidden
<1>11. CountIsFinal'
  BY <1>2, <1>6, <1>9, <1>10 DEF IInv, CountIsFinal
<1>12. SessionsOpen'
  BY <1>2 DEF IInv, TypeOK, SessionsOpen, StillOpen
<1> QED BY <1>7, <1>8, <1>11, <1>12 DEF IInv

LEMMA FrontendRollbackKeepsIInv ==
  ASSUME IInv, NEW s \in Session, FrontendRollback(s)
  PROVE  IInv'
<1>1. fe' = [fe EXCEPT ![s] = NoTx] /\ UNCHANGED <<clock, tables, conflict, lf>>
  BY DEF FrontendRollback, End
<1>2. TypeOK' /\ RowValid' /\ HandedOver' /\ CountIsFinal'
  BY <1>1 DEF IInv, TypeOK, TablesTyped, LfTyped, tables, lf,
     RowValid, ValidState, HandedOver, Busy, MoreToDo, CountIsFinal
<1>3. SessionsOpen'
  BY <1>1 DEF IInv, TypeOK, SessionsOpen, StillOpen, tables
<1> QED BY <1>2, <1>3 DEF IInv

(* The CHECK constraint on phase_finished protects a phase that is ending.  *)
LEMMA AdminCancelKeepsIInv == ASSUME IInv, AdminCancel PROVE IInv'
<1> DEFINE r == [issue EXCEPT !.state = "canceled_by_admin", !.closed = clock]
<1>1. issue \in IssueRow /\ clock \in Nat /\ snap \in SnapType
  BY DEF IInv, TypeOK, TablesTyped, LfTyped
<1>2. issue' = r /\ Checks(r) /\ ~ShareLocked /\ Dirty({"issue"})
      /\ UNCHANGED <<clock, initiative, interest, supporter, voter, counted, snapshots,
                     conflict, fe, call, persist, error, crashes>>
  BY DEF AdminCancel
<1>3. /\ r \in IssueRow /\ r.state = "canceled_by_admin"
      /\ r.closed = clock /\ r.phase_finished = issue.phase_finished
  BY <1>1 DEF IssueRow
<1> HIDE DEF r
<1>4. snap' \in SnapType /\ snap'.voter = snap.voter
  BY <1>1, <1>2 DEF Dirty, SnapType
<1>5. TypeOK'
  BY <1>2, <1>3, <1>4 DEF IInv, TypeOK, TablesTyped, LfTyped
<1>6. RowValid'
  BY <1>2 DEF RowValid, Checks, ValidState
<1>7. ~Busy(persist)
  BY <1>1, <1>2, <1>3, NullAssumption DEF Checks, IInv, HandedOver
<1>8. HandedOver' /\ CountIsFinal'
  BY <1>2, <1>3, <1>4, <1>7 DEF IInv, HandedOver, Busy, MoreToDo, CountIsFinal
<1>9. SessionsOpen'
  BY <1>2, NobodyInside
<1> QED BY <1>5, <1>6, <1>8, <1>9 DEF IInv

(* Time and the other issues change nothing the invariant speaks of.        *)
LEMMA SurroundingsKeepIInv == ASSUME IInv, Tick \/ SectionChange PROVE IInv'
<1>1. clock \in Nat /\ conflict \in BOOLEAN
  BY DEF IInv, TypeOK
<1>2. clock' \in Nat /\ UNCHANGED <<tables, fe, lf>>
  BY <1>1 DEF Tick, SectionChange
<1>3. conflict' \in BOOLEAN
  BY <1>1, Zenon DEF Tick, SectionChange
<1> QED BY <1>2, <1>3 DEF IInv, TypeOK, TablesTyped, LfTyped, tables, lf, RowValid, ValidState,
        HandedOver, Busy, MoreToDo, CountIsFinal, SessionsOpen, StillOpen

LEMMA StutteringKeepsIInv == ASSUME IInv, UNCHANGED vars PROVE IInv'
BY DEF vars, IInv, TypeOK, TablesTyped, LfTyped, RowValid, ValidState,
   HandedOver, Busy, MoreToDo, CountIsFinal, SessionsOpen, StillOpen

-----------------------------------------------------------------------------
LEMMA NextKeepsIInv == ASSUME IInv, [Next]_vars PROVE IInv'
BY CheckIssueKeepsIInv, SelectOpenIssueKeepsIInv, BeginCallKeepsIInv, LostCallKeepsIInv,
   FrontendBeginKeepsIInv, FrontendCommitKeepsIInv, FrontendRollbackKeepsIInv,
   AdminCancelKeepsIInv, SurroundingsKeepIInv, StutteringKeepsIInv DEF Next

LEMMA AlwaysIInv == Spec => []IInv
<1>1. Init => IInv
  BY InitIInv
<1>2. IInv /\ [Next]_vars => IInv'
  BY NextKeepsIInv
<1> QED BY <1>1, <1>2, PTL DEF Spec

(* A finished issue was ranked by exactly the ballots in the box, however   *)
(* sessions, crashes and repeated counts interleave.                        *)
THEOREM BallotsAreCounted == Spec => []NoBallotAfterCount
<1>1. IInv => NoBallotAfterCount
  BY DEF IInv, CountIsFinal, NoBallotAfterCount
<1> QED BY <1>1, AlwaysIInv, PTL

(* check_issue is never called with a value that no section handles: the    *)
(* warning at its end cannot be raised.                                     *)
THEOREM SectionsSuffice == Spec => []EveryCallHasASection
<1>1. IInv => EveryCallHasASection
  BY DEF IInv, TypeOK, LfTyped, PersistType, HandedOver, Busy, MoreToDo,
     EveryCallHasASection, ShouldNotHappen, Prepared, AwaitsSnapshot, AwaitsWeights
<1> QED BY <1>1, AlwaysIInv, PTL

-----------------------------------------------------------------------------
(* Frozen issues.  A session that creates an initiative must not overwrite  *)
(* one, which takes an invariant about the identities that are in use.      *)
Creating(s) == fe[s] # NoTx /\ fe[s].request.op = "create"
Revoking(s) == fe[s] # NoTx /\ fe[s].request.op = "revoke"

Fresh ==
    /\ \A k \in Initiative : ~initiative[k].exists => initiative[k].revoked = Null
    /\ \A s \in Session : Creating(s) => ~initiative[fe[s].request.initiative].exists
    /\ \A s \in Session : Revoking(s) => initiative[fe[s].request.initiative].exists
    /\ \A s, t \in Session :
          Creating(s) /\ Creating(t) /\ fe[s].request.initiative = fe[t].request.initiative
             => s = t

InitiativesStay ==
    \A k \in Initiative : /\ initiative'[k].exists = initiative[k].exists
                          /\ initiative'[k].revoked = initiative[k].revoked

LEMMA RequestsTyped ==
  ASSUME TypeOK, NEW s \in Session, fe[s] # NoTx
  PROVE  /\ fe[s].request \in Requests /\ fe[s].now \in Nat
         /\ fe[s].request.op \in {"create", "revoke", "support", "unsupport"}
               => fe[s].request.initiative \in Initiative
         /\ fe[s].request.op = "create" => fe[s].request.polling \in BOOLEAN
<1>1. fe[s].request \in Requests /\ fe[s].now \in Nat
  BY DEF TypeOK
<1> QED BY <1>1, OptionAssumption DEF Requests

LEMMA CheckIssueKeepsInitiatives ==
  ASSUME IInv, CheckIssue
  PROVE  InitiativesStay /\ UNCHANGED <<interest, supporter, fe>>
<1>1. ASSUME UNCHANGED initiative PROVE InitiativesStay
  BY <1>1 DEF InitiativesStay
<1>2. ASSUME CreateSnapshot, ~UNCHANGED initiative PROVE InitiativesStay
  <2>1. \A k \in Initiative : initiative[k] \in InitiativeRow
    BY DEF IInv, TypeOK, TablesTyped
  <2>2. PICK satisfying \in SUBSET Admissible :
          initiative' = [k \in Initiative |->
             IF k \in Visible THEN Counted(k, satisfying) ELSE initiative[k]]
    BY <1>2 DEF CreateSnapshot, Abort, tables
  <2>3. ASSUME NEW k \in Initiative
        PROVE  /\ Counted(k, satisfying).exists = initiative[k].exists
               /\ Counted(k, satisfying).revoked = initiative[k].revoked
    BY <2>1 DEF Counted, InitiativeRow
  <2> QED BY <2>2, <2>3 DEF InitiativesStay
<1>3. UNCHANGED initiative \/ CreateSnapshot
  BY DEF CheckIssue, Start, SetHarmonicWeights, CancelIssue, AdmitIssue, HalfFreeze,
     FullFreeze, CloseVoting, CalculateRanks, UpdateIssue, Abort, tables
<1>4. UNCHANGED <<interest, supporter, fe>>
  BY DEF CheckIssue, Start, CreateSnapshot, SetHarmonicWeights, CancelIssue, AdmitIssue,
     HalfFreeze, FullFreeze, CloseVoting, CalculateRanks, UpdateIssue, Abort, tables
<1> QED BY <1>1, <1>2, <1>3, <1>4

LEMMA InitFresh == ASSUME Init PROVE Fresh
<1>1. PICK polling \in BOOLEAN, k \in Initiative :
        initiative = [j \in Initiative |->
           IF j = k THEN NewInitiative(polling) ELSE NoInitiative]
  BY OptionAssumption DEF Init
<1>2. \A j \in Initiative : initiative[j].revoked = Null
  BY <1>1, NewRowTyped DEF NoInitiative
<1> QED BY <1>1, <1>2 DEF Init, Fresh, Creating, Revoking, NoInitiative

(* The row that a session writes when it creates an initiative.             *)
New(s) == NewInitiative(fe[s].request.polling)

LEMMA NewTyped ==
  ASSUME IInv, NEW s \in Session, Creating(s)
  PROVE  New(s) \in InitiativeRow /\ New(s).exists /\ New(s).revoked = Null
BY RequestsTyped, NewRowTyped DEF IInv, Creating, New

LEMMA CommitWrites ==
  ASSUME IInv, Fresh, NEW s \in Session, FrontendCommit(s)
  PROVE  \/ InitiativesStay
         \/ /\ Creating(s)
            /\ initiative' = [initiative EXCEPT ![fe[s].request.initiative] = New(s)]
         \/ /\ Revoking(s)
            /\ initiative' = [initiative EXCEPT
                                ![fe[s].request.initiative].revoked = fe[s].now]
BY DEF FrontendCommit, WriteInitiative, WriteSupport, WriteInterest, WriteBallot,
   WriteRevocation, InitiativesStay, Creating, Revoking, New

LEMMA CommitKeepsFresh ==
  ASSUME IInv, Fresh, NEW s \in Session, FrontendCommit(s)
  PROVE  Fresh'
<1> DEFINE k == fe[s].request.initiative
<1>1. /\ initiative \in [Initiative -> InitiativeRow] /\ fe[s] # NoTx
      /\ fe' = [fe EXCEPT ![s] = NoTx] /\ s \in DOMAIN fe /\ DOMAIN fe = Session
  BY DEF IInv, TypeOK, TablesTyped, FrontendCommit, End
<1>2. \A t \in Session :
         /\ Creating(t)' <=> t # s /\ Creating(t)
         /\ Revoking(t)' <=> t # s /\ Revoking(t)
         /\ t # s => fe'[t] = fe[t]
  BY <1>1 DEF Creating, Revoking
<1>3. \A t \in Session :
         Creating(t) \/ Revoking(t) => fe[t].request.initiative \in Initiative
  BY RequestsTyped DEF IInv, Creating, Revoking
<1>4. CASE InitiativesStay
  BY <1>2, <1>3, <1>4 DEF Fresh, InitiativesStay
<1>5. CASE /\ Creating(s)
           /\ initiative' = [initiative EXCEPT ![fe[s].request.initiative] = New(s)]
  <2>1. \A j \in Initiative : j # k => initiative'[j] = initiative[j]
    BY <1>1, <1>5
  <2>2. initiative'[k].exists
    <3>1. initiative'[k] = New(s)
      BY <1>1, <1>3, <1>5
    <3> QED BY <3>1, <1>5, NewTyped
  <2>3. \A t \in Session : t # s /\ Creating(t) => fe[t].request.initiative # k
    BY <1>5 DEF Fresh
  <2> HIDE DEF k
  <2> QED BY <1>2, <1>3, <2>1, <2>2, <2>3 DEF Fresh
<1>6. CASE /\ Revoking(s)
           /\ initiative' = [initiative EXCEPT
                               ![fe[s].request.initiative].revoked = fe[s].now]
  <2>1. \A j \in Initiative : /\ initiative'[j].exists = initiative[j].exists
                              /\ j # k => initiative'[j] = initiative[j]
    BY <1>1, <1>3, <1>6 DEF InitiativeRow
  <2>2. k \in Initiative /\ initiative[k].exists
    BY <1>3, <1>6 DEF Fresh
  <2> HIDE DEF k
  <2> QED BY <1>2, <1>3, <2>1, <2>2 DEF Fresh
<1> QED BY <1>4, <1>5, <1>6, CommitWrites

LEMMA BeginKeepsFresh ==
  ASSUME IInv, Fresh, NEW s \in Session, FrontendBegin(s)
  PROVE  Fresh'
<1>1. PICK r \in Requests :
        Permitted(r) /\ fe' = [fe EXCEPT ![s] = [request |-> r, now |-> Now(r)]]
  BY DEF FrontendBegin
<1>2. UNCHANGED initiative /\ DOMAIN fe = Session /\ fe[s] = NoTx
  BY DEF FrontendBegin, tables, IInv, TypeOK
<1>3. fe'[s].request = r /\ \A t \in Session : t # s => fe'[t] = fe[t]
  BY <1>1, <1>2
<1>4. r.op = "create" =>
         /\ ~initiative[r.initiative].exists
         /\ \A t \in Session : Creating(t) => fe[t].request.initiative # r.initiative
  BY <1>1 DEF Permitted, Creating
<1>5. r.op = "revoke" => initiative[r.initiative].exists
  BY <1>1 DEF Permitted, Unrevoked
<1>6. \A t \in Session :
         /\ t # s => (Creating(t)' <=> Creating(t)) /\ (Revoking(t)' <=> Revoking(t))
         /\ t = s => (Creating(t)' => r.op = "create") /\ (Revoking(t)' => r.op = "revoke")
  BY <1>3 DEF Creating, Revoking
<1> QED BY <1>2, <1>3, <1>4, <1>5, <1>6 DEF Fresh

LEMMA NextKeepsFresh == ASSUME IInv, Fresh, [Next]_vars PROVE Fresh'
<1>1. ASSUME InitiativesStay, UNCHANGED fe PROVE Fresh'
  <2>1. \A t \in Session :
           Creating(t) \/ Revoking(t) => fe[t].request.initiative \in Initiative
    BY RequestsTyped DEF IInv, Creating, Revoking
  <2> QED BY <1>1, <2>1 DEF Fresh, InitiativesStay, Creating, Revoking
<1>2. CASE CheckIssue
  BY <1>1, <1>2, CheckIssueKeepsInitiatives
<1>3. CASE SelectOpenIssue \/ BeginCall \/ SerializationFailure \/ Crash \/ AdminCancel
           \/ Tick \/ SectionChange \/ UNCHANGED vars
  <2>1. UNCHANGED <<initiative, fe>>
    BY <1>3 DEF SelectOpenIssue, BeginCall, SerializationFailure, Abort, Crash,
       AdminCancel, Tick, SectionChange, vars, tables
  <2> QED BY <1>1, <2>1 DEF InitiativesStay
<1>4. ASSUME NEW s \in Session, FrontendRollback(s) PROVE Fresh'
  <2>1. UNCHANGED initiative /\ fe' = [fe EXCEPT ![s] = NoTx] /\ DOMAIN fe = Session
    BY <1>4 DEF FrontendRollback, End, tables, IInv, TypeOK
  <2> QED BY <2>1 DEF Fresh, Creating, Revoking
<1> QED BY <1>2, <1>3, <1>4, BeginKeepsFresh, CommitKeepsFresh DEF Next

(* A section of check_issue leaves the state and the timestamps of a closed *)
(* issue alone.                                                             *)
ClosedStays ==
    issue.closed # Null =>
        /\ UNCHANGED <<voter, counted>>
        /\ issue'.state = issue.state /\ issue'.closed = issue.closed
        /\ issue'.accepted = issue.accepted
        /\ issue'.half_frozen = issue.half_frozen
        /\ issue'.fully_frozen = issue.fully_frozen

LEMMA CheckIssueKeepsClosed == ASSUME IInv, CheckIssue PROVE ClosedStays
<1> SUFFICES ASSUME issue.closed # Null
             PROVE  /\ UNCHANGED <<voter, counted>>
                    /\ issue'.state = issue.state /\ issue'.closed = issue.closed
                    /\ issue'.accepted = issue.accepted
                    /\ issue'.half_frozen = issue.half_frozen
                    /\ issue'.fully_frozen = issue.fully_frozen
  BY DEF ClosedStays
<1>1. issue \in IssueRow /\ persist \in PersistType
  BY DEF IInv, TypeOK, TablesTyped, LfTyped
<1>2. issue.phase_finished = Null /\ ~Busy(persist) /\ persist.state # "voting"
  BY DEF IInv, RowValid, HandedOver
<1>3. ~CancelIssue /\ ~HalfFreeze /\ ~FullFreeze /\ ~CloseVoting /\ ~CalculateRanks
  BY <1>2 DEF Busy, CancelIssue, HalfFreeze, FullFreeze, CloseVoting, CalculateRanks
<1>4. CASE Start
  BY <1>4 DEF Start
<1>5. CASE CreateSnapshot
  BY <1>1, <1>5 DEF CreateSnapshot, Abort, tables, IssueRow
<1>6. CASE SetHarmonicWeights
  BY <1>6 DEF SetHarmonicWeights, tables
<1>7. CASE AdmitIssue
  <2> DEFINE r == [issue EXCEPT !.state = "discussion",
                     !.accepted = Coalesce(issue.phase_finished, snap.now),
                     !.phase_finished = Null]
  <2>1. r.closed # Null /\ r.state = "discussion"
    BY <1>1 DEF IssueRow
  <2> HIDE DEF r
  <2>2. ~Checks(r)
    BY <2>1 DEF Checks, ValidState
  <2>3. UpdateIssue(r, voter, counted) \/ UNCHANGED tables
    BY <1>2, <1>7 DEF AdmitIssue, r
  <2> QED BY <2>2, <2>3 DEF UpdateIssue, Abort, tables
<1> QED BY <1>3, <1>4, <1>5, <1>6, <1>7 DEF CheckIssue

(* What a session may change, it has tested under its share lock.           *)
LEMMA CommitFreezes ==
  ASSUME IInv, Fresh, NEW s \in Session, FrontendCommit(s)
  PROVE  FreezeStep
<1> DEFINE k == fe[s].request.initiative
           op == fe[s].request.op
<1>1. fe[s] # NoTx /\ StillOpen(op) /\ initiative \in [Initiative -> InitiativeRow]
  BY DEF FrontendCommit, IInv, SessionsOpen, TypeOK, TablesTyped
<1>2. Creating(s) \/ Revoking(s) => k \in Initiative
  BY RequestsTyped DEF IInv, Creating, Revoking
<1>3. \A j \in Initiative : initiative'[j].revoked = initiative[j].revoked
                            \/ op = "revoke"
  <2>1. Creating(s) => New(s).revoked = Null
    BY NewTyped
  <2>2. Creating(s) => initiative[k].revoked = Null
    BY <1>2 DEF Fresh
  <2>3. Revoking(s) => op = "revoke"
    BY DEF Revoking
  <2> HIDE DEF k, op
  <2> QED BY <1>1, <1>2, <2>1, <2>2, <2>3, CommitWrites DEF InitiativesStay, k
<1>4. \A j \in Initiative : initiative'[j].exists = initiative[j].exists
                            \/ op = "create"
  <2>1. Creating(s) => op = "create"
    BY DEF Creating
  <2>2. ASSUME Revoking(s),
               initiative' = [initiative EXCEPT ![fe[s].request.initiative].revoked = fe[s].now]
        PROVE  \A j \in Initiative : initiative'[j].exists = initiative[j].exists
    BY <1>1, <1>2, <2>2 DEF InitiativeRow
  <2> HIDE DEF op
  <2> QED BY <1>1, <1>2, <2>1, <2>2, CommitWrites DEF InitiativesStay
<1>5. UNCHANGED <<interest, supporter>> \/ op \notin {"vote", "unvote", "revoke"}
  BY DEF FrontendCommit, WriteInitiative, WriteSupport, WriteInterest, WriteBallot,
     WriteRevocation
<1> HIDE DEF op
<1> QED BY <1>1, <1>3, <1>4, <1>5 DEF StillOpen, FreezeStep

(* Frozen data stays frozen: no initiative is revoked after half freeze,    *)
(* none is created and no interest or support changes after full freeze,    *)
(* and a closed issue keeps its ballots, its state and its timestamps, even *)
(* though sessions and administrators may have tested it long before.       *)
THEOREM FrozenStaysFrozen == Spec => FreezeRules
<1>1. ASSUME IInv, Fresh, [Next]_vars PROVE FreezeStep
  <2>1. CASE CheckIssue
    BY <1>1, <2>1, CheckIssueKeepsInitiatives, CheckIssueKeepsClosed
       DEF FreezeStep, InitiativesStay, ClosedStays
  <2>2. CASE SelectOpenIssue \/ BeginCall \/ SerializationFailure \/ Crash
             \/ Tick \/ SectionChange \/ UNCHANGED vars
             \/ \E s \in Session : FrontendBegin(s) \/ FrontendRollback(s)
    BY <2>2 DEF SelectOpenIssue, BeginCall, SerializationFailure, Abort, Crash,
       Tick, SectionChange, FrontendBegin, FrontendRollback, vars, tables, FreezeStep
  <2>3. CASE AdminCancel
    BY <2>3 DEF AdminCancel, FreezeStep
  <2>4. CASE \E s \in Session : FrontendCommit(s)
    BY <1>1, <2>4, CommitFreezes
  <2> QED BY <1>1, <2>1, <2>2, <2>3, <2>4 DEF Next
<1>2. Init => Fresh
  BY InitFresh
<1>3. IInv /\ Fresh /\ [Next]_vars => Fresh'
  BY NextKeepsFresh
<1>4. IInv /\ Fresh /\ [Next]_vars => [FreezeStep]_vars
  BY <1>1
<1> QED BY <1>2, <1>3, <1>4, AlwaysIInv, PTL DEF Spec, FreezeRules

-----------------------------------------------------------------------------
(* The vote.  What a vote rests on was settled by transactions that ended  *)
(* long before it: the full-freeze snapshot, the admissions, the end of    *)
(* each phase.  The invariant says what each of them may still rely on.    *)
Debating(op) == op \notin {"vote", "unvote", "revoke"}

(* No session may begin to debate.                                         *)
Sealed == issue.phase_finished # Null /\ ~(issue.accepted # Null /\ issue.half_frozen = Null)

(* Neither initiatives nor interest nor support will change any more.      *)
Fixed ==
    /\ issue.half_frozen # Null
    /\ issue.phase_finished # Null \/ issue.fully_frozen # Null \/ issue.closed # Null

(* The end of the phase is a time when it was over.                        *)
PhaseIsOver == persist.phase_finished => PhaseOver(issue.phase_finished)

(* Only an administrator can change the state that a call goes on with.    *)
SameIssue ==
    persist.state # Null =>
        /\ issue.state \in {persist.state, "canceled_by_admin"}
        /\ persist.state \in Deliberation => issue.fully_frozen = Null

(* What else a session has tested.                                         *)
Tested ==
    \A s \in Session : fe[s] # NoTx =>
        /\ fe[s].request.op = "create" => issue.phase_finished = Null
        /\ Debating(fe[s].request.op) => ~Sealed
        /\ fe[s].request.op \in {"vote", "unvote"} => issue.state = "voting"

(* As far as it matters, a transaction sees the tables as they are.        *)
Seen ==
    call = "tx" =>
        /\ \A k \in Initiative :
              /\ snap.initiative[k].admitted = initiative[k].admitted
              /\ snap.initiative[k].exists => initiative[k].exists
              /\ issue.phase_finished # Null /\ initiative[k].exists
                    => snap.initiative[k].exists
              /\ snap.initiative[k].admitted # "undecided" => snap.initiative[k].exists
        /\ Sealed => snap.interest = interest /\ snap.supporter = supporter

(* An initiative is admitted or rejected when the debate is over.          *)
Admissions ==
    \A k \in Initiative : initiative[k].admitted # "undecided" =>
        /\ initiative[k].exists /\ initiative[k].revoked = Null /\ Fixed
        /\ initiative[k].admitted = "admitted" /\ ~initiative[k].polling
              => supporter[k] # {}

(* Who was counted at the end of a phase.                                  *)
FullSnapshot ==
    snapshots["full_freeze"] # {} =>
        Fixed /\ snapshots["full_freeze"] = AreaMember \cup interest
EndSnapshot ==
    snapshots["end_of_admission"] # {} /\ issue.state = "admission" =>
        /\ issue.phase_finished # Null
        /\ snapshots["end_of_admission"] = AreaMember \cup interest
HalfSnapshot == snapshots["half_freeze"] # {} => AreaMember \subseteq snapshots["half_freeze"]

(* Everything is decided once the full-freeze snapshot is handed over.     *)
Undecided == {k \in Initiative : initiative[k].exists /\ initiative[k].admitted = "undecided"}
Withdrawn == {k \in Initiative : initiative[k].exists /\ initiative[k].revoked # Null}
Final == persist.phase_finished /\ persist.state = "verification"
Decided ==
    Final /\ persist.snapshot_created =>
        /\ issue.latest_snapshot_event = "full_freeze"
        /\ issue.snapshot = issue.phase_finished
        /\ snapshots["full_freeze"] = AreaMember \cup interest
        /\ Undecided = Withdrawn

NoVoters == issue.fully_frozen = Null => voter = {}

VotingOrFinished == issue.state = "voting" \/ issue.state \in Finished

Settled ==
    /\ ValidTimestamps(issue) /\ PhaseIsOver /\ SameIssue /\ Tested /\ Seen
    /\ Admissions /\ FullSnapshot /\ EndSnapshot /\ HalfSnapshot /\ Decided /\ NoVoters
    /\ VotingIsPrepared /\ VoteReflectsInterest /\ NoPhaseCutShort

(* The columns by which a phase is told.                                   *)
LEMMA RowFacts ==
  ASSUME IInv, ValidTimestamps(issue)
  PROVE  /\ issue.state \in Deliberation \/ issue.state = "voting" <=>
                issue.closed = Null
         /\ issue.state \in Deliberation => issue.fully_frozen = Null
         /\ issue.state \in {"admission", "discussion"} => issue.half_frozen = Null
         /\ issue.state = "admission" => issue.accepted = Null
         /\ issue.state = "verification" => issue.half_frozen # Null
         /\ VotingOrFinished => issue.fully_frozen # Null
         /\ issue.fully_frozen # Null => issue.half_frozen # Null
         /\ issue.phase_finished # Null => issue.closed = Null
BY DEF IInv, RowValid, ValidState, ValidTimestamps, VotingOrFinished

LEMMA InitSettled == ASSUME Init PROVE Settled
<1>1. PICK polling \in BOOLEAN, k \in Initiative, m \in Member :
        /\ issue = [state |-> IF polling THEN "discussion" ELSE "admission",
                    phase_finished |-> Null, created |-> 0,
                    accepted |-> IF polling THEN 0 ELSE Null,
                    half_frozen |-> Null, fully_frozen |-> Null, closed |-> Null,
                    snapshot |-> Null, latest_snapshot_event |-> Null]
        /\ initiative = [j \in Initiative |->
              IF j = k THEN NewInitiative(polling) ELSE NoInitiative]
  BY OptionAssumption DEF Init
<1>2. \A j \in Initiative : initiative[j].admitted = "undecided"
  BY <1>1 DEF NewInitiative, NoInitiative
<1>3. /\ ValidTimestamps(issue) /\ issue.half_frozen = Null /\ issue.fully_frozen = Null
      /\ issue.closed = Null /\ issue.state \in {"admission", "discussion"}
  BY <1>1, NullAssumption DEF ValidTimestamps
<1>4. persist = NoPersist /\ call = "idle" /\ voter = {}
      /\ snapshots = [e \in SnapshotEvent |-> {}] /\ fe = [s \in Session |-> NoTx]
  BY DEF Init
<1>5. PhaseIsOver /\ SameIssue /\ Decided
  BY <1>4 DEF PhaseIsOver, SameIssue, Decided, Final, NoPersist
<1>6. Tested /\ Seen /\ NoVoters
  BY <1>4 DEF Tested, Seen, NoVoters
<1>7. Admissions
  BY <1>2 DEF Admissions
<1>8. FullSnapshot /\ EndSnapshot /\ HalfSnapshot
  BY <1>4 DEF FullSnapshot, EndSnapshot, HalfSnapshot
<1>9. VotingIsPrepared /\ VoteReflectsInterest /\ NoPhaseCutShort
  BY <1>3 DEF VotingIsPrepared, VoteReflectsInterest, NoPhaseCutShort, Apart
<1> QED BY <1>3, <1>5, <1>6, <1>7, <1>8, <1>9 DEF Settled

(* Steps that leave the tables alone, except for the count of the ballots, *)
(* and hand over no more than there was.                                   *)
LEMMA QuietStep ==
  ASSUME Settled,
         UNCHANGED <<issue, initiative, interest, supporter, voter, snapshots>>,
         \/ persist' = NoPersist
         \/ /\ persist'.state = persist.state
            /\ persist'.phase_finished = persist.phase_finished
            /\ persist'.snapshot_created = persist.snapshot_created,
         call' # "tx" \/ (call' = call /\ snap' = snap),
         \A s \in Session : fe'[s] # NoTx => fe'[s] = fe[s]
  PROVE  Settled'
<1>1. /\ ~NoPersist.phase_finished /\ NoPersist.state = Null
  BY DEF NoPersist
<1>2. Sealed' = Sealed /\ Fixed' = Fixed /\ Undecided' = Undecided /\ Withdrawn' = Withdrawn
  BY DEF Sealed, Fixed, Undecided, Withdrawn
<1>3. ValidTimestamps(issue)' /\ NoPhaseCutShort' /\ NoVoters'
  BY DEF Settled, ValidTimestamps, NoPhaseCutShort, NoVoters
<1>4. PhaseIsOver'
  BY <1>1 DEF Settled, PhaseIsOver, PhaseOver
<1>5. SameIssue'
  BY <1>1 DEF Settled, SameIssue
<1>6. Tested'
  BY <1>2 DEF Settled, Tested, Debating
<1>7. Seen'
  BY <1>2 DEF Settled, Seen
<1>8. Admissions' /\ FullSnapshot' /\ EndSnapshot' /\ HalfSnapshot'
  BY <1>2 DEF Settled, Admissions, FullSnapshot, EndSnapshot, HalfSnapshot
<1>9. Decided'
  BY <1>1, <1>2 DEF Settled, Decided, Final
<1>10. VotingIsPrepared' /\ VoteReflectsInterest'
  BY DEF Settled, VotingIsPrepared, VoteReflectsInterest
<1> QED BY <1>3, <1>4, <1>5, <1>6, <1>7, <1>8, <1>9, <1>10 DEF Settled

(* An UPDATE of the issue that succeeds.                                   *)
LEMMA SettledUpdate ==
  ASSUME Settled, NEW r, Checks(r), issue' = r,
         UNCHANGED <<initiative, interest, supporter, snapshots, fe>>,
         ~ShareLocked, persist' = NoPersist, call' = "idle",
         Fixed => Fixed', r.state # "admission",
         r.fully_frozen = Null => voter' = {},
         VotingOrFinished' => VotingIsPrepared' /\ VoteReflectsInterest',
         NoPhaseCutShort'
  PROVE  Settled'
<1>1. ~NoPersist.phase_finished /\ NoPersist.state = Null
  BY DEF NoPersist
<1>2. ValidTimestamps(issue)' /\ NoVoters' /\ HalfSnapshot' /\ EndSnapshot'
  BY DEF Settled, Checks, ValidTimestamps, NoVoters, HalfSnapshot, EndSnapshot
<1>3. PhaseIsOver' /\ SameIssue' /\ Decided' /\ Seen'
  BY <1>1 DEF PhaseIsOver, SameIssue, Decided, Final, Seen
<1>4. Tested'
  BY DEF Tested, ShareLocked
<1>5. Admissions' /\ FullSnapshot'
  BY DEF Settled, Admissions, FullSnapshot
<1>6. VotingIsPrepared' /\ VoteReflectsInterest'
  BY DEF VotingIsPrepared, VoteReflectsInterest, VotingOrFinished
<1> QED BY <1>2, <1>3, <1>4, <1>5, <1>6 DEF Settled

(* An UPDATE that fails, and a section that finds nothing to do.           *)
LEMMA SettledReset ==
  ASSUME Settled, UNCHANGED tables, Idle, UNCHANGED fe
  PROVE  Settled'
BY QuietStep DEF Idle, tables

-----------------------------------------------------------------------------
(* The sections of check_issue.                                            *)
LEMMA StartKeepsSettled ==
  ASSUME IInv, Settled, Start, UNCHANGED fe
  PROVE  Settled'
<1> DEFINE over    == PhaseOver(snap.now)
           revoked == IssueRevoked(over)
           taken   == issue.state = "admission" /\ snap.conflict
<1> USE NullAssumption
<1>1. issue \in IssueRow /\ snap.now \in Nat
  BY DEF IInv, TypeOK, TablesTyped, LfTyped, SnapType
<1>2. UNCHANGED <<initiative, interest, supporter, voter, snapshots>> /\ ~ShareLocked
  BY DEF Start, Touches
<1>3. CASE UNCHANGED issue /\ ReturnNull
  BY <1>2, <1>3, QuietStep DEF ReturnNull, Idle
<1>4. CASE /\ issue.closed = Null
           /\ issue' = IF over \/ revoked \/ taken THEN FinishPhase ELSE issue
           /\ over \/ revoked \/ taken \/ issue.state \in Deliberation
           /\ Return([NoPersist EXCEPT !.state = issue.state, !.phase_finished = over,
                        !.issue_revoked = revoked, !.conflicting_section = taken])
  <2>1. over => PhaseOver(snap.now)
    OBVIOUS
  <2>2. /\ persist'.state = issue.state /\ persist'.phase_finished = over
        /\ persist'.snapshot_created = FALSE /\ call' = "ready"
    BY <1>4 DEF Return, NoPersist
  <2> HIDE DEF over, revoked, taken
  <2>3. /\ issue'.state = issue.state /\ issue'.closed = issue.closed
        /\ issue'.created = issue.created /\ issue'.accepted = issue.accepted
        /\ issue'.half_frozen = issue.half_frozen
        /\ issue'.fully_frozen = issue.fully_frozen
        /\ issue'.snapshot = issue.snapshot
        /\ issue'.latest_snapshot_event = issue.latest_snapshot_event
        /\ issue'.phase_finished \in {issue.phase_finished, snap.now}
        /\ over => issue'.phase_finished = snap.now
    BY <1>1, <1>4 DEF IssueRow, FinishPhase
  <2>4. ValidTimestamps(issue)' /\ NoPhaseCutShort' /\ NoVoters'
    BY <1>2, <2>3 DEF Settled, ValidTimestamps, NoPhaseCutShort, NoVoters
  <2>5. PhaseIsOver'
    BY <2>1, <2>2, <2>3 DEF PhaseIsOver, PhaseOver
  <2>6. SameIssue'
    BY <2>2, <2>3, RowFacts DEF SameIssue, Settled
  <2>7. Fixed => Fixed'
    BY <1>1, <2>3 DEF Fixed
  <2>8. Tested' /\ Seen' /\ Decided'
    BY <1>2, <2>2 DEF Tested, Seen, Decided, ShareLocked
  <2>9. Admissions' /\ FullSnapshot' /\ HalfSnapshot'
    BY <1>2, <2>7 DEF Settled, Admissions, FullSnapshot, HalfSnapshot
  <2>10. EndSnapshot'
    BY <1>1, <1>2, <2>3 DEF Settled, EndSnapshot
  <2>11. VotingIsPrepared' /\ VoteReflectsInterest'
    BY <1>2, <2>3 DEF Settled, VotingIsPrepared, VoteReflectsInterest
  <2> QED BY <2>4, <2>5, <2>6, <2>8, <2>9, <2>10, <2>11 DEF Settled
<1> QED BY <1>3, <1>4 DEF Start

(* While the phase that is over cannot be debated any more, a snapshot      *)
(* counts the members who are interested now.                              *)
LEMMA SealedPopulation ==
  ASSUME Settled, call = "tx", Sealed
  PROVE  /\ Population = AreaMember \cup interest
         /\ \A k \in Initiative : Supporters(k) = supporter[k] \cap interest
BY DEF Settled, Seen, Population, Supporters

(* What is due at the end of a phase.                                       *)
LEMMA PhaseEnd ==
  ASSUME IInv, ValidTimestamps(issue), persist.phase_finished,
         persist.state \in {"admission", "verification"}
  PROVE  /\ Sealed /\ issue.state = persist.state /\ issue.phase_finished # Null
         /\ persist.state = "verification" => Fixed
BY RowFacts DEF Sealed, Fixed, IInv, HandedOver, Busy

LEMMA SnapshotDone ==
  ASSUME IInv, Settled, CreateSnapshot, UNCHANGED fe, ~Abort("unique_violation"),
         NEW event,
         event = IF persist.phase_finished THEN FinalEvent[persist.state] ELSE "periodic"
  PROVE  /\ issue'.snapshot = Coalesce(issue.phase_finished, snap.now)
         /\ issue'.latest_snapshot_event = event
         /\ issue'.state = issue.state /\ issue'.closed = issue.closed
         /\ issue'.created = issue.created /\ issue'.accepted = issue.accepted
         /\ issue'.half_frozen = issue.half_frozen
         /\ issue'.fully_frozen = issue.fully_frozen
         /\ issue'.phase_finished = issue.phase_finished
         /\ persist'.state = persist.state
         /\ persist'.phase_finished = persist.phase_finished
         /\ call' = "ready" /\ ~ShareLocked /\ ~Duplicate(event)
         /\ \A e \in SnapshotEvent \ {"periodic"} :
               snapshots'[e] = IF e = event THEN snapshots[e] \cup Population
                                            ELSE snapshots[e]
         /\ \E satisfying \in SUBSET Admissible :
               initiative' = [k \in Initiative |->
                    IF k \in Visible THEN Counted(k, satisfying) ELSE initiative[k]]
         /\ UNCHANGED <<interest, supporter, voter>>
<1>1. /\ issue \in IssueRow /\ persist \in PersistType
      /\ snapshots \in [SnapshotEvent -> SUBSET Member]
  BY DEF IInv, TypeOK, TablesTyped, LfTyped
<1>2. /\ ~Duplicate(event)
      /\ issue' = [issue EXCEPT !.snapshot = Coalesce(issue.phase_finished, snap.now),
                                !.latest_snapshot_event = event]
      /\ snapshots' = [snapshots EXCEPT
                         !["periodic"] = IF event = "periodic" THEN Population ELSE {},
                         ![event] = IF event = "periodic" THEN Population
                                    ELSE @ \cup Population]
      /\ \E satisfying \in SUBSET Admissible :
            initiative' = [k \in Initiative |->
                 IF k \in Visible THEN Counted(k, satisfying) ELSE initiative[k]]
      /\ Return([persist EXCEPT !.snapshot_created = TRUE])
      /\ UNCHANGED <<interest, supporter, voter>>
  BY DEF CreateSnapshot
<1>3. /\ persist'.state = persist.state /\ call' = "ready"
      /\ persist'.phase_finished = persist.phase_finished
  BY <1>1, <1>2 DEF Return, PersistType
<1>4. ~ShareLocked
  BY DEF CreateSnapshot, Touches
<1>5. event \in SnapshotEvent
  BY DEF CreateSnapshot, AwaitsSnapshot, FinalEvent
<1>6. \A e \in SnapshotEvent \ {"periodic"} :
         snapshots'[e] = IF e = event THEN snapshots[e] \cup Population ELSE snapshots[e]
  BY <1>1, <1>2, <1>5
<1> QED BY <1>1, <1>2, <1>3, <1>4, <1>6 DEF IssueRow

(* An initiative that is admitted without being exempt has supporters.      *)
LEMMA CountedRow ==
  ASSUME IInv, NEW k \in Initiative, NEW satisfying \in SUBSET Admissible
  PROVE  LET row == Counted(k, satisfying)
         IN  /\ row.exists = initiative[k].exists /\ row.revoked = initiative[k].revoked
             /\ row.polling = initiative[k].polling
             /\ \/ row.admitted = initiative[k].admitted
                   /\ ~(Final /\ initiative[k].revoked = Null)
                \/ /\ Final /\ initiative[k].revoked = Null
                   /\ row.admitted \in {"admitted", "rejected"}
                   /\ row.admitted = "admitted" /\ ~row.polling => Supporters(k) # {}
<1>1. initiative[k] \in InitiativeRow
  BY DEF IInv, TypeOK, TablesTyped
<1>2. k \in satisfying => Supporters(k) # {}
  <2>1. k \in satisfying => Cardinality(Supporters(k)) > 0
    BY DEF Admissible, Quorum
  <2>2. Supporters(k) = {} => Cardinality(Supporters(k)) = 0
    BY FS_EmptySet
  <2> QED BY <2>1, <2>2
<1> DEFINE q == Quorum(Cardinality(Supporters(k)), Cardinality(Population),
                       IssueQuorumNum, IssueQuorumDen)
           row == [initiative[k] EXCEPT !.quorum = q]
<1>3. /\ row.exists = initiative[k].exists /\ row.revoked = initiative[k].revoked
      /\ row.polling = initiative[k].polling /\ row.admitted = initiative[k].admitted
  BY <1>1 DEF InitiativeRow
<1>4. \A a : /\ [row EXCEPT !.admitted = a].exists = initiative[k].exists
             /\ [row EXCEPT !.admitted = a].revoked = initiative[k].revoked
             /\ [row EXCEPT !.admitted = a].polling = initiative[k].polling
             /\ [row EXCEPT !.admitted = a].admitted = a
  BY <1>1 DEF InitiativeRow
<1>5. Counted(k, satisfying) =
        IF Final /\ row.revoked = Null
        THEN [row EXCEPT !.admitted = IF row.polling \/ k \in satisfying
                                      THEN "admitted" ELSE "rejected"]
        ELSE row
  BY DEF Counted, Final
<1> HIDE DEF row
<1>6. CASE Final /\ row.revoked = Null
  <2> DEFINE a == IF row.polling \/ k \in satisfying THEN "admitted" ELSE "rejected"
  <2>1. Counted(k, satisfying) = [row EXCEPT !.admitted = a]
    BY <1>5, <1>6
  <2>2. a \in {"admitted", "rejected"} /\ (a = "admitted" /\ ~row.polling => k \in satisfying)
    OBVIOUS
  <2> HIDE DEF a
  <2> QED BY <1>2, <1>3, <1>4, <1>6, <2>1, <2>2
<1>7. CASE ~(Final /\ row.revoked = Null)
  BY <1>3, <1>5, <1>7
<1> QED BY <1>6, <1>7

LEMMA CreateSnapshotKeepsSettled ==
  ASSUME IInv, Settled, CreateSnapshot, UNCHANGED fe
  PROVE  Settled'
<1> DEFINE event == IF persist.phase_finished THEN FinalEvent[persist.state] ELSE "periodic"
<1> USE NullAssumption
<1>1. CASE Abort("unique_violation")
  BY <1>1, SettledReset DEF Abort
<1>2. CASE ~Abort("unique_violation")
  <2>1. PICK satisfying \in SUBSET Admissible :
          /\ issue'.snapshot = Coalesce(issue.phase_finished, snap.now)
          /\ issue'.latest_snapshot_event = event
          /\ issue'.state = issue.state /\ issue'.closed = issue.closed
          /\ issue'.created = issue.created /\ issue'.accepted = issue.accepted
          /\ issue'.half_frozen = issue.half_frozen
          /\ issue'.fully_frozen = issue.fully_frozen
          /\ issue'.phase_finished = issue.phase_finished
          /\ persist'.state = persist.state
          /\ persist'.phase_finished = persist.phase_finished
          /\ call' = "ready" /\ ~ShareLocked
          /\ \A e \in SnapshotEvent \ {"periodic"} :
                snapshots'[e] = IF e = event THEN snapshots[e] \cup Population
                                             ELSE snapshots[e]
          /\ initiative' = [k \in Initiative |->
               IF k \in Visible THEN Counted(k, satisfying) ELSE initiative[k]]
          /\ UNCHANGED <<interest, supporter, voter>>
    BY <1>2, SnapshotDone
  <2>2. /\ call = "tx" /\ persist.state \in Deliberation
        /\ persist.phase_finished \in BOOLEAN
    BY DEF CreateSnapshot, AwaitsSnapshot, Touches, IInv, TypeOK, LfTyped, PersistType
  <2>3. /\ persist.phase_finished /\ persist.state = "verification" => event = "full_freeze"
        /\ event = "full_freeze" => Final
        /\ event = "end_of_admission" => persist.phase_finished /\ persist.state = "admission"
        /\ event = "half_freeze" => persist.phase_finished /\ persist.state = "discussion"
    BY <2>2 DEF FinalEvent, Final
  <2> HIDE DEF event
  <2>4. Sealed' = Sealed /\ Fixed' = Fixed /\ Final' = Final /\ (Final => Sealed /\ Fixed)
    BY <2>1, PhaseEnd DEF Sealed, Fixed, Final, Settled
  <2>5. \A k \in Initiative :
          /\ snap.initiative[k].admitted = initiative[k].admitted
          /\ snap.initiative[k].exists => initiative[k].exists
          /\ Final /\ initiative[k].exists => snap.initiative[k].exists
    BY <2>2, <2>4 DEF Settled, Seen, Sealed
  <2>6. \A k \in Initiative :
          LET row == initiative'[k]
          IN  /\ row.exists = initiative[k].exists /\ row.revoked = initiative[k].revoked
              /\ row.polling = initiative[k].polling
              /\ \/ row.admitted = initiative[k].admitted
                    /\ ~(Final /\ initiative[k].exists /\ initiative[k].revoked = Null)
                 \/ /\ Final /\ initiative[k].exists /\ initiative[k].revoked = Null
                    /\ row.admitted \in {"admitted", "rejected"}
                    /\ row.admitted = "admitted" /\ ~row.polling => supporter[k] # {}
    <3> TAKE k \in Initiative
    <3>1. CASE k \in Visible
      <4>1. initiative'[k] = Counted(k, satisfying) /\ initiative[k].exists
        BY <2>1, <2>5, <3>1 DEF Visible
      <4>2. Final /\ Supporters(k) # {} => supporter[k] # {}
        BY <2>2, <2>4, SealedPopulation
      <4> DEFINE row == Counted(k, satisfying)
      <4>3. /\ row.exists = initiative[k].exists /\ row.revoked = initiative[k].revoked
            /\ row.polling = initiative[k].polling
            /\ \/ row.admitted = initiative[k].admitted
                  /\ ~(Final /\ initiative[k].revoked = Null)
               \/ /\ Final /\ initiative[k].revoked = Null
                  /\ row.admitted \in {"admitted", "rejected"}
                  /\ row.admitted = "admitted" /\ ~row.polling => Supporters(k) # {}
        BY CountedRow
      <4> HIDE DEF row
      <4>4. initiative'[k] = row
        BY <4>1 DEF row
      <4> QED BY <4>1, <4>2, <4>3, <4>4
    <3>2. CASE k \notin Visible
      <4>1. initiative'[k] = initiative[k] /\ ~(Final /\ initiative[k].exists)
        BY <2>1, <2>5, <3>2 DEF Visible
      <4> QED BY <4>1
    <3> QED BY <3>1, <3>2
  <2>7. ValidTimestamps(issue)' /\ NoPhaseCutShort' /\ NoVoters'
    BY <2>1 DEF Settled, ValidTimestamps, NoPhaseCutShort, NoVoters
  <2>8. PhaseIsOver' /\ SameIssue'
    BY <2>1 DEF Settled, PhaseIsOver, PhaseOver, SameIssue
  <2>9. Tested' /\ Seen'
    BY <2>1 DEF Tested, Seen, ShareLocked
  <2>10. Admissions'
    <3> SUFFICES ASSUME NEW k \in Initiative, initiative'[k].admitted # "undecided"
                 PROVE  /\ initiative'[k].exists /\ initiative'[k].revoked = Null /\ Fixed'
                        /\ initiative'[k].admitted = "admitted" /\ ~initiative'[k].polling
                              => supporter'[k] # {}
      BY DEF Admissions
    <3>1. CASE Final /\ initiative[k].exists /\ initiative[k].revoked = Null
      BY <2>1, <2>4, <2>6, <3>1
    <3>2. CASE /\ ~(Final /\ initiative[k].exists /\ initiative[k].revoked = Null)
               /\ initiative'[k].admitted = initiative[k].admitted
      BY <2>1, <2>4, <2>6, <3>2 DEF Settled, Admissions
    <3> QED BY <2>6, <3>1, <3>2
  <2>11. \/ event # "full_freeze" /\ snapshots'["full_freeze"] = snapshots["full_freeze"]
         \/ Final /\ snapshots'["full_freeze"] = AreaMember \cup interest
    <3>1. CASE event = "full_freeze"
      <4>1. Population = AreaMember \cup interest
        BY <2>2, <2>3, <2>4, <3>1, SealedPopulation
      <4>2. snapshots'["full_freeze"] = snapshots["full_freeze"] \cup Population
        BY <2>1, <3>1
      <4>3. snapshots["full_freeze"] \in {{}, Population}
        BY <4>1 DEF Settled, FullSnapshot
      <4> QED BY <2>3, <3>1, <4>1, <4>2, <4>3
    <3>2. CASE event # "full_freeze"
      BY <2>1, <3>2
    <3> QED BY <3>1, <3>2
  <2>12. FullSnapshot'
    BY <2>1, <2>4, <2>11 DEF Settled, FullSnapshot
  <2>13. EndSnapshot'
    <3>1. CASE event = "end_of_admission"
      <4>1. Sealed
        BY <2>3, <3>1, PhaseEnd DEF Settled
      <4> QED BY <2>1, <2>2, <3>1, <4>1, SealedPopulation DEF Settled, EndSnapshot, Sealed
    <3>2. CASE event # "end_of_admission"
      BY <2>1, <3>2 DEF Settled, EndSnapshot
    <3> QED BY <3>1, <3>2
  <2>14. HalfSnapshot'
    BY <2>1 DEF Settled, HalfSnapshot, Population
  <2>15. Decided'
    <3>1. Final => Undecided' = Withdrawn'
      <4> SUFFICES ASSUME Final, NEW k \in Initiative, initiative[k].exists
                   PROVE  initiative'[k].admitted = "undecided" <=> initiative'[k].revoked # Null
        BY <2>6 DEF Undecided, Withdrawn
      <4>1. initiative[k].revoked # Null => initiative[k].admitted = "undecided"
        BY DEF Settled, Admissions
      <4> QED BY <2>6, <4>1
    <3>2. Final => issue.phase_finished # Null
      BY <2>4 DEF Sealed
    <3> QED BY <2>1, <2>3, <2>4, <2>11, <3>1, <3>2 DEF Decided, Coalesce, Final
  <2>16. ~VotingOrFinished'
    BY <2>1, <2>2 DEF Settled, SameIssue, VotingOrFinished
  <2>17. VotingIsPrepared' /\ VoteReflectsInterest'
    BY <2>16 DEF VotingIsPrepared, VoteReflectsInterest, VotingOrFinished
  <2> QED BY <2>7, <2>8, <2>9, <2>10, <2>12, <2>13, <2>14, <2>15, <2>17 DEF Settled
<1> QED BY <1>1, <1>2

LEMMA QuietSections ==
  ASSUME IInv, Settled, SetHarmonicWeights \/ CloseVoting, UNCHANGED fe
  PROVE  Settled'
<1>1. persist \in PersistType
  BY DEF IInv, TypeOK, LfTyped
<1>2. CASE SetHarmonicWeights
  BY <1>1, <1>2, QuietStep DEF SetHarmonicWeights, Return, ReturnNull, Idle, tables, PersistType
<1>3. CASE CloseVoting
  BY <1>1, <1>3, QuietStep DEF CloseVoting, Return, PersistType
<1> QED BY <1>2, <1>3

(* Canceling, admitting and freezing, when the CHECK constraints allow it.  *)
LEMMA CancelIssueKeepsSettled ==
  ASSUME IInv, Settled, CancelIssue, UNCHANGED fe
  PROVE  Settled'
<1> DEFINE r == [issue EXCEPT !.state = CanceledState,
                              !.closed = issue.phase_finished, !.phase_finished = Null]
<1> USE NullAssumption
<1>1. ~ShareLocked /\ UpdateIssue(r, voter, counted)
  BY DEF CancelIssue, Touches
<1>2. CASE ~Checks(r)
  BY <1>1, <1>2, SettledReset DEF UpdateIssue, Abort
<1>3. CASE Checks(r)
  <2>1. /\ issue \in IssueRow /\ issue.phase_finished # Null
    BY DEF CancelIssue, IInv, TypeOK, TablesTyped, HandedOver, Busy
  <2>2. /\ r.state = CanceledState /\ r.closed = issue.phase_finished
        /\ r.accepted = issue.accepted /\ r.half_frozen = issue.half_frozen
        /\ r.fully_frozen = issue.fully_frozen
    BY <2>1 DEF IssueRow
  <2>3. r.state \notin {"admission", "voting"} \cup Finished
    BY <2>2 DEF CanceledState
  <2> HIDE DEF r
  <2>4. /\ issue' = r /\ persist' = NoPersist /\ call' = "idle"
        /\ UNCHANGED <<initiative, interest, supporter, snapshots, voter>>
    BY <1>1, <1>3 DEF UpdateIssue, ReturnNull, Idle
  <2>5. Fixed => Fixed'
    BY <2>1, <2>2, <2>4 DEF Fixed
  <2>6. r.fully_frozen = Null => voter' = {}
    BY <2>2, <2>4 DEF Settled, NoVoters
  <2>7. ~VotingOrFinished' /\ NoPhaseCutShort'
    BY <2>2, <2>3, <2>4 DEF VotingOrFinished, Settled, NoPhaseCutShort
  <2> QED BY <1>1, <1>3, <2>3, <2>4, <2>5, <2>6, <2>7, SettledUpdate
<1> QED BY <1>2, <1>3

LEMMA AdmitIssueKeepsSettled ==
  ASSUME IInv, Settled, AdmitIssue, UNCHANGED fe
  PROVE  Settled'
<1> DEFINE accepted == [issue EXCEPT !.state = "discussion",
                          !.accepted = Coalesce(issue.phase_finished, snap.now),
                          !.phase_finished = Null]
           canceled == [issue EXCEPT !.state = "canceled_issue_not_accepted",
                          !.closed = issue.phase_finished, !.phase_finished = Null]
<1> USE NullAssumption
<1>1. issue \in IssueRow
  BY DEF IInv, TypeOK, TablesTyped
<1>2. /\ ~ShareLocked
      /\ \/ UpdateIssue(accepted, voter, counted)
         \/ issue.phase_finished # Null /\ UpdateIssue(canceled, voter, counted)
         \/ ReturnNull /\ UNCHANGED tables
  BY DEF AdmitIssue, Touches
<1>3. /\ accepted.state = "discussion" /\ accepted.half_frozen = issue.half_frozen
      /\ accepted.fully_frozen = issue.fully_frozen
      /\ canceled.state = "canceled_issue_not_accepted"
      /\ canceled.closed = issue.phase_finished /\ canceled.accepted = issue.accepted
      /\ canceled.half_frozen = issue.half_frozen
      /\ canceled.fully_frozen = issue.fully_frozen
  BY <1>1 DEF IssueRow
<1> HIDE DEF accepted, canceled
<1>4. ASSUME NEW r, UpdateIssue(r, voter, counted), ~Checks(r) PROVE Settled'
  BY <1>4, SettledReset DEF UpdateIssue, Abort
<1>5. ASSUME NEW r, UpdateIssue(r, voter, counted), Checks(r)
      PROVE  /\ issue' = r /\ persist' = NoPersist /\ call' = "idle"
             /\ UNCHANGED <<initiative, interest, supporter, snapshots, voter>>
  BY <1>5 DEF UpdateIssue, ReturnNull, Idle
<1>6. CASE UpdateIssue(accepted, voter, counted) /\ Checks(accepted)
  <2>1. /\ issue' = accepted /\ persist' = NoPersist /\ call' = "idle"
        /\ UNCHANGED <<initiative, interest, supporter, snapshots, voter>>
    BY <1>5, <1>6
  <2>2. issue.half_frozen = Null /\ issue.fully_frozen = Null
    BY <1>3, <1>6 DEF Checks, ValidState, ValidTimestamps
  <2>3. ~Fixed /\ voter' = {} /\ ~VotingOrFinished'
    BY <1>3, <2>1, <2>2 DEF Fixed, Settled, NoVoters, VotingOrFinished
  <2>4. NoPhaseCutShort'
    BY <1>3, <2>1, <2>2 DEF NoPhaseCutShort, Apart
  <2> QED BY <1>2, <1>3, <1>6, <2>1, <2>3, <2>4, SettledUpdate
<1>7. CASE /\ issue.phase_finished # Null /\ UpdateIssue(canceled, voter, counted)
           /\ Checks(canceled)
  <2>1. /\ issue' = canceled /\ persist' = NoPersist /\ call' = "idle"
        /\ UNCHANGED <<initiative, interest, supporter, snapshots, voter>>
    BY <1>5, <1>7
  <2>2. Fixed => Fixed'
    BY <1>3, <1>7, <2>1 DEF Fixed
  <2>3. canceled.fully_frozen = Null => voter' = {}
    BY <1>3, <2>1 DEF Settled, NoVoters
  <2>4. ~VotingOrFinished' /\ NoPhaseCutShort'
    BY <1>3, <2>1 DEF VotingOrFinished, Settled, NoPhaseCutShort
  <2> QED BY <1>2, <1>3, <1>7, <2>1, <2>2, <2>3, <2>4, SettledUpdate
<1>8. CASE ReturnNull /\ UNCHANGED tables
  BY <1>8, SettledReset DEF ReturnNull
<1> QED BY <1>2, <1>4, <1>6, <1>7, <1>8

LEMMA HalfFreezeKeepsSettled ==
  ASSUME IInv, Settled, HalfFreeze, UNCHANGED fe
  PROVE  Settled'
<1> DEFINE r == [issue EXCEPT !.state = "verification",
                              !.half_frozen = issue.phase_finished, !.phase_finished = Null]
<1> USE NullAssumption
<1>1. ~ShareLocked /\ UpdateIssue(r, voter, counted)
  BY DEF HalfFreeze, Touches
<1>2. CASE ~Checks(r)
  BY <1>1, <1>2, SettledReset DEF UpdateIssue, Abort
<1>3. CASE Checks(r)
  <2>1. /\ issue \in IssueRow /\ issue.phase_finished # Null /\ issue.state = "discussion"
        /\ persist.phase_finished
    BY DEF HalfFreeze, IInv, TypeOK, TablesTyped, HandedOver, Busy
  <2>2. /\ r.state = "verification" /\ r.half_frozen = issue.phase_finished
        /\ r.accepted = issue.accepted /\ r.fully_frozen = issue.fully_frozen
    BY <2>1 DEF IssueRow
  <2> HIDE DEF r
  <2>3. /\ issue' = r /\ persist' = NoPersist /\ call' = "idle"
        /\ UNCHANGED <<initiative, interest, supporter, snapshots, voter>>
    BY <1>1, <1>3 DEF UpdateIssue, ReturnNull, Idle
  <2>4. issue.half_frozen = Null /\ issue.fully_frozen = Null
    BY <2>1, RowFacts DEF Settled
  <2>5. ~Fixed /\ voter' = {} /\ ~VotingOrFinished'
    BY <2>2, <2>3, <2>4 DEF Fixed, Settled, NoVoters, VotingOrFinished
  <2>6. issue.phase_finished >= issue.accepted + DiscussionTime
    BY <2>1 DEF Settled, PhaseIsOver, PhaseOver
  <2>7. NoPhaseCutShort'
    BY <2>2, <2>3, <2>4, <2>6 DEF NoPhaseCutShort, Apart
  <2> QED BY <1>1, <1>3, <2>2, <2>3, <2>5, <2>7, SettledUpdate
<1> QED BY <1>2, <1>3

(* The vote opens on what the last snapshot decided.                        *)
LEMMA FullFreezeKeepsSettled ==
  ASSUME IInv, Settled, FullFreeze, UNCHANGED fe
  PROVE  Settled'
<1> DEFINE frozen == [issue EXCEPT !.fully_frozen = issue.phase_finished,
                                   !.phase_finished = Null]
           open   == [frozen EXCEPT !.state = "voting"]
           closed == [frozen EXCEPT !.state = "canceled_no_initiative_admitted",
                                    !.closed = frozen.fully_frozen]
<1> USE NullAssumption
<1>1. issue \in IssueRow
  BY DEF IInv, TypeOK, TablesTyped
<1>2. /\ ~ShareLocked /\ call = "tx"
      /\ \/ /\ \E k \in Visible : snap.initiative[k].admitted = "admitted"
            /\ UpdateIssue(open, voter, counted)
         \/ UpdateIssue(closed, {}, Null)
  BY DEF FullFreeze, Touches
<1>3. /\ issue.phase_finished # Null /\ issue.state = "verification" /\ Final
      /\ persist.snapshot_created
  BY DEF FullFreeze, Prepared, AwaitsSnapshot, IInv, HandedOver, Busy, Final
<1>4. /\ open.state = "voting" /\ open.accepted = issue.accepted
      /\ open.half_frozen = issue.half_frozen
      /\ open.fully_frozen = issue.phase_finished /\ open.closed = issue.closed
      /\ open.snapshot = issue.snapshot
      /\ open.latest_snapshot_event = issue.latest_snapshot_event
      /\ closed.state = "canceled_no_initiative_admitted"
      /\ closed.closed = issue.phase_finished /\ closed.accepted = issue.accepted
      /\ closed.half_frozen = issue.half_frozen
      /\ closed.fully_frozen = issue.phase_finished
  BY <1>1 DEF IssueRow
<1> HIDE DEF frozen, open, closed
<1>5. ASSUME NEW r, NEW v, NEW c, UpdateIssue(r, v, c), ~Checks(r) PROVE Settled'
  BY <1>5, SettledReset DEF UpdateIssue, Abort
<1>6. ASSUME NEW r, NEW v, NEW c, UpdateIssue(r, v, c), Checks(r)
      PROVE  /\ issue' = r /\ persist' = NoPersist /\ call' = "idle" /\ voter' = v
             /\ UNCHANGED <<initiative, interest, supporter, snapshots>>
  BY <1>6 DEF UpdateIssue, ReturnNull, Idle
<1>7. /\ issue.half_frozen # Null /\ Fixed
      /\ issue.phase_finished >= issue.half_frozen + VerificationTime
  BY <1>3, RowFacts DEF Fixed, Settled, PhaseIsOver, PhaseOver, Final
<1>8. Apart(issue.accepted, issue.half_frozen, DiscussionTime)
  BY DEF Settled, NoPhaseCutShort
<1>9. CASE /\ \E k \in Visible : snap.initiative[k].admitted = "admitted"
           /\ UpdateIssue(open, voter, counted) /\ Checks(open)
  <2>1. /\ issue' = open /\ persist' = NoPersist /\ call' = "idle"
        /\ UNCHANGED <<initiative, interest, supporter, snapshots>>
    BY <1>6, <1>9
  <2>2. Fixed' /\ open.fully_frozen # Null
    BY <1>3, <1>4, <1>7, <2>1 DEF Fixed
  <2>3. NoPhaseCutShort'
    BY <1>4, <1>7, <1>8, <2>1 DEF NoPhaseCutShort, Apart
  <2>4. /\ issue.latest_snapshot_event = "full_freeze"
        /\ issue.snapshot = issue.phase_finished
        /\ snapshots["full_freeze"] = AreaMember \cup interest
        /\ Undecided = Withdrawn
    BY <1>3 DEF Settled, Decided
  <2>5. \E k \in Initiative : initiative[k].admitted = "admitted"
    BY <1>2, <1>9 DEF Settled, Seen, Visible
  <2>6. \A k \in Initiative : initiative[k].exists =>
          (initiative[k].admitted = "undecided" <=> initiative[k].revoked # Null)
    BY <2>4 DEF Undecided, Withdrawn
  <2>7. VotingIsPrepared'
    BY <1>4, <2>1, <2>4, <2>5, <2>6 DEF VotingIsPrepared
  <2>8. VoteReflectsInterest'
    BY <2>1, <2>4 DEF VoteReflectsInterest, Settled, Admissions
  <2> QED BY <1>2, <1>4, <1>9, <2>1, <2>2, <2>3, <2>7, <2>8, SettledUpdate
<1>10. CASE UpdateIssue(closed, {}, Null) /\ Checks(closed)
  <2>1. /\ issue' = closed /\ persist' = NoPersist /\ call' = "idle" /\ voter' = {}
        /\ UNCHANGED <<initiative, interest, supporter, snapshots>>
    BY <1>6, <1>10
  <2>2. Fixed' /\ ~VotingOrFinished'
    BY <1>3, <1>4, <1>7, <2>1 DEF Fixed, VotingOrFinished
  <2>3. NoPhaseCutShort'
    BY <1>4, <1>7, <1>8, <2>1 DEF NoPhaseCutShort, Apart
  <2> QED BY <1>2, <1>4, <1>10, <2>1, <2>2, <2>3, SettledUpdate
<1> QED BY <1>2, <1>5, <1>9, <1>10

LEMMA CalculateRanksKeepsSettled ==
  ASSUME IInv, Settled, CalculateRanks, UNCHANGED fe
  PROVE  Settled'
<1> USE NullAssumption
<1>1. PICK outcome \in Finished :
        UpdateIssue([issue EXCEPT !.state = outcome, !.closed = issue.phase_finished,
                                  !.phase_finished = Null], voter, counted)
  BY DEF CalculateRanks
<1> DEFINE r == [issue EXCEPT !.state = outcome, !.closed = issue.phase_finished,
                              !.phase_finished = Null]
<1>2. ~ShareLocked /\ UpdateIssue(r, voter, counted)
  BY <1>1 DEF CalculateRanks, Touches
<1>3. CASE ~Checks(r)
  BY <1>2, <1>3, SettledReset DEF UpdateIssue, Abort
<1>4. CASE Checks(r)
  <2>1. /\ issue \in IssueRow /\ issue.phase_finished # Null /\ issue.state = "voting"
        /\ persist.phase_finished
    BY DEF CalculateRanks, IInv, TypeOK, TablesTyped, HandedOver, Busy
  <2>2. /\ r.state = outcome /\ r.closed = issue.phase_finished
        /\ r.accepted = issue.accepted /\ r.half_frozen = issue.half_frozen
        /\ r.fully_frozen = issue.fully_frozen /\ r.snapshot = issue.snapshot
        /\ r.latest_snapshot_event = issue.latest_snapshot_event
    BY <2>1 DEF IssueRow
  <2> HIDE DEF r
  <2>3. /\ issue' = r /\ persist' = NoPersist /\ call' = "idle"
        /\ UNCHANGED <<initiative, interest, supporter, snapshots, voter>>
    BY <1>2, <1>4 DEF UpdateIssue, ReturnNull, Idle
  <2>4. (Fixed => Fixed') /\ issue.fully_frozen # Null
    BY <2>1, <2>2, <2>3, RowFacts DEF Fixed, Settled, VotingOrFinished
  <2>5. issue.phase_finished >= issue.fully_frozen + VotingTime
    BY <2>1 DEF Settled, PhaseIsOver, PhaseOver
  <2>6. NoPhaseCutShort'
    BY <2>2, <2>3, <2>5 DEF Settled, NoPhaseCutShort, Apart
  <2>7. VotingIsPrepared' /\ VoteReflectsInterest'
    BY <2>1, <2>2, <2>3 DEF Settled, VotingIsPrepared, VoteReflectsInterest
  <2> QED BY <1>2, <1>4, <2>2, <2>3, <2>4, <2>6, <2>7, SettledUpdate
<1> QED BY <1>3, <1>4

LEMMA CheckIssueKeepsSettled == ASSUME IInv, Settled, CheckIssue PROVE Settled'
BY StartKeepsSettled, CreateSnapshotKeepsSettled, QuietSections, CancelIssueKeepsSettled,
   AdmitIssueKeepsSettled, HalfFreezeKeepsSettled, FullFreezeKeepsSettled,
   CalculateRanksKeepsSettled DEF CheckIssue

-----------------------------------------------------------------------------
(* The loop of lf_update, time, the other issues.                           *)
LEMMA QuietActions ==
  ASSUME IInv, Settled,
         \/ SelectOpenIssue \/ SerializationFailure \/ Crash \/ Tick \/ SectionChange
         \/ UNCHANGED vars \/ \E s \in Session : FrontendRollback(s)
  PROVE  Settled'
<1>1. CASE \/ SelectOpenIssue \/ SerializationFailure \/ Crash \/ Tick \/ SectionChange
           \/ UNCHANGED vars
  BY <1>1, QuietStep DEF SelectOpenIssue, SerializationFailure, Abort, Idle, Crash, Tick,
     SectionChange, vars, tables, lf
<1>2. ASSUME NEW s \in Session, FrontendRollback(s) PROVE Settled'
  BY <1>2, QuietStep DEF FrontendRollback, End, tables, lf, IInv, TypeOK
<1> QED BY <1>1, <1>2

LEMMA BeginCallKeepsSettled == ASSUME IInv, Settled, BeginCall PROVE Settled'
<1>1. UNCHANGED <<clock, tables, conflict, fe, persist, error, crashes>>
  BY DEF BeginCall
<1>2. /\ snap'.initiative = initiative /\ snap'.interest = interest
      /\ snap'.supporter = supporter
  BY DEF BeginCall, Snapshot
<1>3. Sealed' = Sealed /\ Fixed' = Fixed /\ Undecided' = Undecided /\ Withdrawn' = Withdrawn
  BY <1>1 DEF Sealed, Fixed, Undecided, Withdrawn, tables
<1>4. Seen'
  BY <1>1, <1>2 DEF Settled, Seen, Admissions, tables
<1>5. ValidTimestamps(issue)' /\ NoPhaseCutShort' /\ NoVoters'
  BY <1>1 DEF Settled, ValidTimestamps, NoPhaseCutShort, NoVoters, tables
<1>6. PhaseIsOver' /\ SameIssue'
  BY <1>1 DEF Settled, PhaseIsOver, PhaseOver, SameIssue, tables
<1>7. Tested'
  BY <1>1, <1>3 DEF Settled, Tested, Debating, tables
<1>8. Admissions' /\ FullSnapshot' /\ EndSnapshot' /\ HalfSnapshot'
  BY <1>1, <1>3 DEF Settled, Admissions, FullSnapshot, EndSnapshot, HalfSnapshot, tables
<1>9. Decided' /\ VotingIsPrepared' /\ VoteReflectsInterest'
  BY <1>1, <1>3 DEF Settled, Decided, Final, VotingIsPrepared, VoteReflectsInterest, tables
<1> QED BY <1>4, <1>5, <1>6, <1>7, <1>8, <1>9 DEF Settled

(* The administrator stays out while the end of a phase is worked on.       *)
LEMMA AdminCancelKeepsSettled == ASSUME IInv, Settled, AdminCancel PROVE Settled'
<1> DEFINE r == [issue EXCEPT !.state = "canceled_by_admin", !.closed = clock]
<1> USE NullAssumption
<1>1. issue \in IssueRow /\ clock \in Nat /\ snap \in SnapType
  BY DEF IInv, TypeOK, TablesTyped, LfTyped
<1>2. issue' = r /\ Checks(r) /\ ~ShareLocked /\ Dirty({"issue"})
      /\ UNCHANGED <<initiative, interest, supporter, voter, snapshots, fe, call, persist>>
  BY DEF AdminCancel
<1>3. /\ r.state = "canceled_by_admin" /\ r.closed = clock
      /\ r.phase_finished = issue.phase_finished /\ r.accepted = issue.accepted
      /\ r.half_frozen = issue.half_frozen /\ r.fully_frozen = issue.fully_frozen
  BY <1>1 DEF IssueRow
<1> HIDE DEF r
<1>4. issue.phase_finished = Null /\ ~persist.phase_finished
  BY <1>1, <1>2, <1>3 DEF Checks, IInv, HandedOver, Busy
<1>5. /\ snap'.initiative = snap.initiative /\ snap'.interest = snap.interest
      /\ snap'.supporter = snap.supporter
  BY <1>1, <1>2 DEF Dirty, SnapType
<1>6. ~Sealed' /\ (Fixed => Fixed') /\ ~Final'
  BY <1>1, <1>2, <1>3, <1>4 DEF Sealed, Fixed, Final
<1>7. ValidTimestamps(issue)' /\ NoPhaseCutShort' /\ NoVoters'
  BY <1>2, <1>3 DEF Settled, ValidTimestamps, NoPhaseCutShort, NoVoters
<1>8. PhaseIsOver' /\ SameIssue' /\ Decided'
  BY <1>2, <1>3, <1>4, <1>6 DEF Settled, PhaseIsOver, SameIssue, Decided
<1>9. Tested'
  BY <1>2 DEF Tested, ShareLocked
<1>10. Seen'
  BY <1>2, <1>3, <1>4, <1>5, <1>6 DEF Settled, Seen
<1>11. Admissions' /\ FullSnapshot' /\ EndSnapshot' /\ HalfSnapshot'
  BY <1>2, <1>3, <1>6 DEF Settled, Admissions, FullSnapshot, EndSnapshot, HalfSnapshot
<1>12. VotingIsPrepared' /\ VoteReflectsInterest'
  BY <1>2, <1>3 DEF VotingIsPrepared, VoteReflectsInterest
<1> QED BY <1>7, <1>8, <1>9, <1>10, <1>11, <1>12 DEF Settled

-----------------------------------------------------------------------------
(* The frontend sessions.                                                  *)
LEMMA FrontendBeginKeepsSettled ==
  ASSUME IInv, Settled, NEW s \in Session, FrontendBegin(s)
  PROVE  Settled'
<1>1. PICK r \in Requests :
        Permitted(r) /\ fe' = [fe EXCEPT ![s] = [request |-> r, now |-> Now(r)]]
  BY DEF FrontendBegin
<1>2. UNCHANGED tables /\ UNCHANGED lf
  BY DEF FrontendBegin
<1>3. fe'[s].request = r /\ \A t \in Session : t # s => fe'[t] = fe[t]
  BY <1>1 DEF IInv, TypeOK
<1>4. /\ r.op = "create" => issue.phase_finished = Null
      /\ Debating(r.op) => ~Sealed
      /\ r.op \in {"vote", "unvote"} => issue.state = "voting"
  BY <1>1 DEF Permitted, Debating, Sealed, CreationOpen, DebateOpen, VotingOpen
<1>5. Sealed' = Sealed /\ Fixed' = Fixed /\ Undecided' = Undecided /\ Withdrawn' = Withdrawn
  BY <1>2 DEF Sealed, Fixed, Undecided, Withdrawn, tables
<1>6. Tested'
  <2> SUFFICES ASSUME NEW t \in Session, fe'[t] # NoTx
               PROVE  /\ fe'[t].request.op = "create" => issue.phase_finished = Null
                      /\ Debating(fe'[t].request.op) => ~Sealed
                      /\ fe'[t].request.op \in {"vote", "unvote"} => issue.state = "voting"
    BY <1>2, <1>5 DEF Tested, Debating, tables
  <2>1. CASE t = s
    BY <1>3, <1>4, <2>1
  <2>2. CASE t # s
    BY <1>3, <2>2 DEF Settled, Tested
  <2> QED BY <2>1, <2>2
<1>7. ValidTimestamps(issue)' /\ NoPhaseCutShort' /\ NoVoters'
  BY <1>2 DEF Settled, ValidTimestamps, NoPhaseCutShort, NoVoters, tables
<1>8. PhaseIsOver' /\ SameIssue' /\ Seen'
  BY <1>2, <1>5 DEF Settled, PhaseIsOver, PhaseOver, SameIssue, Seen, tables, lf
<1>9. Admissions' /\ FullSnapshot' /\ EndSnapshot' /\ HalfSnapshot'
  BY <1>2, <1>5 DEF Settled, Admissions, FullSnapshot, EndSnapshot, HalfSnapshot, tables
<1>10. Decided' /\ VotingIsPrepared' /\ VoteReflectsInterest'
  BY <1>2, <1>5 DEF Settled, Decided, Final, VotingIsPrepared, VoteReflectsInterest,
     tables, lf
<1> QED BY <1>6, <1>7, <1>8, <1>9, <1>10 DEF Settled

(* What a transaction writes, it may write.                                 *)
LEMMA CommitIsAllowed ==
  ASSUME IInv, Fresh, Settled, NEW s \in Session, FrontendCommit(s)
  PROVE  /\ Fixed => UNCHANGED <<initiative, interest, supporter>>
         /\ Sealed => UNCHANGED <<interest, supporter>>
         /\ UNCHANGED voter \/ issue.state = "voting"
         /\ \A k \in Initiative :
               /\ initiative'[k].admitted = initiative[k].admitted
               /\ initiative[k].exists => initiative'[k].exists
               /\ issue.phase_finished # Null /\ initiative'[k].exists
                     => initiative[k].exists
<1> DEFINE op == fe[s].request.op
           k  == fe[s].request.initiative
<1>1. /\ initiative \in [Initiative -> InitiativeRow] /\ fe[s] # NoTx
      /\ StillOpen(op)
      /\ op = "create" => issue.phase_finished = Null
      /\ Debating(op) => ~Sealed
      /\ op \in {"vote", "unvote"} => issue.state = "voting"
  BY DEF FrontendCommit, IInv, TypeOK, TablesTyped, SessionsOpen, Settled, Tested
<1>2. /\ UNCHANGED <<interest, supporter>> \/ Debating(op)
      /\ UNCHANGED initiative \/ op \in {"create", "revoke"}
      /\ UNCHANGED voter \/ op \in {"vote", "unvote"}
  BY DEF FrontendCommit, WriteInitiative, WriteSupport, WriteInterest, WriteBallot,
     WriteRevocation, Debating
<1>3. Creating(s) \/ Revoking(s) => k \in Initiative
  BY RequestsTyped DEF IInv, Creating, Revoking
<1>4. /\ Creating(s) => op = "create" /\ ~initiative[k].exists
      /\ Revoking(s) => op = "revoke"
  BY DEF Creating, Revoking, Fresh
<1>5. Creating(s) => New(s).admitted = "undecided" /\ New(s).exists
  BY NewTyped DEF New, NewInitiative, NoInitiative
<1>6. \A j \in Initiative : ~initiative[j].exists => initiative[j].admitted = "undecided"
  BY DEF Settled, Admissions
<1>7. CASE InitiativesStay /\ UNCHANGED initiative
  BY <1>1, <1>2, <1>7 DEF StillOpen, Fixed, Sealed, Debating
<1>8. CASE /\ Creating(s)
           /\ initiative' = [initiative EXCEPT ![fe[s].request.initiative] = New(s)]
  <2>1. \A j \in Initiative : initiative'[j] = IF j = k THEN New(s) ELSE initiative[j]
    BY <1>1, <1>3, <1>8
  <2>2. op = "create" /\ ~initiative[k].exists /\ ~Sealed
    BY <1>1, <1>4, <1>8 DEF Debating
  <2>3. ~Fixed
    BY <1>1, <2>2 DEF StillOpen, Fixed
  <2> HIDE DEF op, k
  <2> QED BY <1>1, <1>2, <1>5, <1>6, <1>8, <2>1, <2>2, <2>3
<1>9. CASE /\ Revoking(s)
           /\ initiative' = [initiative EXCEPT
                               ![fe[s].request.initiative].revoked = fe[s].now]
  <2>1. \A j \in Initiative : /\ initiative'[j].exists = initiative[j].exists
                              /\ initiative'[j].admitted = initiative[j].admitted
    BY <1>1, <1>3, <1>9 DEF InitiativeRow
  <2>2. op = "revoke" /\ ~Debating(op)
    BY <1>4, <1>9 DEF Debating
  <2>3. ~Fixed
    BY <1>1, <2>2 DEF StillOpen, Fixed
  <2> HIDE DEF op, k
  <2> QED BY <1>2, <2>1, <2>2, <2>3
<1>10. \/ UNCHANGED initiative
       \/ /\ Creating(s)
          /\ initiative' = [initiative EXCEPT ![fe[s].request.initiative] = New(s)]
       \/ /\ Revoking(s)
          /\ initiative' = [initiative EXCEPT
                              ![fe[s].request.initiative].revoked = fe[s].now]
  BY DEF FrontendCommit, WriteInitiative, WriteSupport, WriteInterest, WriteBallot,
     WriteRevocation, Creating, Revoking, New
<1> QED BY <1>7, <1>8, <1>9, <1>10 DEF InitiativesStay

LEMMA FrontendCommitKeepsSettled ==
  ASSUME IInv, Fresh, Settled, NEW s \in Session, FrontendCommit(s)
  PROVE  Settled'
<1> USE NullAssumption
<1>1. /\ UNCHANGED <<issue, snapshots, call, persist>>
      /\ fe' = [fe EXCEPT ![s] = NoTx] /\ DOMAIN fe = Session /\ snap \in SnapType
  BY DEF FrontendCommit, End, IInv, TypeOK, LfTyped
<1>2. /\ snap'.initiative = snap.initiative /\ snap'.interest = snap.interest
      /\ snap'.supporter = snap.supporter
  BY <1>1 DEF FrontendCommit, Dirty, SnapType
<1>3. /\ Fixed => UNCHANGED <<initiative, interest, supporter>>
      /\ Sealed => UNCHANGED <<interest, supporter>>
      /\ UNCHANGED voter \/ issue.state = "voting"
      /\ \A k \in Initiative :
            /\ initiative'[k].admitted = initiative[k].admitted
            /\ initiative[k].exists => initiative'[k].exists
            /\ issue.phase_finished # Null /\ initiative'[k].exists
                  => initiative[k].exists
  BY CommitIsAllowed
<1>4. Sealed' = Sealed /\ Fixed' = Fixed /\ Final' = Final
  BY <1>1 DEF Sealed, Fixed, Final
<1>5. /\ Final => Fixed
      /\ VotingOrFinished => Fixed
      /\ issue.state = "admission" /\ issue.phase_finished # Null => Sealed
  BY RowFacts DEF Settled, IInv, HandedOver, Busy, Final, Fixed, Sealed
<1>6. ValidTimestamps(issue)' /\ NoPhaseCutShort'
  BY <1>1 DEF Settled, ValidTimestamps, NoPhaseCutShort
<1>7. PhaseIsOver' /\ SameIssue'
  BY <1>1 DEF Settled, PhaseIsOver, PhaseOver, SameIssue
<1>8. Tested'
  BY <1>1, <1>4 DEF Settled, Tested, Debating
<1>9. Seen'
  BY <1>1, <1>2, <1>3, <1>4 DEF Settled, Seen
<1>10. Admissions' /\ FullSnapshot' /\ HalfSnapshot'
  BY <1>1, <1>3, <1>4 DEF Settled, Admissions, FullSnapshot, HalfSnapshot
<1>11. EndSnapshot'
  BY <1>1, <1>3, <1>5 DEF Settled, EndSnapshot
<1>12. Decided'
  BY <1>1, <1>3, <1>4, <1>5 DEF Settled, Decided, Undecided, Withdrawn
<1>13. NoVoters'
  BY <1>1, <1>3, RowFacts DEF Settled, NoVoters, VotingOrFinished
<1>14. VotingIsPrepared' /\ VoteReflectsInterest'
  BY <1>1, <1>3, <1>5 DEF Settled, VotingOrFinished, VotingIsPrepared, VoteReflectsInterest
<1> QED BY <1>6, <1>7, <1>8, <1>9, <1>10, <1>11, <1>12, <1>13, <1>14 DEF Settled

-----------------------------------------------------------------------------
LEMMA NextKeepsSettled == ASSUME IInv, Fresh, Settled, [Next]_vars PROVE Settled'
BY CheckIssueKeepsSettled, QuietActions, BeginCallKeepsSettled, AdminCancelKeepsSettled,
   FrontendBeginKeepsSettled, FrontendCommitKeepsSettled DEF Next

LEMMA AlwaysSettled == Spec => [](IInv /\ Fresh /\ Settled)
<1>1. Init => IInv /\ Fresh /\ Settled
  BY InitIInv, InitFresh, InitSettled
<1>2. IInv /\ Fresh /\ Settled /\ [Next]_vars => (IInv /\ Fresh /\ Settled)'
  BY NextKeepsIInv, NextKeepsFresh, NextKeepsSettled
<1> QED BY <1>1, <1>2, PTL DEF Spec

-----------------------------------------------------------------------------
(* The constraints of the row.  The order of the timestamps rests on the    *)
(* times at which the phases ended, and only an administrator can come      *)
(* between the calls that work on an issue.                                *)
RowSound ==
    /\ Checks(issue) /\ issue.created = 0
    /\ persist.conflicting_section => persist.state = "admission"
    /\ persist.issue_revoked => persist.state # "voting"
    /\ error = "check_violation" => issue.state = "canceled_by_admin"
    /\ call = "tx" => \A k \in Initiative :
          snap.initiative[k].admitted # "undecided" => snap.initiative[k].revoked = Null

(* What a section of check_issue does for it.                               *)
SoundStep ==
    /\ Checks(issue)' /\ issue'.created = 0
    /\ persist'.conflicting_section => persist'.state = "admission"
    /\ persist'.issue_revoked => persist'.state # "voting"
    /\ call' # "tx"
    /\ error' = error \/ error' # "check_violation" \/ issue'.state = "canceled_by_admin"

LEMMA SoundUpdate ==
  ASSUME RowSound, NEW r, NEW v, NEW c, UpdateIssue(r, v, c), r.created = issue.created,
         Checks(r) \/ issue.state = "canceled_by_admin"
  PROVE  SoundStep
<1>1. ~NoPersist.conflicting_section /\ ~NoPersist.issue_revoked
  BY DEF NoPersist
<1>2. CASE Checks(r)
  BY <1>1, <1>2 DEF UpdateIssue, ReturnNull, Idle, RowSound, SoundStep
<1>3. CASE ~Checks(r)
  BY <1>1, <1>3 DEF UpdateIssue, Abort, Idle, tables, RowSound, SoundStep
<1> QED BY <1>2, <1>3

(* An issue that was closed meanwhile was canceled by an administrator.      *)
LEMMA ClosedByAdmin ==
  ASSUME IInv, Settled, persist.state # Null, issue.closed # Null
  PROVE  issue.state = "canceled_by_admin"
<1>1. persist.state \in Deliberation \cup {"voting"}
  BY DEF IInv, TypeOK, LfTyped, PersistType
<1>2. issue.state \notin Deliberation \cup {"voting"}
  BY RowFacts DEF Settled
<1> QED BY <1>1, <1>2 DEF Settled, SameIssue

LEMMA StartIsSound == ASSUME IInv, Settled, RowSound, Start PROVE SoundStep
<1> USE NullAssumption
<1>1. issue \in IssueRow
  BY DEF IInv, TypeOK, TablesTyped
<1>2. CASE ReturnNull /\ UNCHANGED issue
  BY <1>2 DEF ReturnNull, Idle, NoPersist, RowSound, SoundStep
<1>3. CASE /\ issue.closed = Null /\ issue' \in {issue, FinishPhase}
           /\ \E over, revoked \in BOOLEAN :
                 (revoked => issue.state # "voting") /\ Return([NoPersist EXCEPT !.state = issue.state, !.phase_finished = over,
                           !.issue_revoked = revoked,
                           !.conflicting_section = issue.state = "admission" /\ snap.conflict])
  <2>1. /\ error' = error /\ call' # "tx"
        /\ persist'.conflicting_section => persist'.state = "admission"
        /\ persist'.issue_revoked => persist'.state # "voting"
    BY <1>3 DEF Return, NoPersist
  <2>2. /\ \A f \in {"state", "created", "accepted", "half_frozen", "fully_frozen", "closed",
                       "snapshot", "latest_snapshot_event"} : issue'[f] = issue[f]
        /\ issue.closed = Null
    BY <1>1, <1>3 DEF IssueRow, FinishPhase
  <2>3. Checks(issue)'
    BY <2>2 DEF RowSound, Checks, ValidTimestamps, ValidState, StateChangeOrder
  <2> QED BY <2>1, <2>2, <2>3 DEF SoundStep, RowSound
<1>4. PhaseOver(snap.now) \in BOOLEAN /\ IssueRevoked(PhaseOver(snap.now)) \in BOOLEAN
  BY DEF PhaseOver, IssueRevoked
<1>5. IssueRevoked(PhaseOver(snap.now)) => issue.state # "voting"
  <2> SUFFICES ASSUME issue.state = "voting" PROVE Unrevoked(snap.initiative) # {}
    BY DEF IssueRevoked
  <2>1. PICK k \in Initiative : initiative[k].admitted = "admitted"
    BY DEF Settled, VotingIsPrepared
  <2>2. /\ snap.initiative[k].admitted = "admitted" /\ snap.initiative[k].exists
        /\ snap.initiative[k].revoked = Null
    BY <2>1 DEF Start, Touches, Settled, Seen, RowSound
  <2> QED BY <2>2 DEF Unrevoked
<1> QED BY <1>2, <1>3, <1>4, <1>5 DEF Start

LEMMA CreateSnapshotIsSound ==
  ASSUME IInv, Settled, RowSound, CreateSnapshot
  PROVE  SoundStep
<1> USE NullAssumption
<1>1. issue \in IssueRow /\ snap.now \in Nat /\ persist \in PersistType
  BY DEF IInv, TypeOK, TablesTyped, LfTyped, SnapType
<1>2. issue.fully_frozen = Null
  BY DEF CreateSnapshot, AwaitsSnapshot, Settled, SameIssue
<1>3. CASE Abort("unique_violation")
  BY <1>3 DEF Abort, Idle, NoPersist, tables, RowSound, SoundStep
<1>4. ASSUME NEW event \in SnapshotEvent, Return([persist EXCEPT !.snapshot_created = TRUE]),
             issue' = [issue EXCEPT !.snapshot = Coalesce(issue.phase_finished, snap.now),
                                    !.latest_snapshot_event = event]
      PROVE  SoundStep
  <2>1. /\ error' = error /\ call' # "tx"
        /\ persist'.conflicting_section => persist'.state = "admission"
        /\ persist'.issue_revoked => persist'.state # "voting"
    BY <1>1, <1>4 DEF Return, PersistType, RowSound
  <2>2. /\ \A f \in {"state", "created", "accepted", "half_frozen", "fully_frozen", "closed",
                       "phase_finished"} : issue'[f] = issue[f]
        /\ issue'.snapshot # Null /\ issue'.latest_snapshot_event # Null
    BY <1>1, <1>4 DEF IssueRow, Coalesce
  <2>3. Checks(issue)'
    BY <1>2, <2>2 DEF RowSound, Checks, ValidTimestamps, ValidState, StateChangeOrder
  <2> QED BY <2>1, <2>2, <2>3 DEF SoundStep, RowSound
<1>5. (IF persist.phase_finished THEN FinalEvent[persist.state] ELSE "periodic") \in SnapshotEvent
  BY DEF CreateSnapshot, AwaitsSnapshot, FinalEvent
<1> QED BY <1>3, <1>4, <1>5 DEF CreateSnapshot

LEMMA QuietIsSound ==
  ASSUME IInv, RowSound, SetHarmonicWeights \/ CloseVoting
  PROVE  SoundStep
<1> USE NullAssumption
<1>1. persist \in PersistType
  BY DEF IInv, TypeOK, LfTyped
<1>2. UNCHANGED <<issue, error>> /\ call' # "tx"
  BY DEF SetHarmonicWeights, CloseVoting, Return, ReturnNull, Idle, tables
<1>3. /\ persist'.conflicting_section => persist'.state = "admission"
      /\ persist'.issue_revoked => persist'.state # "voting"
  BY <1>1 DEF SetHarmonicWeights, CloseVoting, Return, ReturnNull, Idle, NoPersist,
     PersistType, RowSound
<1>4. Checks(issue)'
  BY <1>2 DEF RowSound, Checks, ValidTimestamps, ValidState, StateChangeOrder
<1> QED BY <1>2, <1>3, <1>4 DEF SoundStep, RowSound

LEMMA CancelIssueIsSound ==
  ASSUME IInv, Settled, RowSound, CancelIssue
  PROVE  SoundStep
<1> DEFINE r == [issue EXCEPT !.state = CanceledState,
                              !.closed = issue.phase_finished, !.phase_finished = Null]
<1> USE NullAssumption
<1>1. /\ issue \in IssueRow /\ persist \in PersistType /\ persist.state # Null
      /\ UpdateIssue(r, voter, counted)
  BY DEF CancelIssue, IInv, TypeOK, TablesTyped, LfTyped
<1>2. issue.phase_finished # Null /\ issue.state = persist.state /\ issue.closed = Null
  BY RowFacts DEF CancelIssue, IInv, HandedOver, Busy, Settled
<1>3. persist.state \in Deliberation
  BY <1>1 DEF CancelIssue, RowSound, PersistType
<1>4. /\ r.state = CanceledState /\ r.created = issue.created /\ r.accepted = issue.accepted
      /\ r.half_frozen = issue.half_frozen /\ r.fully_frozen = issue.fully_frozen
      /\ r.closed = issue.phase_finished /\ r.phase_finished = Null
      /\ r.snapshot = issue.snapshot
      /\ r.latest_snapshot_event = issue.latest_snapshot_event
  BY <1>1 DEF IssueRow
<1>5. /\ issue.fully_frozen = Null
      /\ persist.state = "admission" => issue.accepted = Null
      /\ persist.state = "discussion" => issue.half_frozen = Null
  BY <1>2, <1>3, RowFacts DEF Settled
<1> HIDE DEF r
<1>6. ValidState(r)
  <2>1. CASE persist.state = "admission"
    BY <1>2, <1>4, <1>5, <2>1 DEF CanceledState, ValidState
  <2>2. CASE persist.state # "admission"
    <3>1. ~persist.conflicting_section
      BY <2>2 DEF RowSound
    <3> QED BY <1>2, <1>3, <1>4, <1>5, <2>2, <3>1 DEF CanceledState, ValidState
  <2> QED BY <2>1, <2>2
<1>7. Checks(r)
  BY <1>4, <1>5, <1>6 DEF RowSound, Checks, ValidTimestamps, StateChangeOrder, Before
<1> QED BY <1>1, <1>4, <1>7, SoundUpdate

LEMMA AdmitIssueIsSound ==
  ASSUME IInv, Settled, RowSound, AdmitIssue
  PROVE  SoundStep
<1> DEFINE accepted == [issue EXCEPT !.state = "discussion",
                          !.accepted = Coalesce(issue.phase_finished, snap.now),
                          !.phase_finished = Null]
           canceled == [issue EXCEPT !.state = "canceled_issue_not_accepted",
                          !.closed = issue.phase_finished, !.phase_finished = Null]
<1> USE NullAssumption
<1>1. issue \in IssueRow /\ snap.now \in Nat /\ persist.state = "admission"
  BY DEF AdmitIssue, IInv, TypeOK, TablesTyped, LfTyped, SnapType
<1>2. \/ UpdateIssue(accepted, voter, counted)
      \/ issue.phase_finished # Null /\ UpdateIssue(canceled, voter, counted)
      \/ ReturnNull /\ UNCHANGED tables
  BY DEF AdmitIssue
<1>3. /\ accepted.state = "discussion" /\ accepted.created = issue.created
      /\ accepted.accepted \in Nat /\ accepted.half_frozen = issue.half_frozen
      /\ accepted.fully_frozen = issue.fully_frozen /\ accepted.closed = issue.closed
      /\ accepted.phase_finished = Null /\ accepted.snapshot = issue.snapshot
      /\ accepted.latest_snapshot_event = issue.latest_snapshot_event
  BY <1>1 DEF IssueRow, Coalesce
<1>4. /\ canceled.state = "canceled_issue_not_accepted" /\ canceled.created = issue.created
      /\ canceled.accepted = issue.accepted /\ canceled.half_frozen = issue.half_frozen
      /\ canceled.fully_frozen = issue.fully_frozen
      /\ canceled.closed = issue.phase_finished
      /\ canceled.phase_finished = Null /\ canceled.snapshot = issue.snapshot
      /\ canceled.latest_snapshot_event = issue.latest_snapshot_event
  BY <1>1 DEF IssueRow
<1> HIDE DEF accepted, canceled
<1>5. ASSUME issue.closed = Null PROVE Checks(accepted)
  <2>1. issue.state = "admission"
    BY <1>1, <1>5, RowFacts DEF Settled, SameIssue
  <2>2. /\ issue.accepted = Null /\ issue.half_frozen = Null /\ issue.fully_frozen = Null
        /\ issue.created = 0
    BY <2>1, RowFacts DEF Settled, RowSound
  <2> QED BY <1>3, <1>5, <2>2 DEF RowSound, Checks, ValidTimestamps, ValidState,
             StateChangeOrder, Before
<1>6. ASSUME issue.phase_finished # Null PROVE Checks(canceled)
  <2>1. issue.state = "admission" /\ issue.closed = Null
    BY <1>1, <1>6, RowFacts DEF Settled, SameIssue
  <2>2. issue.accepted = Null /\ issue.half_frozen = Null /\ issue.fully_frozen = Null
    BY <2>1, RowFacts DEF Settled
  <2> QED BY <1>4, <1>6, <2>2 DEF RowSound, Checks, ValidTimestamps, ValidState,
             StateChangeOrder, Before
<1>7. issue.closed # Null => issue.state = "canceled_by_admin"
  BY <1>1, ClosedByAdmin
<1>8. CASE UpdateIssue(accepted, voter, counted)
  BY <1>3, <1>5, <1>7, <1>8, SoundUpdate
<1>9. CASE issue.phase_finished # Null /\ UpdateIssue(canceled, voter, counted)
  BY <1>4, <1>6, <1>9, SoundUpdate
<1>10. CASE ReturnNull /\ UNCHANGED tables
  BY <1>10 DEF ReturnNull, Idle, NoPersist, tables, RowSound, SoundStep
<1> QED BY <1>2, <1>8, <1>9, <1>10

LEMMA HalfFreezeIsSound ==
  ASSUME IInv, Settled, RowSound, HalfFreeze
  PROVE  SoundStep
<1> DEFINE r == [issue EXCEPT !.state = "verification",
                              !.half_frozen = issue.phase_finished, !.phase_finished = Null]
<1> USE NullAssumption
<1>1. /\ issue \in IssueRow /\ UpdateIssue(r, voter, counted)
      /\ issue.phase_finished # Null /\ issue.state = "discussion" /\ persist.phase_finished
  BY DEF HalfFreeze, IInv, TypeOK, TablesTyped, HandedOver, Busy
<1>2. /\ r.state = "verification" /\ r.created = issue.created
      /\ r.accepted = issue.accepted /\ r.half_frozen = issue.phase_finished
      /\ r.fully_frozen = issue.fully_frozen /\ r.closed = issue.closed
      /\ r.phase_finished = Null /\ r.snapshot = issue.snapshot
      /\ r.latest_snapshot_event = issue.latest_snapshot_event
  BY <1>1 DEF IssueRow
<1> HIDE DEF r
<1>3. /\ issue.accepted \in Nat /\ issue.closed = Null /\ issue.fully_frozen = Null
      /\ issue.phase_finished \in Nat
  BY <1>1, RowFacts DEF IssueRow, RowSound, Checks, ValidState, Settled
<1>4. issue.phase_finished >= issue.accepted + DiscussionTime
  BY <1>1 DEF Settled, PhaseIsOver, PhaseOver
<1>5. Before(issue.accepted, issue.phase_finished)
  BY <1>3, <1>4, TimeAssumption DEF Before
<1>6. ValidTimestamps(r) /\ ValidState(r)
  BY <1>1, <1>2, <1>3 DEF ValidTimestamps, ValidState
<1>7. StateChangeOrder(r)
  BY <1>2, <1>3, <1>5 DEF RowSound, Checks, StateChangeOrder, Before
<1>8. Checks(r)
  BY <1>2, <1>3, <1>6, <1>7 DEF RowSound, Checks
<1> QED BY <1>1, <1>2, <1>8, SoundUpdate

LEMMA FullFreezeIsSound ==
  ASSUME IInv, Settled, RowSound, FullFreeze
  PROVE  SoundStep
<1> DEFINE frozen == [issue EXCEPT !.fully_frozen = issue.phase_finished,
                                   !.phase_finished = Null]
           open   == [frozen EXCEPT !.state = "voting"]
           closed == [frozen EXCEPT !.state = "canceled_no_initiative_admitted",
                                    !.closed = frozen.fully_frozen]
<1> USE NullAssumption
<1>1. /\ issue \in IssueRow
      /\ issue.phase_finished # Null /\ issue.state = "verification" /\ Final
      /\ persist.snapshot_created
      /\ UpdateIssue(open, voter, counted) \/ UpdateIssue(closed, {}, Null)
  BY DEF FullFreeze, Prepared, AwaitsSnapshot, IInv, TypeOK, TablesTyped, HandedOver, Busy, Final
<1>2. \A r \in {open, closed} :
        /\ r.created = issue.created /\ r.accepted = issue.accepted
        /\ r.half_frozen = issue.half_frozen /\ r.fully_frozen = issue.phase_finished
        /\ r.phase_finished = Null /\ r.snapshot = issue.snapshot
        /\ r.latest_snapshot_event = issue.latest_snapshot_event
  <2> TAKE r \in {open, closed}
  <2>1. CASE r = open
    BY <1>1, <2>1 DEF IssueRow
  <2>2. CASE r = closed
    BY <1>1, <2>2 DEF IssueRow
  <2> HIDE DEF frozen, open, closed
  <2> QED BY <2>1, <2>2
<1>3. /\ open.state = "voting" /\ open.closed = issue.closed
      /\ closed.state = "canceled_no_initiative_admitted"
      /\ closed.closed = issue.phase_finished
  BY <1>1 DEF IssueRow
<1> HIDE DEF frozen, open, closed
<1>4. /\ issue.accepted # Null /\ issue.half_frozen \in Nat /\ issue.closed = Null
      /\ issue.phase_finished \in Nat
  BY <1>1, RowFacts DEF IssueRow, RowSound, Checks, ValidState, ValidTimestamps, Settled
<1>5. issue.snapshot = issue.phase_finished
  BY <1>1 DEF Settled, Decided
<1>6. issue.phase_finished >= issue.half_frozen + VerificationTime
  BY <1>1 DEF Settled, PhaseIsOver, PhaseOver, Final
<1>7. Before(issue.half_frozen, issue.phase_finished)
  BY <1>4, <1>6, TimeAssumption DEF Before
<1>8. ASSUME NEW r \in {open, closed} PROVE Checks(r)
  <2>1. ValidTimestamps(r) /\ ValidState(r)
    BY <1>1, <1>2, <1>3, <1>4, <1>8 DEF ValidTimestamps, ValidState
  <2>2. Before(r.fully_frozen, r.closed)
    BY <1>2, <1>3, <1>4, <1>8 DEF Before
  <2>3. StateChangeOrder(r)
    BY <1>2, <1>7, <2>2 DEF RowSound, Checks, StateChangeOrder
  <2> QED BY <1>2, <1>5, <2>1, <2>3 DEF RowSound, Checks
<1>9. CASE UpdateIssue(open, voter, counted)
  BY <1>2, <1>8, <1>9, SoundUpdate
<1>10. CASE UpdateIssue(closed, {}, Null)
  BY <1>2, <1>8, <1>10, SoundUpdate
<1> QED BY <1>1, <1>9, <1>10

LEMMA CalculateRanksIsSound ==
  ASSUME IInv, Settled, RowSound, CalculateRanks
  PROVE  SoundStep
<1> USE NullAssumption
<1>1. PICK outcome \in Finished :
        UpdateIssue([issue EXCEPT !.state = outcome, !.closed = issue.phase_finished,
                                  !.phase_finished = Null], voter, counted)
  BY DEF CalculateRanks
<1> DEFINE r == [issue EXCEPT !.state = outcome, !.closed = issue.phase_finished,
                              !.phase_finished = Null]
<1>2. /\ issue \in IssueRow /\ UpdateIssue(r, voter, counted)
      /\ issue.phase_finished # Null /\ issue.state = "voting" /\ persist.phase_finished
  BY <1>1 DEF CalculateRanks, IInv, TypeOK, TablesTyped, HandedOver, Busy
<1>3. /\ r.state = outcome /\ r.created = issue.created
      /\ r.accepted = issue.accepted /\ r.half_frozen = issue.half_frozen
      /\ r.fully_frozen = issue.fully_frozen /\ r.closed = issue.phase_finished
      /\ r.phase_finished = Null /\ r.snapshot = issue.snapshot
      /\ r.latest_snapshot_event = issue.latest_snapshot_event
  BY <1>2 DEF IssueRow
<1> HIDE DEF r
<1>4. issue.fully_frozen \in Nat /\ issue.phase_finished \in Nat
  BY <1>2 DEF IssueRow, RowSound, Checks, ValidState
<1>5. issue.phase_finished >= issue.fully_frozen + VotingTime
  BY <1>2 DEF Settled, PhaseIsOver, PhaseOver
<1>6. issue.phase_finished > issue.fully_frozen
  BY <1>4, <1>5, TimeAssumption
<1>7. ValidState(r)
  BY <1>2, <1>3, <1>4, <1>6 DEF ValidState
<1>8. StateChangeOrder(r)
  BY <1>3, <1>4, <1>6 DEF RowSound, Checks, StateChangeOrder, Before
<1>9. Checks(r)
  BY <1>3, <1>7, <1>8 DEF RowSound, Checks, ValidTimestamps
<1> QED BY <1>2, <1>3, <1>9, SoundUpdate

(* A closed issue keeps its state, so that what was once refused because of  *)
(* an administrator still was.                                             *)
LEMMA CheckIssueKeepsSound ==
  ASSUME IInv, Settled, RowSound, CheckIssue
  PROVE  RowSound'
<1>1. SoundStep
  BY StartIsSound, CreateSnapshotIsSound, QuietIsSound, CancelIssueIsSound, AdmitIssueIsSound,
     HalfFreezeIsSound, FullFreezeIsSound, CalculateRanksIsSound DEF CheckIssue
<1>2. issue.state = "canceled_by_admin" => issue.closed # Null
  BY DEF IInv, RowValid, ValidState
<1>3. issue.state = "canceled_by_admin" => issue'.state = "canceled_by_admin"
  BY <1>2, CheckIssueKeepsClosed DEF ClosedStays
<1> QED BY <1>1, <1>3 DEF SoundStep, RowSound

LEMMA NextKeepsSound == ASSUME IInv, Settled, RowSound, [Next]_vars PROVE RowSound'
<1> USE NullAssumption
<1>1. CASE CheckIssue
  BY <1>1, CheckIssueKeepsSound
<1>2. CASE UNCHANGED issue /\ call' # "tx" /\ persist' \in {persist, NoPersist}
           /\ (error' = error \/ error' # "check_violation")
  BY <1>2 DEF NoPersist, RowSound, Checks, ValidTimestamps, ValidState, StateChangeOrder
<1>3. CASE SelectOpenIssue \/ SerializationFailure \/ Crash
  BY <1>2, <1>3 DEF SelectOpenIssue, SerializationFailure, Abort, Idle, Crash, tables
<1>4. CASE BeginCall
  <2>1. UNCHANGED <<issue, persist, error>> /\ snap'.initiative = initiative
    BY <1>4 DEF BeginCall, Snapshot, tables
  <2> QED BY <2>1 DEF Settled, Admissions, RowSound, Checks, ValidTimestamps, ValidState,
             StateChangeOrder
<1>5. CASE UNCHANGED <<issue, persist, error, call>> /\ snap'.initiative = snap.initiative
  BY <1>5 DEF RowSound, Checks, ValidTimestamps, ValidState, StateChangeOrder
<1>6. snap \in SnapType
  BY DEF IInv, TypeOK, LfTyped
<1>7. ASSUME NEW rows, Dirty(rows) PROVE snap'.initiative = snap.initiative
  BY <1>6, <1>7 DEF Dirty, SnapType
<1>8. CASE Tick \/ SectionChange \/ UNCHANGED vars
  BY <1>5, <1>8 DEF Tick, SectionChange, vars, tables, lf
<1>9. ASSUME NEW s \in Session, FrontendBegin(s) \/ FrontendRollback(s) PROVE RowSound'
  BY <1>5, <1>9 DEF FrontendBegin, FrontendRollback, tables, lf
<1>10. ASSUME NEW s \in Session, FrontendCommit(s) PROVE RowSound'
  <2>1. UNCHANGED <<issue, persist, error, call>>
    BY <1>10 DEF FrontendCommit
  <2>2. snap'.initiative = snap.initiative
    BY <1>7, <1>10 DEF FrontendCommit
  <2> QED BY <1>5, <2>1, <2>2
<1>11. CASE AdminCancel
  <2> DEFINE r == [issue EXCEPT !.state = "canceled_by_admin", !.closed = clock]
  <2>1. issue' = r /\ Checks(r) /\ UNCHANGED <<persist, error, call>>
    BY <1>11 DEF AdminCancel
  <2>2. r.state = "canceled_by_admin" /\ r.created = issue.created
    BY DEF IInv, TypeOK, TablesTyped, IssueRow
  <2>3. snap'.initiative = snap.initiative
    BY <1>7, <1>11 DEF AdminCancel
  <2> HIDE DEF r
  <2> QED BY <2>1, <2>2, <2>3 DEF RowSound
<1> QED BY <1>1, <1>3, <1>4, <1>8, <1>9, <1>10, <1>11 DEF Next

(* The tables are as their columns and constraints want them, and no UPDATE *)
(* of check_issue is refused, unless an administrator has come between two  *)
(* of its calls: whatever sessions, crashes and repeated calls leave behind. *)
THEOREM RowsAreAllowed == Spec => []RowsAllowed
<1>1. Init => RowSound
  BY NullAssumption DEF Init, RowSound, Checks, ValidTimestamps, ValidState, StateChangeOrder,
     Before, NoPersist
<1>2. IInv /\ Settled /\ RowSound /\ [Next]_vars => RowSound'
  BY NextKeepsSound
<1>3. IInv /\ RowSound => RowsAllowed
  BY DEF IInv, RowSound, RowsAllowed
<1> QED BY <1>1, <1>2, <1>3, AlwaysSettled, PTL DEF Spec

-----------------------------------------------------------------------------
(* A vote starts, and stays, on settled ground, whatever was lost or        *)
(* repeated before: the last snapshot is the one of the full freeze and was *)
(* taken at that moment, every initiative is decided, one was admitted.     *)
THEOREM VotesArePrepared == Spec => []VotingIsPrepared
<1>1. Settled => VotingIsPrepared
  BY DEF Settled
<1> QED BY <1>1, AlwaysSettled, PTL

(* No phase of an accepted issue is shorter than its policy promises.       *)
THEOREM PhasesAreComplete == Spec => []NoPhaseCutShort
<1>1. Settled => NoPhaseCutShort
  BY DEF Settled
<1> QED BY <1>1, AlwaysSettled, PTL

(* The snapshot and the admissions that a vote rests on describe the        *)
(* members as they still are, in spite of the sessions that were open when  *)
(* the phase ended.                                                         *)
THEOREM VotesReflectInterest == Spec => []VoteReflectsInterest
<1>1. Settled => VoteReflectsInterest
  BY DEF Settled
<1> QED BY <1>1, AlwaysSettled, PTL

-----------------------------------------------------------------------------
(* Snapshots.  A call repeated after a crash takes the snapshot of the      *)
(* phase again.  At the ends of admission and of verification nobody could *)
(* change his interest meanwhile.  At the end of discussion members could; *)
(* there the primary key of the snapshot tables stops the call, provided   *)
(* that somebody is counted both times: a member of the area is.           *)
LEMMA SnapshotsStay ==
  ASSUME AreaMember # {}, IInv, Fresh, Settled, [Next]_vars,
         NEW e \in SnapshotEvent \ {"periodic"}, snapshots[e] # {}
  PROVE  snapshots'[e] = snapshots[e]
<1> DEFINE event == IF persist.phase_finished THEN FinalEvent[persist.state] ELSE "periodic"
<1>1. CASE UNCHANGED snapshots
  BY <1>1
<1>2. CASE CreateSnapshot /\ UNCHANGED fe /\ ~Abort("unique_violation")
  <2>1. /\ ~Duplicate(event)
        /\ snapshots'[e] = IF e = event THEN snapshots[e] \cup Population ELSE snapshots[e]
    BY <1>2, SnapshotDone
  <2>2. /\ call = "tx" /\ persist.state \in Deliberation /\ persist.phase_finished \in BOOLEAN
    BY <1>2 DEF CreateSnapshot, AwaitsSnapshot, Touches, IInv, TypeOK, LfTyped, PersistType
  <2>3. /\ event = "full_freeze" => persist.phase_finished /\ persist.state = "verification"
        /\ event = "end_of_admission" => persist.phase_finished /\ persist.state = "admission"
    BY <2>2 DEF FinalEvent
  <2> HIDE DEF event
  <2>4. event \in {"full_freeze", "end_of_admission"} => Population = AreaMember \cup interest
    BY <2>2, <2>3, PhaseEnd, SealedPopulation DEF Settled
  <2>5. CASE e = "full_freeze" /\ event = e
    <3>1. snapshots[e] = AreaMember \cup interest
      BY <2>5 DEF Settled, FullSnapshot
    <3> QED BY <2>1, <2>4, <2>5, <3>1
  <2>6. CASE e = "end_of_admission" /\ event = e
    <3>1. issue.state = "admission"
      BY <2>3, <2>6, PhaseEnd DEF Settled
    <3>2. snapshots[e] = AreaMember \cup interest
      BY <2>6, <3>1 DEF Settled, EndSnapshot
    <3> QED BY <2>1, <2>4, <2>6, <3>2
  <2>7. CASE e = "half_freeze" /\ event = e
    <3>1. AreaMember \subseteq snapshots[e]
      BY <2>7 DEF Settled, HalfSnapshot
    <3>2. snapshots[e] \cap Population # {}
      BY <3>1 DEF Population
    <3> QED BY <2>1, <2>7, <3>2 DEF Duplicate
  <2>8. CASE event # e
    BY <2>1, <2>8
  <2> QED BY <2>5, <2>6, <2>7, <2>8
<1>3. UNCHANGED snapshots \/ (CreateSnapshot /\ UNCHANGED fe /\ ~Abort("unique_violation"))
  BY DEF Next, CheckIssue, Start, CreateSnapshot, SetHarmonicWeights, CancelIssue,
     AdmitIssue, HalfFreeze, FullFreeze, CloseVoting, CalculateRanks, UpdateIssue, Abort,
     SelectOpenIssue, BeginCall, SerializationFailure, Crash, FrontendBegin,
     FrontendCommit, FrontendRollback, AdminCancel, Tick, SectionChange, tables, vars
<1> QED BY <1>1, <1>2, <1>3

(* In an area that has members, the snapshot of a past phase is never       *)
(* rewritten, whatever is lost and repeated.                               *)
THEOREM PastSnapshotsAreKept ==
  ASSUME AreaMember # {}
  PROVE  Spec => PastSnapshotsStay
<1> DEFINE Step == \A e \in SnapshotEvent \ {"periodic"} :
                      snapshots[e] # {} => snapshots'[e] = snapshots[e]
<1>1. IInv /\ Fresh /\ Settled /\ [Next]_vars => [Step]_vars
  BY SnapshotsStay
<1> QED BY <1>1, AlwaysSettled, PTL DEF Spec, PastSnapshotsStay

-----------------------------------------------------------------------------
(* The procedure that the rows implement.                                  *)
(* What the members see of a step, when it is nothing.                      *)
LEMMA NothingSeen ==
  ASSUME issue'.state = issue.state, issue'.fully_frozen = issue.fully_frozen,
         issue.fully_frozen # Null => Admitted' = Admitted,
         UNCHANGED voter, issue.state \in Finished => counted' = counted
  PROVE  UNCHANGED Procedure!procedure
BY DEF Procedure!procedure, PhaseOf

(* The columns and tables that the members see, before and after.           *)
LEMMA Seeing ==
  ASSUME IInv, IInv'
  PROVE  /\ PhaseOf = IF issue.state \in Finished THEN "finished"
                      ELSE IF issue.state \in Canceled THEN "canceled" ELSE issue.state
         /\ PhaseOf' = IF issue'.state \in Finished THEN "finished"
                       ELSE IF issue'.state \in Canceled THEN "canceled" ELSE issue'.state
         /\ issue.closed = Null => PhaseOf \in Procedure!Open /\ issue.state \notin Finished
BY RowFacts DEF PhaseOf, IInv, TypeOK, TablesTyped, IssueRow, RowValid, ValidState,
   Procedure!Open

LEMMA CancelSeen ==
  ASSUME IInv, IInv', issue.closed = Null, issue'.state \in Canceled,
         IF issue'.fully_frozen # Null THEN issue.fully_frozen # Null \/ Admitted = {}
                                       ELSE issue.fully_frozen = Null,
         UNCHANGED initiative, UNCHANGED voter
  PROVE  Procedure!Cancel
<1>1. PhaseOf \in Procedure!Open /\ PhaseOf' = "canceled" /\ issue.state \notin Finished
  BY Seeing
<1>2. issue'.state \notin Finished
  OBVIOUS
<1>3. Admitted' = Admitted
  BY DEF Admitted
<1> QED BY <1>1, <1>2, <1>3 DEF Procedure!Cancel

(* The sections of check_issue, when their UPDATE succeeds.                 *)
LEMMA FailedUpdateSeen ==
  ASSUME NEW r, NEW voters, NEW count, UpdateIssue(r, voters, count), ~Checks(r)
  PROVE  UNCHANGED Procedure!procedure
BY NothingSeen DEF UpdateIssue, Abort, tables, Admitted

LEMMA CancelIssueSeen ==
  ASSUME IInv, IInv', Settled, CancelIssue
  PROVE  Procedure!Cancel \/ UNCHANGED Procedure!procedure
<1> DEFINE r == [issue EXCEPT !.state = CanceledState,
                              !.closed = issue.phase_finished, !.phase_finished = Null]
<1> USE NullAssumption
<1>1. UpdateIssue(r, voter, counted)
  BY DEF CancelIssue
<1>2. /\ issue \in IssueRow /\ issue.phase_finished # Null /\ issue.closed = Null
  BY DEF CancelIssue, IInv, TypeOK, TablesTyped, HandedOver, Busy, RowValid
<1>3. r.state = CanceledState /\ r.fully_frozen = issue.fully_frozen
  BY <1>2 DEF IssueRow
<1> HIDE DEF r
<1>4. CASE Checks(r)
  <2>1. issue' = r /\ UNCHANGED <<initiative, voter>>
    BY <1>1, <1>4 DEF UpdateIssue
  <2>2. r.state \in Canceled
    <3>1. r.state \in Canceled \cup {Null}
      BY <1>3 DEF CanceledState
    <3>2. r.state \in IssueState
      BY <2>1 DEF IInv, TypeOK, TablesTyped, IssueRow
    <3> QED BY <3>1, <3>2
  <2> QED BY <1>2, <1>3, <2>1, <2>2, CancelSeen
<1> QED BY <1>1, <1>4, FailedUpdateSeen

LEMMA AdmitIssueSeen ==
  ASSUME IInv, IInv', Settled, AdmitIssue
  PROVE  Procedure!Advance \/ Procedure!Cancel \/ UNCHANGED Procedure!procedure
<1> DEFINE accepted == [issue EXCEPT !.state = "discussion",
                          !.accepted = Coalesce(issue.phase_finished, snap.now),
                          !.phase_finished = Null]
           canceled == [issue EXCEPT !.state = "canceled_issue_not_accepted",
                          !.closed = issue.phase_finished, !.phase_finished = Null]
<1> USE NullAssumption
<1>1. issue \in IssueRow /\ persist.state = "admission"
  BY DEF AdmitIssue, IInv, TypeOK, TablesTyped
<1>2. \/ UpdateIssue(accepted, voter, counted)
      \/ issue.phase_finished # Null /\ UpdateIssue(canceled, voter, counted)
      \/ UNCHANGED tables
  BY DEF AdmitIssue
<1>3. /\ accepted.state = "discussion" /\ accepted.closed = issue.closed
      /\ accepted.fully_frozen = issue.fully_frozen
      /\ accepted.half_frozen = issue.half_frozen
      /\ canceled.state = "canceled_issue_not_accepted"
      /\ canceled.fully_frozen = issue.fully_frozen
  BY <1>1 DEF IssueRow
<1> HIDE DEF accepted, canceled
<1>4. ASSUME NEW r, UpdateIssue(r, voter, counted), Checks(r)
      PROVE  issue' = r /\ UNCHANGED <<initiative, voter>>
  BY <1>4 DEF UpdateIssue
<1>5. CASE UpdateIssue(accepted, voter, counted) /\ Checks(accepted)
  <2>1. issue' = accepted /\ UNCHANGED <<initiative, voter>>
    BY <1>4, <1>5
  <2>2. issue.closed = Null /\ issue.fully_frozen = Null
    BY <1>3, <1>5 DEF Checks, ValidState, ValidTimestamps
  <2>3. issue.state = "admission"
    BY <1>1, <2>2 DEF Settled, SameIssue, IInv, RowValid, ValidState
  <2>4. PhaseOf = "admission" /\ PhaseOf' = "discussion"
    BY <1>3, <2>1, <2>3, Seeing
  <2>5. Procedure!Debate[1] = "admission" /\ Procedure!Debate[1 + 1] = "discussion"
    BY DEF Procedure!Debate
  <2> QED BY <1>3, <2>1, <2>2, <2>3, <2>4, <2>5 DEF Procedure!Advance
<1>6. CASE /\ issue.phase_finished # Null /\ UpdateIssue(canceled, voter, counted)
           /\ Checks(canceled)
  <2>1. issue' = canceled /\ UNCHANGED <<initiative, voter>>
    BY <1>4, <1>6
  <2>2. issue.closed = Null
    BY <1>6 DEF IInv, RowValid
  <2> QED BY <1>3, <2>1, <2>2, CancelSeen
<1>7. CASE UNCHANGED tables
  BY <1>7, NothingSeen DEF tables, Admitted
<1> QED BY <1>2, <1>5, <1>6, <1>7, FailedUpdateSeen

LEMMA HalfFreezeSeen ==
  ASSUME IInv, IInv', Settled, HalfFreeze
  PROVE  Procedure!Advance \/ UNCHANGED Procedure!procedure
<1> DEFINE r == [issue EXCEPT !.state = "verification",
                              !.half_frozen = issue.phase_finished, !.phase_finished = Null]
<1> USE NullAssumption
<1>1. UpdateIssue(r, voter, counted)
  BY DEF HalfFreeze
<1>2. issue \in IssueRow /\ issue.state = "discussion"
  BY DEF HalfFreeze, IInv, TypeOK, TablesTyped, HandedOver, Busy
<1>3. r.state = "verification" /\ r.fully_frozen = issue.fully_frozen
  BY <1>2 DEF IssueRow
<1> HIDE DEF r
<1>4. CASE Checks(r)
  <2>1. issue' = r /\ UNCHANGED <<initiative, voter>>
    BY <1>1, <1>4 DEF UpdateIssue
  <2>2. issue.fully_frozen = Null
    BY <1>2, RowFacts DEF Settled
  <2>3. PhaseOf = "discussion" /\ PhaseOf' = "verification"
    BY <1>2, <1>3, <2>1, Seeing
  <2>4. Procedure!Debate[2] = "discussion" /\ Procedure!Debate[2 + 1] = "verification"
    BY DEF Procedure!Debate
  <2> QED BY <1>2, <1>3, <2>1, <2>2, <2>3, <2>4 DEF Procedure!Advance
<1> QED BY <1>1, <1>4, FailedUpdateSeen

LEMMA FullFreezeSeen ==
  ASSUME IInv, IInv', Settled, Settled', FullFreeze
  PROVE  Procedure!OpenVote \/ Procedure!Cancel \/ UNCHANGED Procedure!procedure
<1> DEFINE frozen == [issue EXCEPT !.fully_frozen = issue.phase_finished,
                                   !.phase_finished = Null]
           open   == [frozen EXCEPT !.state = "voting"]
           closed == [frozen EXCEPT !.state = "canceled_no_initiative_admitted",
                                    !.closed = frozen.fully_frozen]
<1> USE NullAssumption
<1>1. /\ issue \in IssueRow /\ issue.state = "verification"
      /\ issue.phase_finished # Null /\ call = "tx"
  BY DEF FullFreeze, IInv, TypeOK, TablesTyped, HandedOver, Busy, Touches
<1>2. \/ UpdateIssue(open, voter, counted)
      \/ /\ \A k \in Visible : snap.initiative[k].admitted # "admitted"
         /\ UpdateIssue(closed, {}, Null)
  BY DEF FullFreeze
<1>3. /\ open.state = "voting" /\ open.fully_frozen = issue.phase_finished
      /\ closed.state = "canceled_no_initiative_admitted"
      /\ closed.fully_frozen = issue.phase_finished
  BY <1>1 DEF IssueRow
<1> HIDE DEF frozen, open, closed
<1>4. issue.fully_frozen = Null /\ issue.closed = Null
  BY <1>1, RowFacts DEF Settled
<1>5. CASE UpdateIssue(open, voter, counted) /\ Checks(open)
  <2>1. issue' = open /\ UNCHANGED <<initiative, voter>>
    BY <1>5 DEF UpdateIssue
  <2>2. Admitted' \in (SUBSET Initiative) \ {{}}
    <3>1. VotingIsPrepared' /\ issue'.state = "voting"
      BY <1>3, <2>1 DEF Settled
    <3>2. \E k \in Initiative : initiative'[k].admitted = "admitted"
      BY <3>1 DEF VotingIsPrepared
    <3> QED BY <3>2 DEF Admitted
  <2>3. PhaseOf = "verification" /\ PhaseOf' = "voting"
    BY <1>1, <1>3, <2>1, Seeing
  <2> QED BY <1>1, <1>3, <2>1, <2>2, <2>3 DEF Procedure!OpenVote
<1>6. CASE /\ \A k \in Visible : snap.initiative[k].admitted # "admitted"
           /\ UpdateIssue(closed, {}, Null) /\ Checks(closed)
  <2>1. issue' = closed /\ voter' = {} /\ UNCHANGED initiative
    BY <1>6 DEF UpdateIssue
  <2>2. Admitted = {}
    BY <1>1, <1>6 DEF Settled, Seen, Admitted, Visible
  <2>3. voter = {}
    BY <1>4 DEF Settled, NoVoters
  <2> QED BY <1>3, <1>4, <2>1, <2>2, <2>3, CancelSeen
<1> QED BY <1>2, <1>5, <1>6, FailedUpdateSeen

LEMMA CalculateRanksSeen ==
  ASSUME IInv, IInv', Settled, CalculateRanks
  PROVE  Procedure!Finish \/ UNCHANGED Procedure!procedure
<1> USE NullAssumption
<1>1. PICK outcome \in Finished :
        UpdateIssue([issue EXCEPT !.state = outcome, !.closed = issue.phase_finished,
                                  !.phase_finished = Null], voter, counted)
  BY DEF CalculateRanks
<1> DEFINE r == [issue EXCEPT !.state = outcome, !.closed = issue.phase_finished,
                              !.phase_finished = Null]
<1>2. UpdateIssue(r, voter, counted)
  BY <1>1
<1>3. issue \in IssueRow /\ issue.state = "voting"
  BY DEF CalculateRanks, IInv, TypeOK, TablesTyped, HandedOver, Busy
<1>4. r.state = outcome /\ r.fully_frozen = issue.fully_frozen
  BY <1>3 DEF IssueRow
<1> HIDE DEF r
<1>5. CASE Checks(r)
  <2>1. issue' = r /\ UNCHANGED <<initiative, voter, counted>>
    BY <1>2, <1>5 DEF UpdateIssue
  <2>2. PhaseOf = "voting" /\ PhaseOf' = "finished"
    BY <1>3, <1>4, <2>1, Seeing
  <2>3. Admitted' = Admitted /\ counted = voter
    BY <2>1 DEF Admitted, CalculateRanks, IInv, CountIsFinal
  <2> QED BY <1>3, <1>4, <2>1, <2>2, <2>3 DEF Procedure!Finish
<1> QED BY <1>2, <1>5, FailedUpdateSeen

(* Ballots go into the box and out of it, and nothing else is seen of what  *)
(* the sessions write.                                                     *)
LEMMA FrontendCommitSeen ==
  ASSUME IInv, IInv', Fresh, Settled, NEW s \in Session, FrontendCommit(s)
  PROVE  Procedure!CastBallot \/ UNCHANGED Procedure!procedure
<1>1. UNCHANGED <<issue, counted>>
  BY DEF FrontendCommit
<1>2. Admitted' = Admitted
  BY CommitIsAllowed DEF Admitted
<1>3. CASE UNCHANGED voter
  BY <1>1, <1>2, <1>3, NothingSeen
<1>4. CASE ~UNCHANGED voter
  <2>1. /\ fe[s].request \in Requests
        /\ \/ voter' = voter \cup {fe[s].request.member}
           \/ voter' = voter \ {fe[s].request.member}
        /\ fe[s].request.op \in {"vote", "unvote"}
    BY <1>4, RequestsTyped DEF FrontendCommit, WriteInitiative, WriteSupport,
       WriteInterest, WriteBallot, WriteRevocation, IInv
  <2>2. fe[s].request.member \in Member
    BY <2>1 DEF Requests
  <2>3. issue.state = "voting"
    BY <1>4, CommitIsAllowed
  <2>4. PhaseOf = "voting" /\ PhaseOf' = "voting"
    BY <1>1, <2>3, Seeing
  <2> QED BY <1>1, <1>2, <2>1, <2>2, <2>3, <2>4 DEF Procedure!CastBallot
<1> QED BY <1>3, <1>4

LEMMA AdminCancelSeen ==
  ASSUME IInv, IInv', Settled, AdminCancel
  PROVE  Procedure!Cancel
<1>1. /\ issue.closed = Null /\ UNCHANGED <<initiative, voter>>
      /\ issue' = [issue EXCEPT !.state = "canceled_by_admin", !.closed = clock]
  BY DEF AdminCancel
<1>2. issue'.state = "canceled_by_admin" /\ issue'.fully_frozen = issue.fully_frozen
  BY <1>1 DEF IInv, TypeOK, TablesTyped, IssueRow
<1> QED BY <1>1, <1>2, CancelSeen

(* Snapshots, counts and what is lost with a crash are not seen.            *)
LEMMA NotSeen ==
  ASSUME IInv, Settled, UNCHANGED fe,
         Start \/ CreateSnapshot \/ SetHarmonicWeights \/ CloseVoting
  PROVE  UNCHANGED Procedure!procedure
<1>1. issue \in IssueRow
  BY DEF IInv, TypeOK, TablesTyped
<1>2. CASE Start
  BY <1>1, <1>2, NothingSeen DEF Start, FinishPhase, IssueRow, Admitted
<1>3. CASE CreateSnapshot
  <2>1. CASE Abort("unique_violation")
    BY <2>1, NothingSeen DEF Abort, tables, Admitted
  <2>2. CASE ~Abort("unique_violation")
    <3>1. /\ issue'.state = issue.state /\ issue'.fully_frozen = issue.fully_frozen
          /\ UNCHANGED voter
      BY <1>3, <2>2, SnapshotDone
    <3>2. issue.state \notin Finished /\ issue.fully_frozen = Null
      BY <1>3, NullAssumption DEF CreateSnapshot, AwaitsSnapshot, Settled, SameIssue
    <3> QED BY <3>1, <3>2, NothingSeen
  <2> QED BY <2>1, <2>2
<1>4. CASE SetHarmonicWeights
  BY <1>4, NothingSeen DEF SetHarmonicWeights, tables, Admitted
<1>5. CASE CloseVoting
  <2>1. issue.state = "voting" /\ UNCHANGED <<issue, initiative, voter>>
    BY <1>5 DEF CloseVoting, IInv, HandedOver, Busy
  <2> QED BY <2>1, NothingSeen DEF Admitted
<1> QED BY <1>2, <1>3, <1>4, <1>5

LEMMA StepSeen ==
  ASSUME IInv, IInv', Fresh, Settled, Settled', [Next]_vars
  PROVE  [Procedure!Next]_(Procedure!procedure)
<1>1. CASE CheckIssue
  BY <1>1, NotSeen, CancelIssueSeen, AdmitIssueSeen, HalfFreezeSeen, FullFreezeSeen,
     CalculateRanksSeen DEF CheckIssue, Procedure!Next
<1>2. CASE \/ SelectOpenIssue \/ BeginCall \/ SerializationFailure \/ Crash
           \/ Tick \/ SectionChange \/ UNCHANGED vars
           \/ \E s \in Session : FrontendBegin(s) \/ FrontendRollback(s)
  <2>1. UNCHANGED tables
    BY <1>2 DEF SelectOpenIssue, BeginCall, SerializationFailure, Abort, Crash, Tick,
       SectionChange, FrontendBegin, FrontendRollback, vars, tables
  <2> QED BY <2>1, NothingSeen DEF tables, Admitted
<1>3. CASE \E s \in Session : FrontendCommit(s)
  BY <1>3, FrontendCommitSeen DEF Procedure!Next
<1>4. CASE AdminCancel
  BY <1>4, AdminCancelSeen DEF Procedure!Next
<1> QED BY <1>1, <1>2, <1>3, <1>4 DEF Next

LEMMA InitSeen == ASSUME Init PROVE Procedure!Init
<1>1. /\ issue.state \in {"admission", "discussion"} /\ issue.fully_frozen = Null
      /\ voter = {}
  BY DEF Init
<1>2. PhaseOf \in {"admission", "discussion"}
  BY <1>1 DEF PhaseOf
<1> QED BY <1>1, <1>2 DEF Procedure!Init

(* However its transactions interleave, fail and are repeated, the system   *)
(* conducts the procedure that IssueProcedure promises: the ballot paper is *)
(* fixed when the vote opens and never changes, and the result is computed  *)
(* from exactly the ballots in the box when the vote ended.                 *)
THEOREM ProcedureIsConducted == Spec => ImplementsProcedure
<1>1. Init => Procedure!Init
  BY InitSeen
<1>2. IInv /\ Fresh /\ Settled /\ IInv' /\ Settled' /\ [Next]_vars
         => [Procedure!Next]_(Procedure!procedure)
  BY StepSeen
<1> QED BY <1>1, <1>2, AlwaysSettled, PTL DEF Spec, ImplementsProcedure, Procedure!Spec

=============================================================================
