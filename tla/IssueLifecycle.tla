--------------------------- MODULE IssueLifecycle ---------------------------
(***************************************************************************)
(* The life of one issue of the LiquidFeedback core, from its creation to  *)
(* its closing.                                                            *)
(*                                                                         *)
(* Three kinds of actors work on the rows of the issue:                    *)
(*                                                                         *)
(*  - lf_update, one process, which calls the database function            *)
(*    check_issue again and again, handing the value it returned (the      *)
(*    "persist" record) to the next call, until it returns NULL.  Every    *)
(*    call is a REPEATABLE READ transaction: it reads the rows as they     *)
(*    were when it began, waits for row locks, and fails when it writes a  *)
(*    row that was changed since it began;                                 *)
(*  - frontend sessions, whose transactions take a share lock on the issue *)
(*    row, test it, and write;                                             *)
(*  - an administrator, who may cancel the issue.                          *)
(*                                                                         *)
(* The record "persist" is held by lf_update alone: a crash or a failed    *)
(* call loses it, while what earlier calls committed stays.                *)
(***************************************************************************)
EXTENDS Naturals, FiniteSets

CONSTANTS
    Member,            \* members with voting right
    AreaMember,        \* those of them with a membership in the area
    Initiative,        \* initiatives the issue may come to hold
    Session,           \* concurrent frontend transactions
    Null,              \* SQL NULL
    MinAdmissionTime, MaxAdmissionTime,
    DiscussionTime, VerificationTime, VotingTime,
    IssueQuorumNum, IssueQuorumDen,
    InitiativeQuorumNum, InitiativeQuorumDen,
    PollingFlags,      \* values of "polling" that policies and new initiatives have
    FrontendOps,       \* the frontend transactions that are exercised
    SectionConflicts,  \* TRUE: other issues take and free this issue's sections
    MaxClock,          \* bound: the clock stops here
    MaxCrashes         \* bound: how often lf_update is killed

Deliberation == {"admission", "discussion", "verification"}
Finished     == {"finished_with_winner", "finished_without_winner"}
Canceled     == {"canceled_by_admin",
                 "canceled_revoked_before_accepted",
                 "canceled_issue_not_accepted",
                 "canceled_conflicting_section_admitted",
                 "canceled_after_revocation_during_discussion",
                 "canceled_after_revocation_during_verification",
                 "canceled_no_initiative_admitted"}
IssueState   == Deliberation \cup {"voting"} \cup Canceled \cup Finished

SnapshotEvent == {"periodic", "end_of_admission", "half_freeze", "full_freeze"}
AllOps        == {"create", "revoke", "support", "unsupport",
                  "interest", "uninterest", "vote", "unvote"}

ASSUME NullAssumption == Null \notin Nat /\ Null \notin IssueState
                           /\ Null \notin SnapshotEvent /\ Null \notin Initiative
                           /\ Null \notin Member
ASSUME RowAssumption == "issue" \notin Initiative
ASSUME TimeAssumption ==
    /\ MinAdmissionTime \in Nat /\ MaxAdmissionTime \in Nat
    /\ DiscussionTime \in Nat /\ VerificationTime \in Nat
    /\ VotingTime \in Nat \ {0}
    /\ MaxClock \in Nat /\ MaxCrashes \in Nat
ASSUME OptionAssumption ==
    /\ PollingFlags \subseteq BOOLEAN /\ SectionConflicts \in BOOLEAN
    /\ FrontendOps \subseteq AllOps /\ AreaMember \subseteq Member

VARIABLES
    clock,        \* now()
    issue,        \* the row of table "issue"
    initiative,   \* the rows of table "initiative"
    interest,     \* members with a row in table "interest"
    supporter,    \* initiative -> members with a row in table "supporter"
    voter,        \* members with a row in table "direct_voter"
    counted,      \* the voters that table "battle" accounts for, or Null
    snapshots,    \* event -> members in the snapshot tables under that event
    conflict,     \* a section of this issue is taken by an admitted open issue
    fe,           \* session -> its open transaction
    call,         \* lf_update: "idle", "ready" to call check_issue, or in "tx"
    persist,      \* lf_update: the value check_issue returned last
    snap,         \* what the running check_issue transaction sees
    error,        \* how the last run of check_issue ended
    crashes

tables == <<issue, initiative, interest, supporter, voter, counted, snapshots>>
lf     == <<call, persist, snap, error, crashes>>
vars   == <<clock, issue, initiative, interest, supporter, voter, counted,
            snapshots, conflict, fe, call, persist, snap, error, crashes>>

Time == Nat \cup {Null}

Coalesce(a, b) == IF a # Null THEN a ELSE b

-----------------------------------------------------------------------------
(* The tables.                                                             *)

IssueRow ==
    [state : IssueState, phase_finished : Time, created : Nat, accepted : Time,
     half_frozen : Time, fully_frozen : Time, closed : Time, snapshot : Time,
     latest_snapshot_event : SnapshotEvent \cup {Null}]

InitiativeRow ==
    [exists : BOOLEAN, polling : BOOLEAN, revoked : Time,
     admitted : {"undecided", "admitted", "rejected"}, quorum : BOOLEAN]

NoInitiative == [exists |-> FALSE, polling |-> FALSE, revoked |-> Null,
                 admitted |-> "undecided", quorum |-> FALSE]
NewInitiative(polling) == [NoInitiative EXCEPT !.exists = TRUE, !.polling = polling]

Unrevoked(ini) == {k \in Initiative : ini[k].exists /\ ini[k].revoked = Null}

Before(a, b) == a # Null /\ b # Null => a <= b

(* The CHECK constraints of table "issue": an UPDATE that breaks one fails. *)
ValidTimestamps(r) ==
    \/ r.accepted = Null /\ r.half_frozen = Null /\ r.fully_frozen = Null
    \/ r.accepted # Null /\ r.half_frozen = Null /\ r.fully_frozen = Null
    \/ r.accepted # Null /\ r.half_frozen # Null

ValidState(r) ==
    \/ r.state = "admission" /\ r.closed = Null /\ r.accepted = Null
    \/ r.state = "discussion" /\ r.closed = Null
         /\ r.accepted # Null /\ r.half_frozen = Null
    \/ r.state = "verification" /\ r.closed = Null
         /\ r.half_frozen # Null /\ r.fully_frozen = Null
    \/ r.state = "voting" /\ r.closed = Null /\ r.fully_frozen # Null
    \/ r.state = "canceled_by_admin" /\ r.closed # Null
    \/ r.state \in {"canceled_revoked_before_accepted", "canceled_issue_not_accepted",
                    "canceled_conflicting_section_admitted"}
         /\ r.closed # Null /\ r.accepted = Null
    \/ r.state = "canceled_after_revocation_during_discussion"
         /\ r.closed # Null /\ r.half_frozen = Null
    \/ r.state = "canceled_after_revocation_during_verification"
         /\ r.closed # Null /\ r.fully_frozen = Null
    \/ r.state = "canceled_no_initiative_admitted"
         /\ r.closed # Null /\ r.fully_frozen # Null /\ r.closed = r.fully_frozen
    \/ r.state \in Finished
         /\ r.closed # Null /\ r.fully_frozen # Null /\ r.closed # r.fully_frozen

StateChangeOrder(r) ==
    /\ Before(r.created, r.accepted)
    /\ Before(r.accepted, r.half_frozen)
    /\ Before(r.half_frozen, r.fully_frozen)
    /\ Before(r.fully_frozen, r.closed)

Checks(r) ==
    /\ ValidTimestamps(r)
    /\ ValidState(r)
    /\ r.phase_finished = Null \/ r.closed = Null
    /\ StateChangeOrder(r)
    /\ r.snapshot = Null \/ r.fully_frozen = Null \/ r.snapshot = r.fully_frozen
    /\ r.fully_frozen # Null => r.snapshot # Null
    /\ (r.snapshot # Null) <=> (r.latest_snapshot_event # Null)

-----------------------------------------------------------------------------
(* What lf_update holds: the value check_issue returned, and, while a call  *)
(* runs, what its transaction sees.                                        *)

NoPersist ==
    [state |-> Null, phase_finished |-> FALSE, issue_revoked |-> FALSE,
     conflicting_section |-> FALSE, snapshot_created |-> FALSE,
     harmonic_weights_set |-> FALSE, closed_voting |-> FALSE]

(* dirty names the rows changed by others since the transaction began.     *)
NoSnap ==
    [now |-> 0, initiative |-> [k \in Initiative |-> NoInitiative],
     interest |-> {}, supporter |-> [k \in Initiative |-> {}],
     voter |-> {}, conflict |-> FALSE, dirty |-> {}]

Snapshot ==
    [now |-> clock, initiative |-> initiative, interest |-> interest,
     supporter |-> supporter, voter |-> voter, conflict |-> conflict,
     dirty |-> {}]

Visible == {k \in Initiative : snap.initiative[k].exists}

NoTx == [request |-> Null, now |-> 0]

ShareLocked == \E s \in Session : fe[s] # NoTx

Idle == /\ call' = "idle" /\ persist' = NoPersist /\ snap' = NoSnap
        /\ UNCHANGED crashes

(* check_issue returned p: lf_update calls it again with p.                *)
Return(p) == /\ call' = "ready" /\ persist' = p /\ snap' = NoSnap
             /\ UNCHANGED <<error, crashes>>
ReturnNull == Idle /\ UNCHANGED error
(* The transaction failed: it is rolled back and persist is forgotten.     *)
Abort(why) == Idle /\ error' = why /\ UNCHANGED tables

(* A call that writes (or locks FOR UPDATE) the given rows waits for the   *)
(* share locks on the issue, and fails when one of them has changed since. *)
Conflicting(rows) == snap.dirty \cap rows # {}
Touches(rows) ==
    /\ call = "tx"
    /\ "issue" \in rows => ~ShareLocked
    /\ ~Conflicting(rows)

(* UPDATE "issue" (leaving the given voters and count behind): the CHECK    *)
(* constraints decide whether it succeeds.                                 *)
UpdateIssue(r, voters, count) ==
    \/ /\ Checks(r)
       /\ issue' = r /\ voter' = voters /\ counted' = count
       /\ UNCHANGED <<initiative, interest, supporter, snapshots>>
       /\ ReturnNull
    \/ /\ ~Checks(r)
       /\ Abort("check_violation")

-----------------------------------------------------------------------------
(* check_issue, one action per section of the function.                    *)

(* Variant: the verification time is counted from the acceptance.           *)
PhaseOverSooner(now) ==
    \/ issue.state = "admission" /\ now >= issue.created + MaxAdmissionTime
    \/ issue.state = "discussion" /\ now >= issue.accepted + DiscussionTime
    \/ issue.state = "verification" /\ now >= issue.accepted + VerificationTime
    \/ issue.state = "voting" /\ now >= issue.fully_frozen + VotingTime

PhaseOver(now) ==
    \/ issue.state = "admission" /\ now >= issue.created + MaxAdmissionTime
    \/ issue.state = "discussion" /\ now >= issue.accepted + DiscussionTime
    \/ issue.state = "verification" /\ now >= issue.half_frozen + VerificationTime
    \/ issue.state = "voting" /\ now >= issue.fully_frozen + VotingTime

(* All initiatives are revoked, and it is too early for the issue to have  *)
(* been accepted, or too late for a new one, or none was revoked lately.   *)
IssueRevoked(over) ==
    /\ Unrevoked(snap.initiative) = {}
    /\ \/ issue.state = "admission"
       \/ issue.state = "verification" /\ over
       \/ \A k \in Visible :
             snap.now >= snap.initiative[k].revoked + VerificationTime

(* Variant: the end of the voting phase is not recorded.                    *)
FinishDebatePhase ==
    IF issue.state = "voting" THEN issue
    ELSE [issue EXCEPT !.phase_finished = snap.now]

FinishPhase == [issue EXCEPT !.phase_finished = snap.now]

Start ==
    /\ persist.state = Null
    /\ Touches({"issue"})
    /\ UNCHANGED <<initiative, interest, supporter, voter, counted, snapshots>>
    /\ \/ /\ issue.closed # Null
          /\ ReturnNull /\ UNCHANGED issue
       \/ /\ issue.closed = Null
          /\ LET over == PhaseOver(snap.now)
                 revoked == IssueRevoked(over)
                 taken == issue.state = "admission" /\ snap.conflict
             IN  /\ issue' = IF over \/ revoked \/ taken THEN FinishPhase ELSE issue
                 /\ IF over \/ revoked \/ taken \/ issue.state \in Deliberation
                    THEN Return([NoPersist EXCEPT !.state = issue.state,
                                   !.phase_finished = over,
                                   !.issue_revoked = revoked,
                                   !.conflicting_section = taken])
                    ELSE ReturnNull

AwaitsSnapshot == persist.state \in Deliberation /\ ~persist.snapshot_created
(* Variant: the weights are set again and again.                            *)
AlwaysAwaitsWeights == persist.state \in Deliberation /\ persist.snapshot_created

AwaitsWeights  == /\ persist.state \in Deliberation
                  /\ persist.snapshot_created /\ ~persist.harmonic_weights_set
Prepared       == /\ persist.state # Null /\ ~AwaitsSnapshot /\ ~AwaitsWeights
                  /\ ~persist.issue_revoked /\ ~persist.conflicting_section

Quorum(count, population, num, den) == count > 0 /\ count * den >= population * num

FinalEvent == [admission |-> "end_of_admission", discussion |-> "half_freeze",
               verification |-> "full_freeze"]

Population == AreaMember \cup snap.interest
Supporters(k) == snap.supporter[k] \cap snap.interest

(* Variant: the snapshot tables have no primary key.                        *)
NoDuplicate(event) == FALSE

(* set_snapshot_event would insert rows a second time.                      *)
Duplicate(event) == event # "periodic" /\ snapshots[event] \cap Population # {}

(* The row of initiative k after create_snapshot has counted its supporters *)
(* and, at full freeze, after it was admitted or rejected.                 *)
Counted(k, satisfying) ==
    LET row == [initiative[k] EXCEPT !.quorum =
                  Quorum(Cardinality(Supporters(k)), Cardinality(Population),
                         IssueQuorumNum, IssueQuorumDen)]
    IN  IF persist.phase_finished /\ persist.state = "verification" /\ row.revoked = Null
        THEN [row EXCEPT !.admitted = IF row.polling \/ k \in satisfying
                                      THEN "admitted" ELSE "rejected"]
        ELSE row

(* Initiatives whose supporters reach the initiative quorum when all of them *)
(* are satisfied.  Whether they are depends on their opinions on suggestions, *)
(* which are not modelled: any of these initiatives may pass.               *)
Admissible ==
    {k \in Visible : Quorum(Cardinality(Supporters(k)), Cardinality(Population),
                            InitiativeQuorumNum, InitiativeQuorumDen)}

CreateSnapshot ==
    /\ AwaitsSnapshot
    /\ Touches({"issue"} \cup Visible)
    /\ LET event == IF persist.phase_finished THEN FinalEvent[persist.state] ELSE "periodic"
       IN  \/ /\ Duplicate(event)
              /\ Abort("unique_violation")
           \/ /\ ~Duplicate(event)
              /\ issue' = [issue EXCEPT !.snapshot = Coalesce(issue.phase_finished, snap.now),
                                        !.latest_snapshot_event = event]
              /\ snapshots' = [snapshots EXCEPT
                                 !["periodic"] = IF event = "periodic" THEN Population ELSE {},
                                 ![event] = IF event = "periodic" THEN Population
                                            ELSE @ \cup Population]
              /\ \E satisfying \in SUBSET Admissible :
                    initiative' = [k \in Initiative |->
                         IF k \in Visible THEN Counted(k, satisfying) ELSE initiative[k]]
              /\ Return([persist EXCEPT !.snapshot_created = TRUE])
              /\ UNCHANGED <<interest, supporter, voter, counted>>

(* Variant: every call is followed by another one.                          *)
AlwaysMoreToDo == TRUE

MoreToDo ==
    persist.phase_finished \/ persist.issue_revoked \/ persist.state = "admission"

(* The weights themselves are not modelled: what counts is that every row   *)
(* of the issue's initiatives is written.                                  *)
SetHarmonicWeights ==
    /\ AwaitsWeights
    /\ Touches(Visible)
    /\ UNCHANGED tables
    /\ IF MoreToDo
       THEN Return([persist EXCEPT !.harmonic_weights_set = TRUE])
       ELSE ReturnNull

(* Variant: a revocation in verification counts as one during discussion.   *)
CanceledStateEarly ==
    IF persist.conflicting_section THEN "canceled_conflicting_section_admitted"
    ELSE IF persist.state = "admission" THEN "canceled_revoked_before_accepted"
    ELSE "canceled_after_revocation_during_discussion"

CanceledState ==
    IF persist.conflicting_section THEN "canceled_conflicting_section_admitted"
    ELSE CASE persist.state = "admission"    -> "canceled_revoked_before_accepted"
           [] persist.state = "discussion"   -> "canceled_after_revocation_during_discussion"
           [] persist.state = "verification" -> "canceled_after_revocation_during_verification"
           [] OTHER -> Null

CancelIssue ==
    /\ persist.state # Null /\ ~AwaitsSnapshot /\ ~AwaitsWeights
    /\ persist.issue_revoked \/ persist.conflicting_section
    /\ Touches({"issue"})
    /\ UpdateIssue([issue EXCEPT !.state = CanceledState,
                                 !.closed = issue.phase_finished,
                                 !.phase_finished = Null], voter, counted)

(* A quorum counts even when the initiative has been revoked since.        *)
AdmitIssue ==
    /\ Prepared /\ persist.state = "admission"
    /\ Touches({"issue"})
    /\ LET accept == /\ snap.now >= issue.created + MinAdmissionTime
                     /\ \E k \in Visible : snap.initiative[k].quorum
       IN  \/ /\ accept
              /\ UpdateIssue([issue EXCEPT !.state = "discussion",
                                !.accepted = Coalesce(issue.phase_finished, snap.now),
                                !.phase_finished = Null], voter, counted)
           \/ /\ ~accept /\ issue.phase_finished # Null
              /\ UpdateIssue([issue EXCEPT !.state = "canceled_issue_not_accepted",
                                !.closed = issue.phase_finished,
                                !.phase_finished = Null], voter, counted)
           \/ /\ ~accept /\ issue.phase_finished = Null
              /\ ReturnNull /\ UNCHANGED tables

HalfFreeze ==
    /\ Prepared /\ persist.state = "discussion" /\ persist.phase_finished
    /\ Touches({"issue"})
    /\ UpdateIssue([issue EXCEPT !.state = "verification",
                      !.half_frozen = issue.phase_finished,
                      !.phase_finished = Null], voter, counted)

(* Open the voting, or close the issue when no initiative was admitted.     *)
FullFreeze ==
    /\ Prepared /\ persist.state = "verification" /\ persist.phase_finished
    /\ Touches({"issue"})
    /\ LET frozen == [issue EXCEPT !.fully_frozen = issue.phase_finished,
                                   !.phase_finished = Null]
       IN  \/ /\ \E k \in Visible : snap.initiative[k].admitted = "admitted"
              /\ UpdateIssue([frozen EXCEPT !.state = "voting"], voter, counted)
           \/ /\ \A k \in Visible : snap.initiative[k].admitted # "admitted"
              /\ UpdateIssue([frozen EXCEPT !.state = "canceled_no_initiative_admitted",
                                            !.closed = frozen.fully_frozen], {}, Null)

(* Variant: check_issue forgets that it has closed the voting.              *)
CloseVotingForgets ==
    /\ Prepared /\ persist.state = "voting" /\ persist.phase_finished
    /\ ~persist.closed_voting
    /\ Touches({"issue"} \cup Visible)
    /\ counted' = snap.voter
    /\ Return(persist)
    /\ UNCHANGED <<issue, initiative, interest, supporter, voter, snapshots>>

CloseVoting ==
    /\ Prepared /\ persist.state = "voting" /\ persist.phase_finished
    /\ ~persist.closed_voting
    /\ Touches({"issue"} \cup Visible)
    /\ counted' = snap.voter
    /\ Return([persist EXCEPT !.closed_voting = TRUE])
    /\ UNCHANGED <<issue, initiative, interest, supporter, voter, snapshots>>

(* Whether an initiative wins is decided by the ranking, not modelled here. *)
CalculateRanks ==
    /\ Prepared /\ persist.state = "voting" /\ persist.phase_finished
    /\ persist.closed_voting
    /\ Touches({"issue"} \cup Visible)
    /\ \E outcome \in Finished :
          UpdateIssue([issue EXCEPT !.state = outcome,
                         !.closed = issue.phase_finished,
                         !.phase_finished = Null], voter, counted)

(* The sections above leave no case of persist, except this one.            *)
ShouldNotHappen ==
    /\ call = "tx" /\ Prepared
    /\ \/ persist.state \notin {"admission", "discussion", "verification", "voting"}
       \/ persist.state # "admission" /\ ~persist.phase_finished

CheckIssue == /\ \/ Start \/ CreateSnapshot \/ SetHarmonicWeights \/ CancelIssue
                 \/ AdmitIssue \/ HalfFreeze \/ FullFreeze
                 \/ CloseVoting \/ CalculateRanks
              /\ UNCHANGED <<clock, conflict, fe>>

-----------------------------------------------------------------------------
(* The loop of lf_update around check_issue.                               *)

SelectOpenIssue ==
    /\ call = "idle" /\ issue.closed = Null
    /\ call' = "ready" /\ persist' = NoPersist /\ error' = "none"
    /\ UNCHANGED <<clock, tables, conflict, fe, snap, crashes>>

BeginCall ==
    /\ call = "ready"
    /\ call' = "tx" /\ snap' = Snapshot
    /\ UNCHANGED <<clock, tables, conflict, fe, persist, error, crashes>>

(* The rows the section that is due would write.                            *)
Rows ==
    IF AwaitsWeights THEN Visible
    ELSE IF AwaitsSnapshot \/ (Prepared /\ persist.state = "voting")
         THEN {"issue"} \cup Visible
         ELSE {"issue"}

SerializationFailure ==
    /\ call = "tx"
    /\ "issue" \in Rows => ~ShareLocked
    /\ Conflicting(Rows)
    /\ Abort("serialization_failure")
    /\ UNCHANGED <<clock, conflict, fe>>

(* lf_update is killed, or loses its connection.                            *)
Crash ==
    /\ call # "idle" /\ crashes < MaxCrashes
    /\ call' = "idle" /\ persist' = NoPersist /\ snap' = NoSnap
    /\ error' = "crash" /\ crashes' = crashes + 1
    /\ UNCHANGED <<clock, tables, conflict, fe>>

-----------------------------------------------------------------------------
(* Frontend transactions.  Each takes a share lock on the issue row, tests  *)
(* it, and writes when it commits.                                         *)

Dirty(rows) == snap' = IF call = "tx" THEN [snap EXCEPT !.dirty = @ \cup rows] ELSE snap

Requests ==
    [op : FrontendOps \cap {"create"}, initiative : Initiative, member : Member,
     polling : PollingFlags]
    \cup [op : FrontendOps \cap {"support", "unsupport"},
          initiative : Initiative, member : Member, polling : {Null}]
    \cup [op : FrontendOps \cap {"revoke"},
          initiative : Initiative, member : {Null}, polling : {Null}]
    \cup [op : FrontendOps \cap {"interest", "uninterest", "vote", "unvote"},
          initiative : {Null}, member : Member, polling : {Null}]

(* Variant: the tests of phase_finished are missing.                        *)
DebateOpenLate == issue.closed = Null /\ issue.fully_frozen = Null

(* "This issue is already closed", "Voting for this issue has already      *)
(* begun", "Current phase is already closed".                              *)
DebateOpen ==
    /\ issue.closed = Null /\ issue.fully_frozen = Null
    /\ issue.phase_finished # Null => issue.accepted # Null /\ issue.half_frozen = Null

(* Variant: the test of phase_finished is missing.                          *)
CreationOpenLate == issue.closed = Null /\ issue.fully_frozen = Null

CreationOpen ==
    issue.closed = Null /\ issue.fully_frozen = Null /\ issue.phase_finished = Null

(* Variant: the test of half_frozen is missing.                             *)
RevocationOpenLate ==
    /\ issue.closed = Null
    /\ issue.phase_finished # Null => issue.accepted # Null

RevocationOpen ==
    /\ issue.closed = Null /\ issue.half_frozen = Null
    /\ issue.phase_finished # Null => issue.accepted # Null

VotingOpen ==
    issue.state = "voting" /\ issue.phase_finished = Null /\ issue.closed = Null

Permitted(r) ==
    \/ /\ r.op = "create" /\ ~initiative[r.initiative].exists
       /\ \A s \in Session : fe[s] # NoTx /\ fe[s].request.op = "create"
                               => fe[s].request.initiative # r.initiative
       /\ CreationOpen
    \/ r.op = "revoke" /\ r.initiative \in Unrevoked(initiative) /\ RevocationOpen
    \/ r.op = "support" /\ r.initiative \in Unrevoked(initiative) /\ DebateOpen
    \/ r.op = "unsupport" /\ r.member \in supporter[r.initiative] /\ DebateOpen
    \/ r.op = "interest" /\ r.member \notin interest /\ DebateOpen
    \/ r.op = "uninterest" /\ r.member \in interest /\ DebateOpen
    \/ r.op = "vote" /\ VotingOpen
    \/ r.op = "unvote" /\ r.member \in voter /\ VotingOpen

(* now() is the time the transaction began, which only a revocation writes. *)
Now(r) == IF r.op = "revoke" THEN clock ELSE 0

FrontendBegin(s) ==
    /\ fe[s] = NoTx
    /\ \E r \in Requests :
          /\ Permitted(r)
          /\ fe' = [fe EXCEPT ![s] = [request |-> r, now |-> Now(r)]]
    /\ UNCHANGED <<clock, tables, conflict, lf>>

(* What a transaction writes.  The trigger "autocreate_interest" adds the   *)
(* interest that a support implies, and a foreign key removes all support  *)
(* together with the interest.                                             *)
Support(k, m) == /\ interest' = interest \cup {m}
                 /\ supporter' = [supporter EXCEPT ![k] = @ \cup {m}]

WriteInitiative(r) ==
    /\ r.op = "create"
    /\ initiative' = [initiative EXCEPT ![r.initiative] = NewInitiative(r.polling)]
    /\ IF r.polling THEN UNCHANGED <<interest, supporter>>
                    ELSE Support(r.initiative, r.member)
    /\ UNCHANGED voter

WriteSupport(r) ==
    /\ \/ r.op = "support" /\ Support(r.initiative, r.member)
       \/ /\ r.op = "unsupport"
          /\ supporter' = [supporter EXCEPT ![r.initiative] = @ \ {r.member}]
          /\ UNCHANGED interest
    /\ UNCHANGED <<initiative, voter>>

WriteInterest(r) ==
    /\ \/ /\ r.op = "interest" /\ interest' = interest \cup {r.member}
          /\ UNCHANGED supporter
       \/ /\ r.op = "uninterest" /\ interest' = interest \ {r.member}
          /\ supporter' = [k \in Initiative |-> supporter[k] \ {r.member}]
    /\ UNCHANGED <<initiative, voter>>

WriteRevocation(r, now) ==
    /\ r.op = "revoke"
    /\ initiative' = [initiative EXCEPT ![r.initiative].revoked = now]
    /\ UNCHANGED <<interest, supporter, voter>>

(* The trigger "forbid_changes_on_closed_issue" tests every ballot again.   *)
ChangesForbidden ==
    issue.closed # Null \/ (issue.state = "voting" /\ issue.phase_finished # Null)

WriteBallot(r) ==
    /\ ~ChangesForbidden
    /\ \/ r.op = "vote" /\ voter' = voter \cup {r.member}
       \/ r.op = "unvote" /\ voter' = voter \ {r.member}
    /\ UNCHANGED <<initiative, interest, supporter>>

End(s) == fe' = [fe EXCEPT ![s] = NoTx]

FrontendCommit(s) ==
    /\ fe[s] # NoTx
    /\ LET r == fe[s].request
       IN  \/ /\ WriteInitiative(r) \/ WriteSupport(r) \/ WriteInterest(r) \/ WriteBallot(r)
              /\ UNCHANGED snap
           \/ WriteRevocation(r, fe[s].now) /\ Dirty({r.initiative})
    /\ End(s)
    /\ UNCHANGED <<clock, issue, counted, snapshots, conflict,
                   call, persist, error, crashes>>

FrontendRollback(s) ==
    /\ fe[s] # NoTx
    /\ End(s)
    /\ UNCHANGED <<clock, tables, conflict, lf>>

(* Variant: the test whether the issue is closed is missing.                *)
AdminCancelAgain ==
    /\ ~ShareLocked
    /\ LET r == [issue EXCEPT !.state = "canceled_by_admin", !.closed = clock]
       IN  Checks(r) /\ issue' = r
    /\ Dirty({"issue"})
    /\ UNCHANGED <<clock, initiative, interest, supporter, voter, counted, snapshots,
                   conflict, fe, call, persist, error, crashes>>

(* An administrator cancels the issue, unless a CHECK constraint objects.   *)
AdminCancel ==
    /\ ~ShareLocked /\ issue.closed = Null
    /\ LET r == [issue EXCEPT !.state = "canceled_by_admin", !.closed = clock]
       IN  Checks(r) /\ issue' = r
    /\ Dirty({"issue"})
    /\ UNCHANGED <<clock, initiative, interest, supporter, voter, counted, snapshots,
                   conflict, fe, call, persist, error, crashes>>

-----------------------------------------------------------------------------
(* The surroundings: time, and the other issues of the area.                *)

Tick == /\ clock < MaxClock
        /\ clock' = clock + 1
        /\ UNCHANGED <<tables, conflict, fe, lf>>

SectionChange ==
    /\ SectionConflicts
    /\ conflict' = ~conflict
    /\ UNCHANGED <<clock, tables, fe, lf>>

-----------------------------------------------------------------------------
(* A member creates the issue with its first initiative.                    *)
Init ==
    /\ clock = 0
    /\ \E polling \in PollingFlags, k \in Initiative, m \in Member :
          /\ issue = [state |-> IF polling THEN "discussion" ELSE "admission",
                      phase_finished |-> Null, created |-> 0,
                      accepted |-> IF polling THEN 0 ELSE Null,
                      half_frozen |-> Null, fully_frozen |-> Null, closed |-> Null,
                      snapshot |-> Null, latest_snapshot_event |-> Null]
          /\ initiative = [j \in Initiative |->
                IF j = k THEN NewInitiative(polling) ELSE NoInitiative]
          /\ interest = IF polling THEN {} ELSE {m}
          /\ supporter = [j \in Initiative |-> IF j = k /\ ~polling THEN {m} ELSE {}]
    /\ voter = {} /\ counted = Null
    /\ snapshots = [e \in SnapshotEvent |-> {}]
    /\ conflict = FALSE
    /\ fe = [s \in Session |-> NoTx]
    /\ call = "idle" /\ persist = NoPersist /\ snap = NoSnap
    /\ error = "none" /\ crashes = 0

Next ==
    \/ CheckIssue \/ SelectOpenIssue \/ BeginCall \/ SerializationFailure \/ Crash
    \/ \E s \in Session : FrontendBegin(s) \/ FrontendCommit(s) \/ FrontendRollback(s)
    \/ AdminCancel \/ Tick \/ SectionChange

Spec == Init /\ [][Next]_vars

(* lf_update is run again and again (README of lfcore, core-services), time *)
(* passes, frontend transactions end, and a row lock that is free again and *)
(* again is granted at last, because PostgreSQL queues those who wait.      *)
Fairness ==
    /\ WF_vars(Tick)
    /\ WF_vars(SelectOpenIssue) /\ WF_vars(BeginCall)
    /\ SF_vars(CheckIssue) /\ SF_vars(SerializationFailure)
    /\ \A s \in Session : WF_vars(FrontendCommit(s) \/ FrontendRollback(s))

FairSpec == Spec /\ Fairness

-----------------------------------------------------------------------------
(* Properties.                                                             *)

SupportType == [Initiative -> SUBSET Member]

PersistType ==
    [state : {"admission", "discussion", "verification", "voting", Null},
     phase_finished : BOOLEAN, issue_revoked : BOOLEAN,
     conflicting_section : BOOLEAN, snapshot_created : BOOLEAN,
     harmonic_weights_set : BOOLEAN, closed_voting : BOOLEAN]

SnapType ==
    [now : Nat, initiative : [Initiative -> InitiativeRow],
     interest : SUBSET Member, supporter : SupportType,
     voter : SUBSET Member, conflict : BOOLEAN,
     dirty : SUBSET (Initiative \cup {"issue"})]

TablesTyped ==
    /\ issue \in IssueRow
    /\ initiative \in [Initiative -> InitiativeRow]
    /\ interest \in SUBSET Member /\ supporter \in SupportType
    /\ voter \in SUBSET Member /\ counted \in (SUBSET Member) \cup {Null}
    /\ snapshots \in [SnapshotEvent -> SUBSET Member]

LfTyped ==
    /\ call \in {"idle", "ready", "tx"}
    /\ persist \in PersistType /\ snap \in SnapType
    /\ error \in {"none", "crash", "serialization_failure",
                  "check_violation", "unique_violation"}
    /\ crashes \in Nat

(* Every variable has the type of the column, row or C variable it models. *)
TypeOK ==
    /\ clock \in Nat
    /\ TablesTyped
    /\ conflict \in BOOLEAN
    /\ fe \in [Session -> {NoTx} \cup [request : Requests, now : Nat]]
    /\ LfTyped

(* The rows are as the tables want them: the columns have their types, the  *)
(* row of the issue satisfies its CHECK constraints, also after the UPDATEs *)
(* that the model makes without asking (phase_finished, the snapshot), and  *)
(* a constraint objects to what check_issue writes only if an administrator *)
(* has cancelled the issue between two calls: never because of what         *)
(* sessions, crashes and repeated calls have left behind.                   *)
RowsAllowed ==
    /\ TypeOK
    /\ Checks(issue)
    /\ error = "check_violation" => issue.state = "canceled_by_admin"

(* The warning 'should not happen' at the end of check_issue is never       *)
(* raised: whatever was handed over, some section of it applies.           *)
EveryCallHasASection == ~ShouldNotHappen

(* Voting starts, and stays, on settled ground: the last snapshot is the    *)
(* one of the full freeze and was taken at that moment, every initiative    *)
(* has been admitted or rejected unless it was revoked before, and one was  *)
(* admitted.                                                               *)
VotingIsPrepared ==
    issue.state = "voting" \/ issue.state \in Finished =>
        /\ issue.latest_snapshot_event = "full_freeze"
        /\ issue.snapshot = issue.fully_frozen
        /\ \A k \in Initiative : initiative[k].exists =>
              (initiative[k].admitted = "undecided" <=> initiative[k].revoked # Null)
        /\ \E k \in Initiative : initiative[k].admitted = "admitted"

(* The ranking of a finished issue rests on exactly the ballots in the box: *)
(* none was cast, changed or discarded after close_voting counted them.    *)
NoBallotAfterCount ==
    persist.closed_voting \/ issue.state \in Finished => counted = voter

(* After acceptance no phase is cut short, whatever crashed or was retried: *)
(* the timestamps keep the durations that the policy promises.             *)
Apart(a, b, duration) == a # Null /\ b # Null => b >= a + duration

NoPhaseCutShort ==
    /\ Apart(issue.accepted, issue.half_frozen, DiscussionTime)
    /\ Apart(issue.half_frozen, issue.fully_frozen, VerificationTime)
    /\ issue.state \in Finished => Apart(issue.fully_frozen, issue.closed, VotingTime)

(* "Frontends must ensure that for half_frozen issues initiatives are not   *)
(* revoked", for fully frozen ones that nothing is created and no interest  *)
(* or support changes, for closed ones that no ballot does; and once closed *)
(* an issue keeps its state and its timestamps.  All of this in spite of    *)
(* sessions that tested the issue before the step that froze it.           *)
FreezeStep ==
    /\ issue.half_frozen # Null =>
         \A k \in Initiative : initiative'[k].revoked = initiative[k].revoked
    /\ issue.fully_frozen # Null =>
         /\ UNCHANGED <<interest, supporter>>
         /\ \A k \in Initiative : initiative'[k].exists = initiative[k].exists
    /\ issue.closed # Null =>
         /\ UNCHANGED <<voter, counted>>
         /\ issue'.state = issue.state /\ issue'.closed = issue.closed
         /\ issue'.accepted = issue.accepted
         /\ issue'.half_frozen = issue.half_frozen
         /\ issue'.fully_frozen = issue.fully_frozen

FreezeRules == [][FreezeStep]_vars

(* The snapshot and the admissions a vote rests on still describe the      *)
(* members: the population is the one of the full freeze and everybody who *)
(* is interested now is in it, and an admitted initiative has support       *)
(* unless it is one that needs no quorum.                                  *)
VoteReflectsInterest ==
    issue.state = "voting" \/ issue.state \in Finished =>
        /\ snapshots["full_freeze"] = AreaMember \cup interest
        /\ \A k \in Initiative :
              initiative[k].admitted = "admitted" /\ ~initiative[k].polling
                => supporter[k] # {}

(* Snapshots of a past phase are never rewritten, whatever is repeated, as  *)
(* long as the area has a member who is counted each time.                 *)
PastSnapshotsStay ==
    [][\A e \in SnapshotEvent \ {"periodic"} :
          snapshots[e] # {} => snapshots'[e] = snapshots[e]]_vars

(* A phase that is over is left, again and again until the issue is closed: *)
(* "It is required to run these commands regularly (...) to change the      *)
(* state of issues when neccessary".                                       *)
EveryPhaseEnds ==
    /\ issue.state = "admission" /\ PhaseOver(clock) ~> issue.state # "admission"
    /\ issue.state = "discussion" /\ PhaseOver(clock) ~> issue.state # "discussion"
    /\ issue.state = "verification" /\ PhaseOver(clock) ~> issue.state # "verification"

(* Unless lf_update is killed, a phase that is over is left, whatever        *)
(* sessions add to the issue meanwhile.                                    *)
PhasesEndUnlessKilled ==
    \A phase \in Deliberation :
        issue.state = phase /\ PhaseOver(clock) ~> issue.state # phase \/ crashes > 0

(* The voting phase ends even if lf_update is killed in it: counting and    *)
(* ranking can be repeated.                                                *)
VotingEnds ==
    issue.state = "voting" /\ PhaseOver(clock) ~> issue.closed # Null

(* What the documentation says, and the code does not do.                   *)

(* "all initiatives are revoked" when check_issue cancels for that reason.  *)
CanceledOnlyWhenAllRevoked ==
    issue.state = "canceled_revoked_before_accepted" => Unrevoked(initiative) = {}

=============================================================================
