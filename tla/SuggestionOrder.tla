--------------------------- MODULE SuggestionOrder ---------------------------
(***************************************************************************)
(* lf_update_suggestion_order.c, beside the members who rate suggestions   *)
(* and lf_update, which takes snapshots and freezes issues.                *)
(*                                                                         *)
(* A run of the program reads which initiatives to process, and then for   *)
(* each of them the ratings, in a transaction, and writes their order, in  *)
(* another.  It may fail or be killed at any point, and is run again.      *)
(***************************************************************************)
EXTENDS ProportionalRunoff

CONSTANTS
    Member,         \* the members who rate suggestions
    Initiative,
    Suggestion,     \* ids: of two suggestions the newer has the greater one
    InitiativeOf,   \* the initiative of each suggestion
    Ratings,        \* the preferences members give, of 1 (first) .. 4 (last)
    SnapshotWeight, \* the weights a snapshot may find for the members, 0 for none
    Start,          \* what to start with: ratings, and a snapshot
    Calm,           \* the same for behaviours in which nothing changes
    MaxChanges,     \* bound: changes by members and lf_update
    MaxFaults       \* bound: failing statements and crashes

ASSUME SuggestionAssumption ==
    /\ IsFiniteSet(Member) /\ Suggestion \subseteq Nat /\ IsFiniteSet(Suggestion)
    /\ Initiative # {} /\ InitiativeOf \in [Suggestion -> Initiative]
    /\ Ratings \subseteq 1 .. 4
    /\ Start \cup Calm \subseteq
           [opinion : [Member -> [Suggestion -> Ratings \cup {0}]], snapshot : SnapshotWeight]
    /\ SnapshotWeight \subseteq [Member -> Nat]
    /\ MaxChanges \in Nat /\ MaxFaults \in Nat

VARIABLES
    opinion,        \* the preference that follows from each opinion, 0 for none
    snapshot,       \* direct_interest_snapshot: the weights, by initiative
    frozen,         \* initiatives whose issue is fully frozen or closed
    cleaned,        \* those whose issue has been cleaned
    calculated,     \* final_suggestion_order_calculated
    order,          \* proportional_order of each suggestion, 0 for NULL
    deleted,        \* suggestions that have been deleted
    spc,            \* where the program is
    todo,           \* the rows of initiative_suggestion_order_calculation to do
    current,        \* the one being done
    aborted,        \* the connection is in an aborted transaction
    serr,           \* err of main()
    stored,         \* initiatives this run has dealt with (not in the program)
    counted,        \* the ballots the final order rests on (not in the program)
    changes, sfaults

program == <<spc, todo, current, aborted, serr, stored, counted, sfaults, runoff>>
data    == <<opinion, snapshot, frozen, cleaned, calculated, order, deleted, changes>>
svars   == <<program, data>>

Nothing == [id |-> CHOOSE i \in Initiative : TRUE, final |-> FALSE]
Of(i) == {s \in Suggestion : InitiativeOf[s] = i}
Exists(s) == \E m \in Member : opinion[m][s] # 0

-----------------------------------------------------------------------------
(* Members and lf_update                                                   *)

\* While the transaction that writes the order of an initiative is open it has
\* locked the suggestions there are: one cannot be deleted then.
Locked(s) == spc = "write" /\ InitiativeOf[s] = current.id

\* While the program calculates it neither reads nor writes what others change:
\* their changes are made before or after.
Change == spc # "rank" /\ changes < MaxChanges /\ changes' = changes + 1

\* A member rates a suggestion, or makes one with a first opinion; without its
\* last opinion a suggestion is deleted.
Rate ==
    \E m \in Member, s \in Suggestion, p \in Ratings \cup {0} :
        /\ Change
        /\ InitiativeOf[s] \notin frozen /\ s \notin deleted
        /\ p # opinion[m][s]
        /\ Exists(s) \/ \A r \in Suggestion : r > s => ~Exists(r) /\ r \notin deleted
        /\ opinion' = [opinion EXCEPT ![m][s] = p]
        /\ IF p = 0 /\ \A o \in Member \ {m} : opinion[o][s] = 0
             THEN /\ ~Locked(s)
                  /\ deleted' = deleted \cup {s} /\ order' = [order EXCEPT ![s] = 0]
             ELSE UNCHANGED <<deleted, order>>
        /\ UNCHANGED <<snapshot, frozen, cleaned, calculated, program>>

TakeSnapshot ==
    \E i \in Initiative \ frozen, w \in SnapshotWeight :
        /\ Change
        /\ w # snapshot[i] /\ snapshot' = [snapshot EXCEPT ![i] = w]
        /\ UNCHANGED <<opinion, frozen, cleaned, calculated, order, deleted, program>>

Freeze ==
    \E i \in Initiative \ frozen :
        /\ Change
        /\ frozen' = frozen \cup {i}
        /\ UNCHANGED <<opinion, snapshot, cleaned, calculated, order, deleted, program>>

\* An issue that is closed may be cleaned, which deletes its snapshots.
CleanIssue ==
    \E i \in frozen \ cleaned :
        /\ Change
        /\ cleaned' = cleaned \cup {i}
        /\ snapshot' = [snapshot EXCEPT ![i] = [m \in Member |-> 0]]
        /\ UNCHANGED <<opinion, frozen, calculated, order, deleted, program>>

-----------------------------------------------------------------------------
(* The program                                                             *)

\* initiative_suggestion_order_calculation: open initiatives, and once more
\* those that have been frozen.
Calculation ==
    {[id |-> i, final |-> i \in frozen] :
        i \in {i \in Initiative : i \notin frozen \/ i \notin calculated}}

\* individual_suggestion_ranking, grouped by member: the ballots.
Ballots(i) ==
    [m \in {m \in Member : snapshot[i][m] > 0 /\ \E s \in Of(i) : opinion[m][s] # 0} |->
        [weight |-> snapshot[i][m],
         sections |-> [j \in 1 .. 4 |-> {s \in Of(i) : opinion[m][s] = j}]]]

Candidates(i) == {s \in Of(i) : \E m \in Member : snapshot[i][m] > 0 /\ opinion[m][s] # 0}

Fault == sfaults < MaxFaults /\ sfaults' = sfaults + 1

SelectInitiatives ==
    /\ spc = "start"
    /\ \/ todo' = Calculation /\ spc' = "next" /\ UNCHANGED <<serr, sfaults>>
       \/ Fault /\ serr' = TRUE /\ spc' = "exit" /\ UNCHANGED todo
    /\ UNCHANGED <<current, aborted, stored, counted, runoff, data>>

\* The ratings of one initiative are read.  Without any, only a final calculation
\* has something to write.
ProcessInitiative ==
    /\ spc = "next" /\ ~aborted
    /\ \E t \in todo :
        /\ todo' = todo \ {t}
        /\ IF Candidates(t.id) = {} /\ ~t.final
             THEN stored' = stored \cup {t.id} /\ UNCHANGED <<spc, current, runoff>>
             ELSE /\ current' = t /\ spc' = "rank" /\ UNCHANGED stored
                  /\ SetUp(Ballots(t.id), Candidates(t.id))
    /\ UNCHANGED <<aborted, serr, counted, sfaults, data>>

RankSuggestions ==
    /\ spc = "rank"
    /\ \/ (Turn \/ GiveSeat) /\ UNCHANGED spc
       \/ Seated /\ spc' = "begin" /\ UNCHANGED runoff
    /\ UNCHANGED <<todo, current, aborted, serr, stored, counted, sfaults, data>>

\* The SELECT fails, as every command does in an aborted transaction.
SelectFails ==
    /\ spc = "next" /\ IF aborted THEN UNCHANGED sfaults ELSE Fault
    /\ \E t \in todo : todo' = todo \ {t}
    /\ serr' = TRUE
    /\ UNCHANGED <<spc, current, aborted, stored, counted, runoff, data>>

\* BEGIN, and the UPDATEs that mark the initiative and reset its order.
BeginWrite ==
    /\ spc = "begin" /\ spc' = "write"
    /\ UNCHANGED <<todo, current, aborted, serr, stored, counted, sfaults, runoff, data>>

\* The UPDATEs fail, in a deadlock for one, and nothing rolls back the
\* transaction that BEGIN has opened.
BeginFails ==
    /\ spc = "begin" /\ Fault
    /\ aborted' = TRUE /\ serr' = TRUE /\ spc' = "next"
    /\ UNCHANGED <<todo, current, stored, counted, runoff, data>>

\* An UPDATE of a rank, or the COMMIT, fails.
WriteFails ==
    /\ spc = "write" /\ Fault
    /\ serr' = TRUE /\ spc' = "next"
    /\ UNCHANGED <<todo, current, aborted, stored, counted, runoff, data>>

\* All suggestions of the initiative lose their order, and the candidates that
\* still exist get theirs.
Ranks(i) ==
    [s \in Suggestion |->
        IF s \in DOMAIN seat /\ Exists(s) THEN seat[s]
        ELSE IF InitiativeOf[s] = i THEN 0 ELSE order[s]]

\* Variant: whether this is the last calculation is asked when it is written.
MarkFinal == IF current.id \in frozen THEN calculated \cup {current.id} ELSE calculated

Marked == IF current.final THEN calculated \cup {current.id} ELSE calculated

CommitRanks ==
    /\ spc = "write"
    /\ order' = Ranks(current.id)
    /\ calculated' = Marked
    /\ counted' = [counted EXCEPT ![current.id] = ballots]
    /\ stored' = stored \cup {current.id} /\ spc' = "next"
    /\ UNCHANGED <<todo, current, aborted, serr, sfaults, runoff,
                   opinion, snapshot, frozen, cleaned, deleted, changes>>

ExitSuggestionOrder ==
    /\ spc = "next" /\ todo = {}
    /\ aborted' = FALSE /\ spc' = "exit"
    /\ UNCHANGED <<todo, current, serr, stored, counted, sfaults, runoff, data>>

\* The program is killed, or loses its connection: an open transaction is undone.
SuggestionCrash ==
    /\ spc # "exit" /\ Fault
    /\ aborted' = FALSE /\ serr' = TRUE /\ todo' = {} /\ spc' = "exit"
    /\ UNCHANGED <<current, stored, counted, runoff, data>>

\* The core services run it again, time and again.
RunSuggestionOrder ==
    /\ spc = "exit" /\ spc' = "start"
    /\ serr' = FALSE /\ stored' = {} /\ current' = Nothing /\ SetUp(<<>>, {})
    /\ UNCHANGED <<todo, aborted, counted, sfaults, data>>

-----------------------------------------------------------------------------
SuggestionStart(o, c, f) ==
    /\ opinion = o.opinion /\ snapshot = [i \in Initiative |-> o.snapshot] /\ changes = c /\ sfaults = f
    /\ frozen = {} /\ cleaned = {} /\ calculated = {} /\ deleted = {}
    /\ order = [s \in Suggestion |-> 0]
    /\ spc = "start" /\ todo = {} /\ current = Nothing
    /\ aborted = FALSE /\ serr = FALSE /\ stored = {}
    /\ counted = [i \in Initiative |-> <<>>]
    /\ ballots = <<>> /\ seat = <<>> /\ score = <<>> /\ one = 1

SuggestionInit ==
    \/ \E o \in Start : SuggestionStart(o, 0, 0)
    \/ \E o \in Calm : SuggestionStart(o, MaxChanges, MaxFaults)

SuggestionProgram ==
    \/ RunSuggestionOrder \/ SelectInitiatives \/ ProcessInitiative \/ SelectFails
    \/ RankSuggestions \/ BeginWrite \/ CommitRanks \/ ExitSuggestionOrder

SuggestionNext ==
    \/ SuggestionProgram \/ BeginFails \/ WriteFails \/ SuggestionCrash
    \/ Rate \/ TakeSnapshot \/ Freeze \/ CleanIssue

SuggestionSpec == SuggestionInit /\ [][SuggestionNext]_svars


-----------------------------------------------------------------------------
(* Properties                                                              *)

SuggestionTypeOK ==
    /\ opinion \in [Member -> [Suggestion -> 0 .. 4]]
    /\ snapshot \in [Initiative -> [Member -> Nat]]
    /\ cleaned \subseteq frozen /\ frozen \subseteq Initiative
    /\ calculated \subseteq frozen /\ stored \subseteq Initiative
    /\ order \in [Suggestion -> Nat] /\ deleted \subseteq Suggestion
    /\ spc \in {"start", "next", "rank", "begin", "write", "exit"}
    /\ todo \subseteq [id : Initiative, final : BOOLEAN]
    /\ current \in [id : Initiative, final : BOOLEAN]
    /\ DOMAIN seat \subseteq Suggestion /\ DOMAIN ballots \subseteq Member
    /\ aborted \in BOOLEAN /\ serr \in BOOLEAN
    /\ changes \in 0 .. MaxChanges /\ sfaults \in 0 .. MaxFaults

\* Two suggestions of an initiative never have the same place, whatever members
\* delete and add meanwhile and wherever the program fails.
SuggestionRanksDiffer ==
    \A r, s \in Suggestion :
        r # s /\ InitiativeOf[r] = InitiativeOf[s] /\ order[r] # 0 => order[r] # order[s]

\* The order that is marked as final has counted every opinion and weight there
\* was when the issue was frozen.
FinalOrderCountsEverybody == \A i \in calculated \ cleaned : counted[i] = Ballots(i)

\* What is stored is an order, and a final one is final for good reason.
OrdersAreSound == SuggestionRanksDiffer /\ FinalOrderCountsEverybody

\* A run that reports success has dealt with all the initiatives it had selected.
SuggestionSuccess ==
    spc = "exit" /\ ~serr => Initiative \ frozen \subseteq stored
=============================================================================
