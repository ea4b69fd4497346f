----------------------------- MODULE IssueOrder -----------------------------
(***************************************************************************)
(* lf_update_issue_order.c: issues in admission state are ordered within   *)
(* their area and within their unit, beside members and lf_update, under   *)
(* which issues come and go and change their supporters.                   *)
(***************************************************************************)
EXTENDS ProportionalRunoff

CONSTANTS
    Supporter,      \* the members who support issues
    Issue,          \* ids: of two issues the newer has the greater one
    AreaOf,         \* the area of each issue
    UnitOf,         \* the unit of each area
    Support,        \* what to start with: the newest issue, the supporters of each
                    \* and, by member and issue, the weights
    CalmSupport,    \* the same for behaviours in which nothing changes
    MaxEvents,      \* bound: changes by members and lf_update
    MaxFailures     \* bound: failing statements and crashes

ASSUME IssueAssumption ==
    /\ IsFiniteSet(Supporter) /\ Issue \subseteq Nat /\ IsFiniteSet(Issue)
    /\ DOMAIN AreaOf = Issue /\ \A i \in Issue : AreaOf[i] \in DOMAIN UnitOf
    /\ Support \cup CalmSupport \subseteq
           [newest : Issue, supporters : [Issue -> SUBSET Supporter],
            weight : [Supporter -> [Issue -> Nat \ {0}]]]
    /\ MaxEvents \in Nat /\ MaxFailures \in Nat

VARIABLES
    supporters,     \* of each issue, as far as its snapshot counts them
    weight,         \* direct_interest_snapshot
    admission,      \* the issues in admission state
    known,          \* the issues there have been
    entry,          \* issue_order_in_admission_state: order_in_area and _unit
    ipc,            \* where the program is
    areas, units,   \* those that are to do
    scope,          \* the one being done
    ierr,           \* err of main()
    ordered,        \* areas and units this run has dealt with (not in the program)
    events, ifaults

iprogram == <<ipc, areas, units, scope, ierr, ordered, ifaults, runoff>>
idata    == <<supporters, weight, admission, known, entry, events>>
ivars    == <<iprogram, idata>>

Area == {AreaOf[i] : i \in Issue}
Unit == {UnitOf[a] : a \in Area}
Column == {"area", "unit"}
Scope == {[mode |-> "area", id |-> a] : a \in Area} \cup {[mode |-> "unit", id |-> u] : u \in Unit}

IssuesOf(s) ==
    {i \in Issue : IF s.mode = "area" THEN AreaOf[i] = s.id ELSE UnitOf[AreaOf[i]] = s.id}

-----------------------------------------------------------------------------
(* Members and lf_update                                                   *)

\* As in SuggestionOrder, nothing happens to matter while seats are calculated.
Event == ipc # "rank" /\ events < MaxEvents /\ events' = events + 1

NewIssue ==
    /\ Event
    /\ \E i \in Issue \ known :
        /\ \A j \in Issue : j > i => j \notin known
        /\ known' = known \cup {i} /\ admission' = admission \cup {i}
    /\ UNCHANGED <<supporters, weight, entry, iprogram>>

\* An issue is admitted, or canceled.
LeaveAdmission ==
    /\ Event
    /\ \E i \in admission : admission' = admission \ {i}
    /\ UNCHANGED <<supporters, weight, known, entry, iprogram>>

\* A new snapshot, with other supporters.
ChangeSupport ==
    /\ Event
    /\ \E i \in admission, m \in Supporter :
        supporters' = [supporters EXCEPT ![i] = IF m \in @ THEN @ \ {m} ELSE @ \cup {m}]
    /\ UNCHANGED <<weight, admission, known, entry, iprogram>>

-----------------------------------------------------------------------------
(* The program                                                             *)

Failure == ifaults < MaxFailures /\ ifaults' = ifaults + 1

\* issue_supporter_in_admission_state.
Supported(s) == {i \in IssuesOf(s) \cap admission : supporters[i] # {}}
Voters(s) == UNION {supporters[i] : i \in Supported(s)}

\* The rows of a member come in any order, and the last one sets the weight of
\* the ballot: it is that of one of the member's issues.
BallotSets(s) ==
    LET issues == [m \in Voters(s) |-> {i \in Supported(s) : m \in supporters[i]}]
        last   == {f \in [Voters(s) -> Issue] : \A m \in Voters(s) : f[m] \in issues[m]}
    IN  {[m \in Voters(s) |-> [weight |-> weight[m][f[m]], sections |-> <<issues[m]>>]] : f \in last}

\* Variant: entries are made for issues that have supporters.
MissingSupported == [i \in {i \in admission \ DOMAIN entry : supporters[i] # {}} |->
                        [c \in Column |-> 0]]

MissingEntries == [i \in admission \ DOMAIN entry |-> [c \in Column |-> 0]]

InsertEntries ==
    /\ ipc = "start" /\ ipc' = "areas"
    /\ \/ /\ entry' = [i \in DOMAIN entry \cup DOMAIN MissingEntries |->
                           IF i \in DOMAIN entry THEN entry[i] ELSE MissingEntries[i]]
          /\ UNCHANGED <<ierr, ifaults>>
       \/ Failure /\ ierr' = TRUE /\ UNCHANGED entry
    /\ UNCHANGED <<areas, units, scope, ordered, runoff,
                   supporters, weight, admission, known, events>>

SelectAreas ==
    /\ ipc = "areas" /\ ipc' = "next"
    /\ \/ areas' = Area /\ UNCHANGED <<ierr, ifaults>>
       \/ Failure /\ ierr' = TRUE /\ UNCHANGED areas
    /\ UNCHANGED <<units, scope, ordered, runoff, idata>>

SelectUnits ==
    /\ ipc = "next" /\ areas = {}
    /\ ipc' = "nextunit"
    /\ \/ units' = Unit /\ UNCHANGED <<ierr, ifaults>>
       \/ Failure /\ ierr' = TRUE /\ UNCHANGED units
    /\ UNCHANGED <<areas, scope, ordered, runoff, idata>>

\* The supporters in one area or unit are read and the issues are seated.
ProcessAreaOrUnit(s) ==
    /\ scope' = s /\ ipc' = "rank"
    /\ \E b \in BallotSets(s) : SetUp(b, Supported(s))
    /\ UNCHANGED <<ierr, ordered, ifaults, idata>>

NextArea ==
    /\ ipc = "next"
    /\ \E a \in areas : areas' = areas \ {a} /\ ProcessAreaOrUnit([mode |-> "area", id |-> a])
    /\ UNCHANGED units

NextUnit ==
    /\ ipc = "nextunit"
    /\ \E u \in units : units' = units \ {u} /\ ProcessAreaOrUnit([mode |-> "unit", id |-> u])
    /\ UNCHANGED areas

\* The SELECT of them fails: the area or unit is skipped.
SelectSupportersFails ==
    /\ Failure /\ ierr' = TRUE
    /\ \/ ipc = "next" /\ (\E a \in areas : areas' = areas \ {a}) /\ UNCHANGED units
       \/ ipc = "nextunit" /\ (\E u \in units : units' = units \ {u}) /\ UNCHANGED areas
    /\ UNCHANGED <<ipc, scope, ordered, runoff, idata>>

RankIssues ==
    /\ ipc = "rank"
    /\ \/ (Turn \/ GiveSeat) /\ UNCHANGED ipc
       \/ Seated /\ ipc' = "write" /\ UNCHANGED runoff
    /\ UNCHANGED <<areas, units, scope, ierr, ordered, ifaults, idata>>

AfterWrite == IF scope.mode = "area" THEN "next" ELSE "nextunit"

\* One transaction with an UPDATE for every candidate: issues without an entry
\* are skipped by it, issues that are no candidates keep what they have.
WriteRanks ==
    /\ ipc = "write" /\ ipc' = AfterWrite
    /\ entry' = [i \in DOMAIN entry |->
                    IF i \in DOMAIN seat THEN [entry[i] EXCEPT ![scope.mode] = seat[i]]
                    ELSE entry[i]]
    /\ ordered' = ordered \cup {scope}
    /\ UNCHANGED <<areas, units, scope, ierr, ifaults, runoff,
                   supporters, weight, admission, known, events>>

\* Variant: the caller is not told.
SilentFailure ==
    /\ ipc = "write" /\ Failure /\ ipc' = AfterWrite
    /\ UNCHANGED <<areas, units, scope, ordered, runoff, ierr, idata>>

\* A statement of it fails; with no candidates there is only the COMMIT, and its
\* failure is not reported.
WriteFailure ==
    /\ ipc = "write" /\ Failure /\ ipc' = AfterWrite
    /\ IF DOMAIN seat # {} THEN ierr' = TRUE /\ UNCHANGED ordered
                             ELSE ordered' = ordered \cup {scope} /\ UNCHANGED ierr
    /\ UNCHANGED <<areas, units, scope, runoff, idata>>

\* The entries of issues that are no more in admission state are deleted.
DeleteEntries ==
    /\ ipc = "nextunit" /\ units = {} /\ ipc' = "exit"
    /\ \/ entry' = [i \in DOMAIN entry \cap admission |-> entry[i]] /\ UNCHANGED <<ierr, ifaults>>
       \/ Failure /\ ierr' = TRUE /\ UNCHANGED entry
    /\ UNCHANGED <<areas, units, scope, ordered, runoff,
                   supporters, weight, admission, known, events>>

IssueOrderCrash ==
    /\ ipc # "exit" /\ Failure
    /\ ierr' = TRUE /\ areas' = {} /\ units' = {} /\ ipc' = "exit"
    /\ UNCHANGED <<scope, ordered, runoff, idata>>

RunIssueOrder ==
    /\ ipc = "exit" /\ ipc' = "start"
    /\ ierr' = FALSE /\ ordered' = {} /\ SetUp(<<>>, {})
    /\ UNCHANGED <<areas, units, scope, ifaults, idata>>

-----------------------------------------------------------------------------
IssueStart(s, e, f) ==
    /\ supporters = s.supporters /\ weight = s.weight /\ events = e /\ ifaults = f
    /\ known = {i \in Issue : i <= s.newest} /\ admission = known /\ entry = <<>>
    /\ ballots = <<>> /\ seat = <<>> /\ score = <<>> /\ one = 1
    /\ ipc = "start" /\ areas = {} /\ units = {} /\ ordered = {} /\ ierr = FALSE
    /\ scope = [mode |-> "area", id |-> AreaOf[s.newest]]

IssueInit ==
    \/ \E s \in Support : IssueStart(s, 0, 0)
    \/ \E s \in CalmSupport : IssueStart(s, MaxEvents, MaxFailures)

IssueProgram ==
    \/ RunIssueOrder \/ InsertEntries \/ SelectAreas \/ NextArea \/ SelectUnits \/ NextUnit
    \/ RankIssues \/ WriteRanks \/ DeleteEntries

IssueNext ==
    \/ IssueProgram \/ SelectSupportersFails \/ WriteFailure \/ IssueOrderCrash
    \/ NewIssue \/ LeaveAdmission \/ ChangeSupport

IssueSpec == IssueInit /\ [][IssueNext]_ivars

-----------------------------------------------------------------------------
(* Properties                                                              *)

IssueTypeOK ==
    /\ supporters \in [Issue -> SUBSET Supporter]
    /\ weight \in [Supporter -> [Issue -> Nat \ {0}]]
    /\ admission \subseteq known /\ known \subseteq Issue
    /\ DOMAIN entry \subseteq known
    /\ \A i \in DOMAIN entry : entry[i] \in [Column -> Nat]
    /\ ipc \in {"start", "areas", "next", "nextunit", "rank", "write", "exit"}
    /\ areas \subseteq Area /\ units \subseteq Unit
    /\ scope \in Scope /\ ordered \subseteq Scope
    /\ DOMAIN seat \subseteq IssuesOf(scope) /\ DOMAIN ballots \subseteq Supporter
    /\ ierr \in BOOLEAN /\ events \in 0 .. MaxEvents /\ ifaults \in 0 .. MaxFailures

\* A run that reports success has ordered every area and every unit.
IssueSuccess == ipc = "exit" /\ ~ierr => ordered = Scope
=============================================================================
