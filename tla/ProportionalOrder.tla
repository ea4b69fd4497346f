-------------------------- MODULE ProportionalOrder --------------------------
(***************************************************************************)
(* The two programs that order issues and suggestions.  The core services  *)
(* run one after the other, over and over; they have no table in common,   *)
(* so that each behaviour follows one of them, with the changes that it    *)
(* meets, and the other one waits.                                         *)
(***************************************************************************)
EXTENDS SuggestionOrder, IssueOrder

VARIABLE service    \* the program that is followed

ordervars == <<svars, ivars, service>>

One(S) == CHOOSE x \in S : TRUE

Init ==
    \/ /\ service = "suggestion" /\ SuggestionInit
       /\ IssueStart(One(Support), 0, 0)
    \/ /\ service = "issue" /\ IssueInit
       /\ SuggestionStart(One(Start), 0, 0)

\* What belongs to one of the programs only; the runoff is of the one followed.
suggestionvars == <<spc, todo, current, aborted, serr, stored, counted, sfaults, data>>
issuevars      == <<ipc, areas, units, scope, ierr, ordered, ifaults, idata>>

Suggestions(A) == service = "suggestion" /\ A /\ UNCHANGED <<issuevars, service>>
Issues(A)      == service = "issue" /\ A /\ UNCHANGED <<suggestionvars, service>>

Next == Suggestions(SuggestionNext) \/ Issues(IssueNext)

\* The core services go on with whatever their program can do.
Fairness == WF_ordervars(Suggestions(SuggestionProgram)) /\ WF_ordervars(Issues(IssueProgram))

Spec == Init /\ [][Next]_ordervars /\ Fairness

-----------------------------------------------------------------------------
(* Properties                                                              *)

\* The state has the declared form.
OrderTypeOK ==
    /\ RunoffTypeOK
    /\ service = "suggestion" => SuggestionTypeOK
    /\ service = "issue" => IssueTypeOK
    /\ service \in {"issue", "suggestion"}

\* The seats are proportional, whatever the ratings, the support and the order
\* in which the rows are read: members who agree that some candidates come first
\* get them, as far as their share of the weight goes.
MinoritiesAreRepresented == Seated => Proportional

\* A program that exits with success has stored all the orders it set out to
\* calculate: a failing statement never passes unnoticed.
SuccessMeansStored == SuggestionSuccess /\ IssueSuccess

\* Run again and again, though statements fail and they are killed, the programs
\* get there: a frozen initiative has its final order, an issue in admission
\* state has an entry, and the entry does not outlive that state.
Missing(i) == i \in known /\ (i \in admission <=> i \notin DOMAIN entry)
OrdersAreMade ==
    /\ \A i \in Initiative : service = "suggestion" /\ i \in frozen ~> i \in calculated
    /\ \A i \in Issue : service = "issue" /\ Missing(i) ~> ~Missing(i)
=============================================================================
