-------------------------- MODULE MCIssueScenarios --------------------------
(***************************************************************************)
(* Model checking of IssueLifecycle in three scenarios.  In a debate a     *)
(* session creates and revokes initiatives, polls among them.  Around the  *)
(* sections other issues take and free those of the issue, and its only    *)
(* initiative may be revoked.  Among members two sessions change interest, *)
(* support and ballots concerning one initiative.                          *)
(***************************************************************************)
EXTENDS MCIssueLifecycle, TLC

VARIABLE scenario

ScenarioSymmetry == Permutations(Initiative) \cup Permutations(Session)

Open == {s \in Session : fe[s] # NoTx}

OneSession(ops) ==
    /\ Cardinality(Open) <= 1 /\ interest \subseteq AreaMember
    /\ \A s \in Open : /\ fe[s].request.op \in ops
                       /\ fe[s].request.member \in AreaMember \cup {Null}

NoPolls == \A k \in Initiative : ~initiative[k].polling

InScenario ==
    \/ scenario = "debate" /\ ~conflict /\ OneSession(DebateOps)
    \/ scenario = "sections" /\ NoPolls /\ OneSession({"revoke"})
    \/ /\ scenario = "members" /\ ~conflict /\ NoPolls
       /\ \A s \in Open : fe[s].request.op \in MemberOps

MCInit == Init /\ scenario \in {"debate", "sections", "members"} /\ InScenario

\* Whether a section is taken is only asked while the issue awaits its admission.
MCNext ==
    /\ Next
    /\ conflict' # conflict => issue.state = "admission"
    /\ UNCHANGED scenario /\ InScenario'

MCSpec == MCInit /\ [][MCNext]_<<vars, scenario>>
=============================================================================
