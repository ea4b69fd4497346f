--------------------------- MODULE VoteDelegation ---------------------------
(***************************************************************************)
(* Delegations of one issue, and what they weigh: create_snapshot counts   *)
(* the population and those interested, close_voting counts the voters,    *)
(* and each time a recursive function adds the members who delegate to     *)
(* them, directly or along a chain.                                        *)
(*                                                                         *)
(* The same program text exists three times, once for each pair of tables; *)
(* here "kind" tells them apart.  A count is one transaction that sees the *)
(* tables as they were when it began: what members change meanwhile is     *)
(* modelled as changed afterwards.  No query has an ORDER BY: every loop   *)
(* may meet its rows in any order.                                         *)
(***************************************************************************)
EXTENDS Naturals, Sequences, FiniteSets

CONSTANTS
    Member,
    Tables,      \* the contents that table "delegation" may have at first
    Null,        \* SQL NULL
    MaxChanges   \* bound: how often members change what is counted, but votes

Kind  == {"population", "interest", "vote"}

\* "delegation_scope": the order is relevant.
Level == [unit |-> 1, area |-> 2, issue |-> 3]
Scope == DOMAIN Level

DelegationRow == [truster : Member, scope : Scope, trustee : Member \cup {Null}]

\* The constraints of table "delegation".
Allowed(rows) ==
    /\ \A r \in rows : /\ r.truster # r.trustee
                       /\ r.scope = "unit" => r.trustee # Null
    /\ \A r, o \in rows : r.truster = o.truster /\ r.scope = o.scope => r = o

ASSUME MemberAssumption == IsFiniteSet(Member) /\ Null \notin Member /\ Null \notin Kind
ASSUME TablesAssumption == \A t \in Tables : t \subseteq DelegationRow /\ Allowed(t)
ASSUME ChangeAssumption == MaxChanges \in Nat

VARIABLES
    delegation,   \* rows of table "delegation" that concern the issue
    privileged,   \* active members with voting right in the unit
    membership,   \* members of the area
    interest,     \* members with a row in table "interest"
    phase,        \* "debate"; "voting"; "counting": the voting phase is over
    direct,       \* kind -> members with a row in the table direct_...
    delegating,   \* kind -> member -> "delegate_member_ids" of the row in the
                  \* table delegating_...; empty: no row
    weight,       \* kind -> member -> "weight" in either table; 0: NULL
    job,          \* the kind being counted, or Null
    todo,         \* direct members the outer loop has not visited
    stack,        \* calls of weight_of_added_..., the innermost is the last
    changes

tables == <<delegation, privileged, membership, interest>>
calls  == <<job, todo, stack>>
counts == <<direct, delegating, weight>>
vars   == <<delegation, privileged, membership, interest, phase,
            direct, delegating, weight, job, todo, stack, changes>>

\* The view: of every privileged truster the delegation with the narrowest
\* scope.  A trustee that is NULL hides the wider ones and reaches nobody.
issue_delegation ==
    {r \in delegation :
        /\ r.truster \in privileged
        /\ \A o \in delegation : o.truster = r.truster => Level[o.scope] <= Level[r.scope]}

\* A call of weight_of_added_...: its argument, the rows its loop has still to
\* visit, and "weight_v".
Call(m) == [member |-> m,
            rows   |-> {r \in issue_delegation : r.trustee = m},
            weight |-> 0]

Depth == Len(stack)
Top   == stack[Depth]

\* The loop of the innermost call has got row r.
Visited(r) == [stack EXCEPT ![Depth].rows = @ \ {r}]

\* "member_id_p" || "delegate_member_ids_p"
Chain == [i \in 1 .. Depth |-> stack[Depth + 1 - i].member]

NoRows == [m \in Member |-> <<>>]

\* Variant: the rows of an earlier count are kept.
KeepRows(kind, members) ==
    /\ direct' = [direct EXCEPT ![kind] = members]
    /\ weight' = [weight EXCEPT ![kind] = [m \in Member |-> 0]]
    /\ UNCHANGED delegating

\* Former rows are deleted, the rows of the given members are inserted or, of
\* those who voted, kept.  (close_voting sets their weight to 1 at once, and
\* adds to it; here it is stored when the call for the member returns.)
ResetRows(kind, members) ==
    /\ direct' = [direct EXCEPT ![kind] = members]
    /\ delegating' = [delegating EXCEPT ![kind] = NoRows]
    /\ weight' = [weight EXCEPT ![kind] = [m \in Member |-> 0]]

Begin(kind, members) ==
    /\ ResetRows(kind, members)
    /\ job' = kind /\ todo' = members /\ stack' = <<>>
    /\ UNCHANGED <<tables, changes>>

LoopDone == todo = {} /\ stack = <<>>

\* Variant: the population are the members of the area.
MembersOnly == privileged \cap membership

Population == privileged \cap (membership \cup interest)

CreatePopulationSnapshot ==
    /\ job = Null /\ phase = "debate"
    /\ Begin("population", Population)
    /\ UNCHANGED phase

CreateInterestSnapshot ==
    /\ job = "population" /\ LoopDone
    /\ Begin("interest", privileged \cap interest)
    /\ UNCHANGED phase

\* The snapshot is complete.  At the full freeze its rows get another event
\* and are read by no count any more.
SetSnapshotEvent ==
    /\ job = "interest" /\ LoopDone
    /\ job' = Null
    /\ \/ UNCHANGED <<phase, counts>>
       \/ /\ phase' = "voting"
          /\ direct' = [k \in Kind |-> {}]
          /\ delegating' = [k \in Kind |-> NoRows]
          /\ weight' = [k \in Kind |-> [m \in Member |-> 0]]
    /\ UNCHANGED <<tables, todo, stack, changes>>

\* Votes of members who are not privileged are deleted.  Until the ranks are
\* calculated, the count may be repeated.
CloseVoting ==
    /\ job = Null /\ phase \in {"voting", "counting"}
    /\ phase' = "counting"
    /\ Begin("vote", direct["vote"] \cap privileged)

VotingClosed ==
    /\ job = "vote" /\ LoopDone
    /\ job' = Null
    /\ UNCHANGED <<tables, phase, counts, todo, stack, changes>>

-----------------------------------------------------------------------------
(* The loops and the recursion.                                            *)

NextDirect ==
    /\ job # Null /\ stack = <<>>
    /\ \E m \in todo :
         /\ todo' = todo \ {m}
         /\ stack' = <<Call(m)>>
    /\ UNCHANGED <<tables, phase, counts, job, changes>>

HasRow(m) == m \in direct[job] \/ delegating[job][m] # <<>>

\* The loop passes over a truster who has a row already ...
PassOver ==
    /\ stack # <<>>
    /\ \E r \in Top.rows :
         /\ HasRow(r.truster)
         /\ stack' = Visited(r)
    /\ UNCHANGED <<tables, phase, counts, job, todo, changes>>

\* ... and inserts a row for another, who may have trusters, too.
AddDelegation ==
    /\ stack # <<>>
    /\ \E r \in Top.rows :
         /\ ~HasRow(r.truster)
         /\ delegating' = [delegating EXCEPT ![job][r.truster] = Chain]
         /\ stack' = Append(Visited(r), Call(r.truster))
    /\ UNCHANGED <<tables, phase, direct, weight, job, todo, changes>>

\* The innermost call returns "weight_v".  The caller stores it, plus one, and
\* adds the sum to its own.
Return ==
    /\ stack # <<>> /\ Top.rows = {}
    /\ weight' = [weight EXCEPT ![job][Top.member] = 1 + Top.weight]
    /\ stack' = [i \in 1 .. Depth - 1 |->
                    IF i = Depth - 1
                    THEN [stack[i] EXCEPT !.weight = @ + 1 + Top.weight]
                    ELSE stack[i]]
    /\ UNCHANGED <<tables, phase, direct, delegating, job, todo, changes>>

-----------------------------------------------------------------------------
(* What members and administrators change.                                 *)

Change == /\ job = Null /\ changes < MaxChanges
          /\ changes' = changes + 1
          /\ UNCHANGED <<phase, counts, calls>>

Own(m, scope) == {r \in delegation : r.truster = m /\ r.scope = scope}

\* Variant: the member's former delegation of that scope is not replaced.
UpdateDelegationAdds(m) ==
    /\ Change /\ m \in privileged
    /\ \E scope \in Scope, trustee \in (privileged \cup {Null}) \ {m} :
         /\ scope = "unit" => trustee # Null
         /\ delegation' = delegation \cup
                            {[truster |-> m, scope |-> scope, trustee |-> trustee]}
    /\ UNCHANGED <<privileged, membership, interest>>

\* The new delegation replaces the former one of that scope.  (The trustee has
\* voting right, but may be inactive: as if ChangePrivilege came later.)
UpdateDelegation(m) ==
    /\ Change /\ m \in privileged
    /\ \E scope \in Scope, trustee \in (privileged \cup {Null}) \ {m} :
         /\ scope = "unit" => trustee # Null
         /\ delegation' = (delegation \ Own(m, scope)) \cup
                            {[truster |-> m, scope |-> scope, trustee |-> trustee]}
    /\ UNCHANGED <<privileged, membership, interest>>

DeleteDelegation(m) ==
    /\ Change
    /\ \E scope \in Scope :
         /\ Own(m, scope) # {}
         /\ delegation' = delegation \ Own(m, scope)
    /\ UNCHANGED <<privileged, membership, interest>>

\* A voting right is granted or taken away, a member becomes active or inactive.
ChangePrivilege(m) ==
    /\ Change
    /\ privileged' = IF m \in privileged THEN privileged \ {m} ELSE privileged \cup {m}
    /\ UNCHANGED <<delegation, membership, interest>>

\* delete_member deactivates the member; delegations to the member remain, and
\* so does the interest.  A trigger forbids it to delete a ballot when the
\* voting phase is over, and the whole transaction fails.
DeleteMember(m) ==
    /\ job = Null /\ changes < MaxChanges
    /\ phase = "counting" => m \notin direct["vote"]
    /\ changes' = changes + 1
    /\ privileged' = privileged \ {m}
    /\ membership' = membership \ {m}
    /\ delegation' = {r \in delegation : r.truster # m}
    /\ direct' = [direct EXCEPT !["vote"] = @ \ {m}]
    /\ UNCHANGED <<interest, phase, delegating, weight, calls>>

UpdateMembership(m) ==
    /\ Change
    /\ \/ m \in membership /\ membership' = membership \ {m}
       \/ m \in privileged \ membership /\ membership' = membership \cup {m}
    /\ UNCHANGED <<delegation, privileged, interest>>

UpdateInterest(m) ==
    /\ Change /\ m \in privileged /\ phase = "debate"
    /\ interest' = IF m \in interest THEN interest \ {m} ELSE interest \cup {m}
    /\ UNCHANGED <<delegation, privileged, membership>>

UpdateVote(m) ==
    /\ job = Null /\ phase = "voting" /\ m \in privileged
    /\ direct' = [direct EXCEPT !["vote"] = IF m \in @ THEN @ \ {m} ELSE @ \cup {m}]
    /\ UNCHANGED <<tables, phase, delegating, weight, calls, changes>>

-----------------------------------------------------------------------------
Init ==
    /\ delegation \in Tables
    /\ privileged \in SUBSET Member
    /\ membership \in SUBSET Member
    /\ interest \in SUBSET Member
    /\ phase = "debate"
    /\ direct = [k \in Kind |-> {}]
    /\ delegating = [k \in Kind |-> NoRows]
    /\ weight = [k \in Kind |-> [m \in Member |-> 0]]
    /\ job = Null /\ todo = {} /\ stack = <<>>
    /\ changes = 0

Count ==
    \/ CreateInterestSnapshot \/ SetSnapshotEvent \/ VotingClosed
    \/ NextDirect \/ PassOver \/ AddDelegation \/ Return

Next ==
    \/ CreatePopulationSnapshot \/ CloseVoting \/ Count
    \/ \E m \in Member : \/ UpdateDelegation(m) \/ DeleteDelegation(m)
                         \/ ChangePrivilege(m) \/ DeleteMember(m) \/ UpdateMembership(m)
                         \/ UpdateInterest(m) \/ UpdateVote(m)

Spec == Init /\ [][Next]_vars

-----------------------------------------------------------------------------
(* Properties.                                                             *)

CallType == [member : Member, rows : SUBSET DelegationRow, weight : Nat]

\* Types of the variables.
TypeOK ==
    /\ delegation \in SUBSET DelegationRow /\ Allowed(delegation)
    /\ privileged \in SUBSET Member
    /\ membership \in SUBSET Member
    /\ interest \in SUBSET Member
    /\ phase \in {"debate", "voting", "counting"}
    /\ direct \in [Kind -> SUBSET Member]
    /\ delegating \in [Kind -> [Member -> Seq(Member)]]
    /\ weight \in [Kind -> [Member -> Nat]]
    /\ job \in Kind \cup {Null}
    /\ todo \in SUBSET Member
    /\ stack \in Seq(CallType)
    /\ job = Null => stack = <<>>
    /\ changes \in Nat

\* Whom m's vote is handed to: the most specific delegation decides.
Trustee(m) ==
    LET rows == IF Own(m, "issue") # {} THEN Own(m, "issue")
                ELSE IF Own(m, "area") # {} THEN Own(m, "area") ELSE Own(m, "unit")
    IN  IF m \notin privileged \/ rows = {} THEN Null
        ELSE CHOOSE t \in Member \cup {Null} : \E r \in rows : r.trustee = t

\* Who acts for each member: the first direct member on the way from trustee to
\* trustee; Null if the way ends, or never does.
Carrier(kind) ==
    LET after[n \in 0 .. Cardinality(Member)] ==
          [m \in Member |->
              IF m \in direct[kind] THEN m
              ELSE IF n = 0 \/ Trustee(m) = Null THEN Null
              ELSE after[n - 1][Trustee(m)]]
    IN  after[Cardinality(Member)]

Counted(kind) == job = kind /\ LoopDone

\* Every vote counts exactly once, with the first direct member of its chain,
\* whatever the order of the rows, the cycles, and what was counted before.
EveryoneCountedOnce ==
    \A kind \in Kind : Counted(kind) =>
        \A d \in direct[kind] :
            weight[kind][d] = Cardinality({m \in Member : Carrier(kind)[m] = d})

\* "Chain of members who act as delegates; last entry referes to" a direct
\* member (comments on delegate_member_ids): the chain follows the delegations,
\* and the intermediate weights add up along it.
ChainsAreDelegations ==
    \A kind \in Kind : Counted(kind) =>
        LET IsChain(m, s) ==
                /\ s[1] = Trustee(m)
                /\ s[Len(s)] \in direct[kind]
                /\ \A i \in 1 .. Len(s) - 1 :
                      s[i] \notin direct[kind] /\ Trustee(s[i]) = s[i + 1]
            Behind(m) == {j \in Member :
                            \E i \in DOMAIN delegating[kind][j] : delegating[kind][j][i] = m}
        IN  \A m \in Member :
              /\ delegating[kind][m] # <<>> <=>
                    m \notin direct[kind] /\ Carrier(kind)[m] # Null
              /\ delegating[kind][m] # <<>> =>
                    /\ IsChain(m, delegating[kind][m])
                    /\ weight[kind][m] = 1 + Cardinality(Behind(m))

\* Votes go where the delegations say, once, and the rows tell how.
VotesFollowDelegations == EveryoneCountedOnce /\ ChainsAreDelegations

\* Who is counted among those interested is counted in the population, so the
\* supporters of an initiative never outnumber the population its quorum
\* refers to.
CountedIn(kind) == direct[kind] \cup {m \in Member : delegating[kind][m] # <<>>}

InterestWithinPopulation ==
    Counted("interest") => CountedIn("interest") \subseteq CountedIn("population")

\* No chain of calls meets a member twice: cycles of delegations do not recurse
\* without end.
RecursionIsBounded ==
    \A i, j \in 1 .. Depth : i # j => stack[i].member # stack[j].member

\* What is counted, and how deep the counting recurses, is bounded.
CountsAreBounded == InterestWithinPopulation /\ RecursionIsBounded

=============================================================================
