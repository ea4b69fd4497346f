------------------------ MODULE VoteDelegation_proofs ------------------------
(***************************************************************************)
(* For any number of members and any delegations: the types are right, the *)
(* recursion over delegations never enters a cycle, everybody who is       *)
(* counted as interested is counted in the population, and every vote      *)
(* counts once, with the direct member whom the delegations lead to.       *)
(***************************************************************************)
EXTENDS VoteDelegation, SequenceLemmas

(* Who waits in the outer loop has a row, and so has everybody on the stack. *)
VisitedHaveRows ==
    /\ job # Null => todo \subseteq direct[job]
    /\ \A i \in 1 .. Depth : stack[i].member \in CountedIn(job)

(* What the loops have still to do.  The trusters of everybody who has a    *)
(* row have one, too, unless the member waits in the outer loop, or the     *)
(* delegation in the loop of a call.                                       *)
OnStack(m) == \E i \in 1 .. Depth : stack[i].member = m

Followed(kind, m) ==
    \A r \in issue_delegation : r.trustee = m => r.truster \in CountedIn(kind)

EveryRowIsFollowed ==
    job # Null => \A m \in CountedIn(job) : m \in todo \/ OnStack(m) \/ Followed(job, m)

LoopsAreComplete ==
    \A i \in 1 .. Depth : \A r \in issue_delegation :
        r.trustee = stack[i].member => r \in stack[i].rows \/ r.truster \in CountedIn(job)

LoopsAreSound ==
    \A i \in 1 .. Depth : \A r \in stack[i].rows :
        r \in issue_delegation /\ r.trustee = stack[i].member

LoopInv == VisitedHaveRows /\ RecursionIsBounded /\ LoopsAreComplete /\ LoopsAreSound

(* While those interested are counted, the population is complete.          *)
PopulationComplete ==
    /\ job = "population" => direct["population"] = Population
    /\ job = "interest" =>
        /\ \A m \in CountedIn("population") : Followed("population", m)
        /\ CountedIn("interest") \subseteq CountedIn("population")

IInv == TypeOK /\ LoopInv /\ EveryRowIsFollowed /\ PopulationComplete

-----------------------------------------------------------------------------
USE DEF Kind

LEMMA ViewTyped ==
  ASSUME TypeOK
  PROVE  \A r \in issue_delegation : r \in DelegationRow /\ r.truster \in Member
BY DEF TypeOK, issue_delegation, DelegationRow

LEMMA CallTyped ==
  ASSUME TypeOK, NEW m \in Member
  PROVE  /\ Call(m) \in CallType
         /\ Call(m).member = m
         /\ Call(m).rows = {r \in issue_delegation : r.trustee = m}
BY ViewTyped DEF Call, CallType

LEMMA TopTyped ==
  ASSUME TypeOK, stack # <<>>
  PROVE  /\ Depth \in Nat /\ Depth >= 1 /\ Top \in CallType /\ Top = stack[Depth]
         /\ \A i \in 1 .. Depth : stack[i] \in CallType
         /\ job \in Kind
BY DEF TypeOK, Depth, Top

LEMMA ChainTyped ==
  ASSUME TypeOK, stack # <<>>
  PROVE  Chain \in Seq(Member) /\ Chain # <<>>
<1>1. Depth \in Nat /\ Depth >= 1 /\ \A i \in 1 .. Depth : stack[i] \in CallType
  BY TopTyped
<1>2. \A i \in 1 .. Depth : Depth + 1 - i \in 1 .. Depth
  BY <1>1
<1>3. Chain \in [1 .. Depth -> Member]
  BY <1>1, <1>2 DEF Chain, CallType
<1>4. Chain \in Seq(Member) /\ Len(Chain) = Depth
  BY <1>1, <1>3
<1> QED BY <1>1, <1>4

LEMMA ResetTyped ==
  /\ NoRows \in [Member -> Seq(Member)]
  /\ [m \in Member |-> 0] \in [Member -> Nat]
  /\ \A m \in Member : NoRows[m] = <<>>
<1>1. <<>> \in Seq(Member)
  OBVIOUS
<1> QED BY <1>1 DEF NoRows

-----------------------------------------------------------------------------
(* What the steps of a count do to the stack.                               *)
LEMMA RowTaken ==
  ASSUME NEW c \in CallType, NEW r
  PROVE  LET d == [c EXCEPT !.rows = @ \ {r}]
         IN  d \in CallType /\ d.member = c.member /\ d.rows = c.rows \ {r}
BY DEF CallType

LEMMA SumAdded ==
  ASSUME NEW c \in CallType, NEW n \in Nat
  PROVE  LET d == [c EXCEPT !.weight = @ + 1 + n]
         IN  d \in CallType /\ d.member = c.member /\ d.rows = c.rows
BY DEF CallType

(* The calls that remain are for the same members, and no row is lost but   *)
(* the one the loop looks at.                                              *)
LEMMA LoopAdvances ==
  ASSUME TypeOK, stack # <<>>, NEW r \in Top.rows
  PROVE  /\ Visited(r) \in Seq(CallType) /\ Len(Visited(r)) = Depth
         /\ \A i \in 1 .. Depth : Visited(r)[i].member = stack[i].member
         /\ \A i \in 1 .. Depth : i # Depth => Visited(r)[i].rows = stack[i].rows
         /\ Visited(r)[Depth].rows = Top.rows \ {r}
<1>1. stack \in Seq(CallType) /\ Depth \in 1 .. Len(stack) /\ Top = stack[Depth]
  BY TopTyped DEF TypeOK, Depth
<1> DEFINE call == [stack[Depth] EXCEPT !.rows = @ \ {r}]
<1>2. stack[Depth] \in CallType
  BY TopTyped
<1>3. call \in CallType /\ call.member = stack[Depth].member /\ call.rows = Top.rows \ {r}
  BY <1>1, <1>2, RowTaken
<1>4. Visited(r) = [stack EXCEPT ![Depth] = call]
  BY DEF Visited
<1> HIDE DEF call
<1>5. /\ Visited(r) \in Seq(CallType) /\ Len(Visited(r)) = Len(stack)
      /\ \A i \in 1 .. Len(stack) : Visited(r)[i] = IF i = Depth THEN call ELSE stack[i]
  BY <1>1, <1>3, <1>4, ExceptSeq
<1> QED BY <1>1, <1>3, <1>5 DEF Depth

LEMMA PassOverStack ==
  ASSUME TypeOK, PassOver
  PROVE  \E r \in Top.rows :
            /\ r.truster \in CountedIn(job)
            /\ stack' \in Seq(CallType) /\ Len(stack') = Depth
            /\ \A i \in 1 .. Depth : stack'[i].member = stack[i].member
            /\ \A i \in 1 .. Depth : i # Depth => stack'[i].rows = stack[i].rows
            /\ stack'[Depth].rows = Top.rows \ {r}
<1>1. PICK r \in Top.rows :
        HasRow(r.truster) /\ stack' = Visited(r)
  BY DEF PassOver
<1>2. r.truster \in CountedIn(job)
  <2>1. job \in Kind /\ Top \in CallType
    BY TopTyped DEF PassOver
  <2>2. r.truster \in Member
    BY <2>1 DEF CallType, DelegationRow
  <2> QED BY <1>1, <2>1, <2>2 DEF HasRow, CountedIn
<1>3. stack # <<>>
  BY DEF PassOver
<1> WITNESS r \in Top.rows
<1> QED BY <1>1, <1>2, <1>3, LoopAdvances

(* A member without a row gets one, and a call.                             *)
LEMMA AddDelegationStack ==
  ASSUME TypeOK, AddDelegation
  PROVE  \E r \in Top.rows :
            /\ r.truster \in Member /\ r.truster \notin CountedIn(job)
            /\ delegating' \in [Kind -> [Member -> Seq(Member)]]
            /\ CountedIn(job)' = CountedIn(job) \cup {r.truster}
            /\ \A k \in Kind : k # job => delegating'[k] = delegating[k]
            /\ stack' \in Seq(CallType) /\ Len(stack') = Depth + 1
            /\ \A i \in 1 .. Depth : stack'[i].member = stack[i].member
            /\ \A i \in 1 .. Depth : i # Depth => stack'[i].rows = stack[i].rows
            /\ stack'[Depth].rows = Top.rows \ {r}
            /\ stack'[Depth + 1].member = r.truster
            /\ stack'[Depth + 1].rows = {o \in issue_delegation : o.trustee = r.truster}
<1>1. PICK r \in Top.rows :
        /\ ~HasRow(r.truster)
        /\ delegating' = [delegating EXCEPT ![job][r.truster] = Chain]
        /\ stack' = Append(Visited(r), Call(r.truster))
  BY DEF AddDelegation
<1>2. job \in Kind /\ Top \in CallType /\ Depth \in Nat /\ Depth >= 1 /\ stack # <<>>
  BY TopTyped DEF AddDelegation
<1>3. r.truster \in Member
  BY <1>2 DEF CallType, DelegationRow
<1>4. /\ Call(r.truster) \in CallType /\ Call(r.truster).member = r.truster
      /\ Call(r.truster).rows = {o \in issue_delegation : o.trustee = r.truster}
  BY <1>3, CallTyped
<1>5. /\ Visited(r) \in Seq(CallType) /\ Len(Visited(r)) = Depth
      /\ \A i \in 1 .. Depth : Visited(r)[i].member = stack[i].member
      /\ \A i \in 1 .. Depth : i # Depth => Visited(r)[i].rows = stack[i].rows
      /\ Visited(r)[Depth].rows = Top.rows \ {r}
  BY <1>2, LoopAdvances
<1>6. /\ stack' \in Seq(CallType) /\ Len(stack') = Depth + 1
      /\ \A i \in 1 .. Depth : stack'[i] = Visited(r)[i]
      /\ stack'[Depth + 1] = Call(r.truster)
  BY <1>1, <1>2, <1>4, <1>5
<1>7. Chain \in Seq(Member) /\ Chain # <<>>
  BY <1>2, ChainTyped
<1>8. delegating \in [Kind -> [Member -> Seq(Member)]]
  BY DEF TypeOK
<1> DEFINE rows == [delegating[job] EXCEPT ![r.truster] = Chain]
<1>9. rows \in [Member -> Seq(Member)]
  BY <1>2, <1>7, <1>8
<1>10. \A m \in Member : rows[m] = IF m = r.truster THEN Chain ELSE delegating[job][m]
  BY <1>2, <1>3, <1>8
<1>11. delegating' = [delegating EXCEPT ![job] = rows]
  BY <1>1
<1> HIDE DEF rows
<1>12. /\ delegating' \in [Kind -> [Member -> Seq(Member)]]
       /\ delegating'[job] = rows
       /\ \A k \in Kind : k # job => delegating'[k] = delegating[k]
  BY <1>2, <1>8, <1>9, <1>11
<1>13. direct' = direct /\ job' = job
  BY DEF AddDelegation
<1>14. CountedIn(job)' = direct[job] \cup {m \in Member : rows[m] # <<>>}
  BY <1>12, <1>13 DEF CountedIn
<1>15. CountedIn(job)' = CountedIn(job) \cup {r.truster}
  BY <1>3, <1>7, <1>10, <1>14 DEF CountedIn
<1>16. r.truster \notin CountedIn(job)
  BY <1>1, <1>3 DEF HasRow, CountedIn
<1> WITNESS r \in Top.rows
<1>17. \A i \in 1 .. Depth : stack'[i].member = stack[i].member
  BY <1>5, <1>6
<1>18. /\ \A i \in 1 .. Depth : i # Depth => stack'[i].rows = stack[i].rows
       /\ stack'[Depth].rows = Top.rows \ {r}
  BY <1>2, <1>5, <1>6
<1> QED BY <1>3, <1>4, <1>6, <1>12, <1>15, <1>16, <1>17, <1>18

(* The innermost call is gone, and it had visited all its rows.             *)
LEMMA ReturnStack ==
  ASSUME TypeOK, Return
  PROVE  /\ weight' \in [Kind -> [Member -> Nat]]
         /\ Top.rows = {}
         /\ stack' \in Seq(CallType) /\ Len(stack') = Depth - 1
         /\ \A i \in 1 .. Depth - 1 :
              stack'[i].member = stack[i].member /\ stack'[i].rows = stack[i].rows
<1>1. /\ job \in Kind /\ Top \in CallType /\ Depth \in Nat /\ Depth >= 1
      /\ \A i \in 1 .. Depth : stack[i] \in CallType
  BY TopTyped DEF Return
<1>2. Top.member \in Member /\ Top.weight \in Nat
  BY <1>1 DEF CallType
<1>3. weight' = [weight EXCEPT ![job][Top.member] = 1 + Top.weight]
  BY DEF Return
<1>4. weight' \in [Kind -> [Member -> Nat]]
  BY <1>1, <1>2, <1>3 DEF TypeOK
<1> DEFINE call(i) == [stack[i] EXCEPT !.weight = @ + 1 + Top.weight]
           last(i) == IF i = Depth - 1 THEN call(i) ELSE stack[i]
<1>5. \A i \in 1 .. Depth - 1 :
        call(i) \in CallType /\ call(i).member = stack[i].member /\ call(i).rows = stack[i].rows
  BY <1>1, <1>2, SumAdded
<1>6. stack' = [i \in 1 .. Depth - 1 |-> last(i)]
  BY DEF Return
<1> HIDE DEF call
<1>7. \A i \in 1 .. Depth - 1 :
        last(i) \in CallType /\ last(i).member = stack[i].member /\ last(i).rows = stack[i].rows
  BY <1>1, <1>5
<1> HIDE DEF last
<1>8. stack' \in [1 .. Depth - 1 -> CallType] /\ Depth - 1 \in Nat
  BY <1>1, <1>6, <1>7
<1>9. stack' \in Seq(CallType) /\ Len(stack') = Depth - 1
  BY <1>8
<1>10. \A i \in 1 .. Depth - 1 : stack'[i] = last(i)
  BY <1>6
<1> QED BY <1>4, <1>7, <1>9, <1>10 DEF Return

-----------------------------------------------------------------------------
(* What each action does to the parts of the invariant.                     *)
LEMMA SameTables ==
  ASSUME UNCHANGED tables
  PROVE  issue_delegation' = issue_delegation /\ Population' = Population
BY DEF tables, issue_delegation, Population

(* Nothing is claimed while nothing is counted.                             *)
LEMMA Idle ==
  ASSUME job' = Null, stack' = <<>>
  PROVE  (LoopInv /\ EveryRowIsFollowed /\ PopulationComplete)'
<1>1. Depth' = 0
  BY DEF Depth
<1>2. (VisitedHaveRows /\ RecursionIsBounded /\ LoopsAreComplete /\ LoopsAreSound)'
  BY <1>1 DEF VisitedHaveRows, RecursionIsBounded, LoopsAreComplete, LoopsAreSound
<1>3. (EveryRowIsFollowed /\ PopulationComplete)'
  BY MemberAssumption DEF EveryRowIsFollowed, PopulationComplete
<1> QED BY <1>2, <1>3 DEF LoopInv

(* A count begins with a row for each given member, who waits.              *)
LEMMA BeginCounts ==
  ASSUME TypeOK, NEW kind \in Kind, NEW members \in SUBSET Member,
         Begin(kind, members), phase' \in {"debate", "voting", "counting"}
  PROVE  /\ (TypeOK /\ LoopInv /\ EveryRowIsFollowed)'
         /\ direct'[kind] = members /\ CountedIn(kind)' = members
         /\ \A k \in Kind : k # kind => CountedIn(k)' = CountedIn(k)
         /\ issue_delegation' = issue_delegation /\ Population' = Population
<1>1. /\ direct' = [direct EXCEPT ![kind] = members]
      /\ delegating' = [delegating EXCEPT ![kind] = NoRows]
      /\ weight' = [weight EXCEPT ![kind] = [m \in Member |-> 0]]
      /\ job' = kind /\ todo' = members /\ stack' = <<>>
      /\ UNCHANGED <<delegation, privileged, membership, interest, changes>>
  BY DEF Begin, ResetRows, tables
<1>2. /\ direct \in [Kind -> SUBSET Member]
      /\ delegating \in [Kind -> [Member -> Seq(Member)]]
      /\ weight \in [Kind -> [Member -> Nat]]
  BY DEF TypeOK
<1> HIDE DEF Kind
<1>3. direct' \in [Kind -> SUBSET Member] /\ direct'[kind] = members
  BY <1>1, <1>2
<1>4. delegating' \in [Kind -> [Member -> Seq(Member)]] /\ delegating'[kind] = NoRows
  BY <1>1, <1>2, ResetTyped
<1>5. weight' \in [Kind -> [Member -> Nat]]
  BY <1>1, <1>2, ResetTyped
<1>6. \A k \in Kind : k # kind => direct'[k] = direct[k] /\ delegating'[k] = delegating[k]
  BY <1>1, <1>2
<1>7. CountedIn(kind)' = members
  BY <1>3, <1>4, ResetTyped DEF CountedIn
<1>8. \A k \in Kind : k # kind => CountedIn(k)' = CountedIn(k)
  BY <1>6 DEF CountedIn
<1>9. stack' \in Seq(CallType) /\ Depth' = 0
  BY <1>1 DEF Depth
<1>10. Allowed(delegation)'
  BY <1>1 DEF TypeOK, Allowed
<1>11. TypeOK'
  BY <1>1, <1>3, <1>4, <1>5, <1>9, <1>10, MemberAssumption DEF TypeOK
<1>12. (VisitedHaveRows /\ RecursionIsBounded /\ LoopsAreComplete /\ LoopsAreSound)'
  BY <1>1, <1>3, <1>9
  DEF VisitedHaveRows, RecursionIsBounded, LoopsAreComplete, LoopsAreSound
<1>13. EveryRowIsFollowed'
  BY <1>1, <1>7 DEF EveryRowIsFollowed
<1>14. issue_delegation' = issue_delegation /\ Population' = Population
  BY <1>1, SameTables DEF tables
<1> QED BY <1>3, <1>7, <1>8, <1>11, <1>12, <1>13, <1>14 DEF LoopInv

LEMMA PopulationBegins ==
  ASSUME IInv, CreatePopulationSnapshot
  PROVE  IInv'
<1>1. Population \in SUBSET Member
  BY DEF IInv, TypeOK, Population
<1>2. Begin("population", Population) /\ phase' = phase /\ job' = "population"
  BY DEF CreatePopulationSnapshot, Begin
<1>3. phase' \in {"debate", "voting", "counting"} /\ TypeOK
  BY <1>2 DEF IInv, TypeOK
<1>4. /\ (TypeOK /\ LoopInv /\ EveryRowIsFollowed)'
      /\ direct'["population"] = Population /\ Population' = Population
  BY <1>1, <1>2, <1>3, BeginCounts
<1>5. PopulationComplete'
  BY <1>2, <1>4 DEF PopulationComplete
<1> QED BY <1>4, <1>5 DEF IInv

(* The loops over the population have ended: nobody is waiting, so every    *)
(* row is followed.                                                        *)
LEMMA InterestBegins ==
  ASSUME IInv, CreateInterestSnapshot
  PROVE  IInv'
<1> DEFINE members == privileged \cap interest
<1>1. members \in SUBSET Member /\ members \subseteq Population
  BY DEF IInv, TypeOK, Population
<1>2. Begin("interest", members) /\ phase' = phase /\ job' = "interest"
  BY DEF CreateInterestSnapshot, Begin
<1>3. phase' \in {"debate", "voting", "counting"} /\ TypeOK
  BY <1>2 DEF IInv, TypeOK
<1> HIDE DEF members
<1>4. /\ (TypeOK /\ LoopInv /\ EveryRowIsFollowed)'
      /\ CountedIn("interest")' = members
      /\ CountedIn("population")' = CountedIn("population")
      /\ issue_delegation' = issue_delegation
  BY <1>1, <1>2, <1>3, BeginCounts
<1>5. job = "population" /\ todo = {} /\ Depth = 0
  BY DEF CreateInterestSnapshot, LoopDone, Depth
<1>6. \A m \in CountedIn("population") : Followed("population", m)
  BY <1>5, MemberAssumption DEF IInv, EveryRowIsFollowed, OnStack
<1>7. Population \subseteq CountedIn("population")
  BY <1>5 DEF IInv, PopulationComplete, CountedIn
<1>8. \A m \in CountedIn("population")' : Followed("population", m)'
  BY <1>4, <1>6 DEF Followed
<1>9. PopulationComplete'
  BY <1>1, <1>2, <1>4, <1>7, <1>8 DEF PopulationComplete
<1> QED BY <1>4, <1>9 DEF IInv

LEMMA VotesBegin ==
  ASSUME IInv, CloseVoting
  PROVE  IInv'
<1> DEFINE members == direct["vote"] \cap privileged
<1>1. members \in SUBSET Member
  BY DEF IInv, TypeOK
<1>2. Begin("vote", members) /\ phase' = "counting" /\ job' = "vote"
  BY DEF CloseVoting, Begin
<1> HIDE DEF members
<1>3. (TypeOK /\ LoopInv /\ EveryRowIsFollowed)'
  BY <1>1, <1>2, BeginCounts DEF IInv
<1>4. PopulationComplete'
  BY <1>2 DEF PopulationComplete
<1> QED BY <1>3, <1>4 DEF IInv

-----------------------------------------------------------------------------
(* The steps of a loop change neither the tables nor who is counted, but by *)
(* AddDelegation.                                                          *)
LEMMA SameCounts ==
  ASSUME UNCHANGED <<tables, phase, direct, delegating, job, changes>>
  PROVE  /\ \A k \in Kind \cup {job} : CountedIn(k)' = CountedIn(k)
         /\ issue_delegation' = issue_delegation /\ Population' = Population
         /\ PopulationComplete => PopulationComplete'
<1>1. issue_delegation' = issue_delegation /\ Population' = Population
  BY SameTables
<1>2. \A k \in Kind \cup {job} : CountedIn(k)' = CountedIn(k)
  BY DEF CountedIn
<1>3. PopulationComplete => PopulationComplete'
  BY <1>1, <1>2 DEF PopulationComplete, Followed
<1> QED BY <1>1, <1>2, <1>3

LEMMA NextDirectStep ==
  ASSUME IInv, NextDirect
  PROVE  IInv'
<1>1. PICK m \in todo : todo' = todo \ {m} /\ stack' = <<Call(m)>>
  BY DEF NextDirect
<1>2. /\ job # Null /\ stack = <<>>
      /\ UNCHANGED <<tables, phase, direct, delegating, weight, job, changes>>
  BY DEF NextDirect, counts
<1>3. TypeOK /\ m \in Member /\ m \in direct[job] /\ m \in CountedIn(job)
  BY <1>2 DEF IInv, LoopInv, VisitedHaveRows, TypeOK, CountedIn
<1>4. /\ Call(m) \in CallType /\ Call(m).member = m
      /\ Call(m).rows = {r \in issue_delegation : r.trustee = m}
  BY <1>3, CallTyped
<1>5. stack' \in Seq(CallType) /\ Depth' = 1 /\ stack'[1] = Call(m) /\ Depth = 0
  BY <1>1, <1>2, <1>4 DEF Depth
<1>6. /\ CountedIn(job)' = CountedIn(job) /\ issue_delegation' = issue_delegation
      /\ PopulationComplete'
  BY <1>2, SameCounts DEF IInv
<1>7. TypeOK'
  BY <1>1, <1>2, <1>3, <1>5 DEF TypeOK, Allowed, tables
<1>8. VisitedHaveRows'
  BY <1>1, <1>2, <1>3, <1>4, <1>5, <1>6 DEF IInv, LoopInv, VisitedHaveRows
<1>9. RecursionIsBounded'
  BY <1>5 DEF RecursionIsBounded
<1>10. LoopsAreComplete' /\ LoopsAreSound'
  BY <1>4, <1>5, <1>6 DEF LoopsAreComplete, LoopsAreSound
<1>11. EveryRowIsFollowed'
  <2> SUFFICES ASSUME NEW n \in CountedIn(job)'
               PROVE  n \in todo' \/ OnStack(n)' \/ Followed(job, n)'
    BY DEF EveryRowIsFollowed
  <2>1. n \in todo \/ Followed(job, n)
    BY <1>2, <1>5, <1>6 DEF IInv, EveryRowIsFollowed, OnStack
  <2>2. CASE n \in todo
    BY <2>2, <1>1, <1>4, <1>5 DEF OnStack
  <2>3. CASE Followed(job, n)
    BY <2>3, <1>2, <1>6 DEF Followed
  <2> QED BY <2>1, <2>2, <2>3
<1> QED BY <1>6, <1>7, <1>8, <1>9, <1>10, <1>11 DEF IInv, LoopInv

LEMMA PassOverStep ==
  ASSUME IInv, PassOver
  PROVE  IInv'
<1>1. TypeOK /\ LoopInv /\ EveryRowIsFollowed /\ PopulationComplete
  BY DEF IInv
<1>2. PICK r \in Top.rows :
        /\ r.truster \in CountedIn(job)
        /\ stack' \in Seq(CallType) /\ Len(stack') = Depth
        /\ \A i \in 1 .. Depth : stack'[i].member = stack[i].member
        /\ \A i \in 1 .. Depth : i # Depth => stack'[i].rows = stack[i].rows
        /\ stack'[Depth].rows = Top.rows \ {r}
  BY <1>1, PassOverStack
<1>3. UNCHANGED <<tables, phase, direct, delegating, weight, job, todo, changes>>
  BY DEF PassOver, counts
<1>4. /\ Depth \in Nat /\ Depth >= 1 /\ job \in Kind /\ job # Null
      /\ Top.rows = stack[Depth].rows /\ Depth' = Depth
  BY <1>1, <1>2, TopTyped, MemberAssumption DEF PassOver, Depth
<1>5. /\ CountedIn(job)' = CountedIn(job) /\ issue_delegation' = issue_delegation
      /\ PopulationComplete'
  BY <1>1, <1>3, SameCounts
<1>6. TypeOK'
  BY <1>1, <1>2, <1>3, <1>4 DEF TypeOK, Allowed, tables
<1>7. VisitedHaveRows' /\ RecursionIsBounded'
  BY <1>1, <1>2, <1>3, <1>4, <1>5 DEF LoopInv, VisitedHaveRows, RecursionIsBounded
<1>8. LoopsAreComplete'
  BY <1>1, <1>2, <1>3, <1>4, <1>5 DEF LoopInv, LoopsAreComplete
<1>9. LoopsAreSound'
  BY <1>1, <1>2, <1>4, <1>5 DEF LoopInv, LoopsAreSound
<1>10. EveryRowIsFollowed'
  BY <1>1, <1>2, <1>3, <1>4, <1>5 DEF EveryRowIsFollowed, OnStack, Followed
<1> QED BY <1>5, <1>6, <1>7, <1>8, <1>9, <1>10 DEF IInv, LoopInv

LEMMA ReturnStep ==
  ASSUME IInv, Return
  PROVE  IInv'
<1>1. TypeOK /\ LoopInv /\ EveryRowIsFollowed /\ PopulationComplete
  BY DEF IInv
<1>2. /\ weight' \in [Kind -> [Member -> Nat]]
      /\ Top.rows = {}
      /\ stack' \in Seq(CallType) /\ Len(stack') = Depth - 1
      /\ \A i \in 1 .. Depth - 1 :
           stack'[i].member = stack[i].member /\ stack'[i].rows = stack[i].rows
  BY <1>1, ReturnStack
<1>3. UNCHANGED <<tables, phase, direct, delegating, job, todo, changes>>
  BY DEF Return
<1>4. /\ Depth \in Nat /\ Depth >= 1 /\ job \in Kind /\ job # Null
      /\ Top = stack[Depth] /\ Depth' = Depth - 1
  BY <1>1, <1>2, TopTyped, MemberAssumption DEF Return, Depth
<1>5. /\ CountedIn(job)' = CountedIn(job) /\ issue_delegation' = issue_delegation
      /\ PopulationComplete'
  BY <1>1, <1>3, SameCounts
<1>6. TypeOK'
  BY <1>1, <1>2, <1>3, <1>4 DEF TypeOK, Allowed, tables
<1> DEFINE left == 1 .. Depth'
<1>0. \A i \in left : /\ i \in 1 .. Depth /\ stack'[i].member = stack[i].member
                      /\ stack'[i].rows = stack[i].rows
  BY <1>2, <1>4
<1> HIDE DEF left
<1>7. VisitedHaveRows' /\ RecursionIsBounded'
  <2>1. \A i \in left : stack'[i].member \in CountedIn(job)'
    BY <1>0, <1>1, <1>5 DEF LoopInv, VisitedHaveRows
  <2>2. \A i, j \in left : i # j => stack'[i].member # stack'[j].member
    BY <1>0, <1>1 DEF LoopInv, RecursionIsBounded
  <2> QED BY <2>1, <2>2, <1>1, <1>3
          DEF left, LoopInv, VisitedHaveRows, RecursionIsBounded
<1>8. LoopsAreComplete' /\ LoopsAreSound'
  <2>1. \A i \in left : \A r \in issue_delegation' :
           r.trustee = stack'[i].member => r \in stack'[i].rows \/ r.truster \in CountedIn(job)'
    BY <1>0, <1>1, <1>5 DEF LoopInv, LoopsAreComplete
  <2>2. \A i \in left : \A r \in stack'[i].rows :
           r \in issue_delegation' /\ r.trustee = stack'[i].member
    BY <1>0, <1>1, <1>5 DEF LoopInv, LoopsAreSound
  <2> QED BY <2>1, <2>2 DEF left, LoopsAreComplete, LoopsAreSound
<1>9. Followed(job, Top.member)
  BY <1>1, <1>2, <1>4 DEF LoopInv, LoopsAreComplete, Followed
<1>10. EveryRowIsFollowed'
  <2> SUFFICES ASSUME NEW n \in CountedIn(job)'
               PROVE  n \in todo' \/ OnStack(n)' \/ Followed(job, n)'
    BY DEF EveryRowIsFollowed
  <2>1. n \in todo \/ OnStack(n) \/ Followed(job, n)
    BY <1>1, <1>4, <1>5 DEF EveryRowIsFollowed
  <2>2. CASE OnStack(n)
    <3>1. PICK i \in 1 .. Depth : stack[i].member = n
      BY <2>2 DEF OnStack
    <3>2. CASE i = Depth
      BY <3>1, <3>2, <1>3, <1>4, <1>5, <1>9 DEF Followed
    <3>3. CASE i # Depth
      BY <3>1, <3>3, <1>2, <1>4 DEF OnStack
    <3> QED BY <3>2, <3>3
  <2>3. CASE Followed(job, n)
    BY <2>3, <1>3, <1>5 DEF Followed
  <2> QED BY <2>1, <2>2, <2>3, <1>3
<1> QED BY <1>5, <1>6, <1>7, <1>8, <1>10 DEF IInv, LoopInv

(* Who gets a call has had no row, so it is no call for a member met before. *)
LEMMA AddDelegationStep ==
  ASSUME IInv, AddDelegation
  PROVE  IInv'
<1>1. TypeOK /\ LoopInv /\ EveryRowIsFollowed /\ PopulationComplete
  BY DEF IInv
<1>2. PICK r \in Top.rows :
        /\ r.truster \in Member /\ r.truster \notin CountedIn(job)
        /\ delegating' \in [Kind -> [Member -> Seq(Member)]]
        /\ CountedIn(job)' = CountedIn(job) \cup {r.truster}
        /\ \A k \in Kind : k # job => delegating'[k] = delegating[k]
        /\ stack' \in Seq(CallType) /\ Len(stack') = Depth + 1
        /\ \A i \in 1 .. Depth : stack'[i].member = stack[i].member
        /\ \A i \in 1 .. Depth : i # Depth => stack'[i].rows = stack[i].rows
        /\ stack'[Depth].rows = Top.rows \ {r}
        /\ stack'[Depth + 1].member = r.truster
        /\ stack'[Depth + 1].rows = {o \in issue_delegation : o.trustee = r.truster}
  BY <1>1, AddDelegationStack
<1>3. UNCHANGED <<tables, phase, direct, weight, job, todo, changes>>
  BY DEF AddDelegation
<1>4. /\ Depth \in Nat /\ Depth >= 1 /\ job \in Kind /\ job # Null
      /\ Top = stack[Depth] /\ Depth' = Depth + 1
  BY <1>1, <1>2, TopTyped, MemberAssumption DEF AddDelegation, Depth
<1>5. issue_delegation' = issue_delegation /\ Population' = Population
  BY <1>3, SameTables
<1> DEFINE calls_before == 1 .. Depth
<1>6. \A i \in 1 .. Depth' : i \in calls_before \/ i = Depth + 1
  BY <1>4
<1>7. Depth \in calls_before /\ Depth + 1 \notin calls_before
  BY <1>4
<1>8. \A i \in calls_before :
        /\ stack'[i].member = stack[i].member
        /\ stack'[i].rows = IF i = Depth THEN stack[Depth].rows \ {r} ELSE stack[i].rows
  BY <1>2, <1>4
<1> HIDE DEF calls_before
<1>9. TypeOK'
  BY <1>1, <1>2, <1>3, <1>4 DEF TypeOK, Allowed, tables
<1>10. VisitedHaveRows'
  <2>1. \A i \in calls_before : stack'[i].member \in CountedIn(job)'
    BY <1>1, <1>2, <1>8 DEF calls_before, LoopInv, VisitedHaveRows
  <2>2. \A i \in 1 .. Depth' : stack'[i].member \in CountedIn(job)'
    BY <2>1, <1>2, <1>6
  <2> QED BY <2>2, <1>1, <1>3 DEF LoopInv, VisitedHaveRows
<1>11. RecursionIsBounded'
  <2>1. \A i, j \in calls_before : i # j => stack'[i].member # stack'[j].member
    BY <1>1, <1>8 DEF calls_before, LoopInv, RecursionIsBounded
  <2>2. \A i \in calls_before : stack'[i].member # r.truster
    BY <1>1, <1>2, <1>8 DEF calls_before, LoopInv, VisitedHaveRows
  <2>3. \A i, j \in 1 .. Depth' : i # j => stack'[i].member # stack'[j].member
    BY <2>1, <2>2, <1>2, <1>6
  <2> QED BY <2>3 DEF RecursionIsBounded
<1>12. LoopsAreComplete'
  <2> SUFFICES ASSUME NEW i \in 1 .. Depth', NEW o \in issue_delegation,
                      o.trustee = stack'[i].member
               PROVE  o \in stack'[i].rows \/ o.truster \in CountedIn(job)'
    BY <1>5 DEF LoopsAreComplete
  <2>1. CASE i = Depth + 1
    BY <2>1, <1>2
  <2>2. CASE i \in calls_before
    <3>1. o \in stack[i].rows \/ o.truster \in CountedIn(job)
      BY <2>2, <1>1, <1>8 DEF calls_before, LoopInv, LoopsAreComplete
    <3> QED BY <3>1, <2>2, <1>2, <1>8
  <2> QED BY <2>1, <2>2, <1>6
<1>13. LoopsAreSound'
  <2> SUFFICES ASSUME NEW i \in 1 .. Depth', NEW o \in stack'[i].rows
               PROVE  o \in issue_delegation /\ o.trustee = stack'[i].member
    BY <1>5 DEF LoopsAreSound
  <2>1. CASE i = Depth + 1
    BY <2>1, <1>2
  <2>2. CASE i \in calls_before
    BY <2>2, <1>1, <1>8 DEF calls_before, LoopInv, LoopsAreSound
  <2> QED BY <2>1, <2>2, <1>6
<1>14. EveryRowIsFollowed'
  <2> SUFFICES ASSUME NEW n \in CountedIn(job)'
               PROVE  n \in todo' \/ OnStack(n)' \/ Followed(job, n)'
    BY DEF EveryRowIsFollowed
  <2>1. CASE n = r.truster
    BY <2>1, <1>2, <1>4 DEF OnStack
  <2>2. CASE n \in CountedIn(job)
    <3>1. n \in todo \/ OnStack(n) \/ Followed(job, n)
      BY <2>2, <1>1, <1>4 DEF EveryRowIsFollowed
    <3>2. CASE OnStack(n)
      <4>1. PICK i \in 1 .. Depth : stack[i].member = n
        BY <3>2 DEF OnStack
      <4>2. i \in 1 .. Depth' /\ stack'[i].member = n
        BY <4>1, <1>2, <1>4
      <4> QED BY <4>2 DEF OnStack
    <3>3. CASE Followed(job, n)
      BY <3>3, <1>2, <1>3, <1>5 DEF Followed
    <3> QED BY <3>1, <3>2, <3>3, <1>3
  <2> QED BY <2>1, <2>2, <1>2
<1>15. PopulationComplete'
  <2>1. job' = "population" => direct'["population"] = Population'
    BY <1>1, <1>3, <1>5 DEF PopulationComplete
  <2>2. ASSUME job = "interest"
        PROVE  /\ \A m \in CountedIn("population")' : Followed("population", m)'
               /\ CountedIn("interest")' \subseteq CountedIn("population")'
    <3>1. CountedIn("population")' = CountedIn("population")
      BY <2>2, <1>2, <1>3 DEF CountedIn
    <3>2. \A m \in CountedIn("population")' : Followed("population", m)'
      BY <3>1, <2>2, <1>1, <1>5 DEF PopulationComplete, Followed
    <3>3. r \in issue_delegation /\ r.trustee = stack[Depth].member
      BY <1>1, <1>4, <1>2 DEF LoopInv, LoopsAreSound
    <3>4. stack[Depth].member \in CountedIn("population")
      BY <2>2, <1>1, <1>4 DEF LoopInv, VisitedHaveRows, PopulationComplete
    <3>5. r.truster \in CountedIn("population")
      BY <2>2, <3>3, <3>4, <1>1 DEF PopulationComplete, Followed
    <3>6. CountedIn("interest")' = CountedIn("interest") \cup {r.truster}
      BY <2>2, <1>2, <1>3 DEF CountedIn
    <3> QED BY <2>2, <3>1, <3>2, <3>5, <3>6, <1>1 DEF PopulationComplete
  <2> QED BY <2>1, <2>2, <1>3 DEF PopulationComplete
<1> QED BY <1>9, <1>10, <1>11, <1>12, <1>13, <1>14, <1>15 DEF IInv, LoopInv

-----------------------------------------------------------------------------
(* Between the counts.                                                      *)
LEMMA CountEnds ==
  ASSUME IInv, SetSnapshotEvent \/ VotingClosed
  PROVE  IInv'
<1>1. /\ TypeOK /\ job' = Null /\ stack' = <<>>
      /\ UNCHANGED <<tables, todo, changes>>
  BY DEF IInv, SetSnapshotEvent, VotingClosed, LoopDone
<1>2. /\ phase' \in {"debate", "voting", "counting"}
      /\ direct' \in [Kind -> SUBSET Member]
      /\ delegating' \in [Kind -> [Member -> Seq(Member)]]
      /\ weight' \in [Kind -> [Member -> Nat]]
  <2>1. CASE UNCHANGED <<phase, counts>>
    BY <2>1, <1>1 DEF counts, TypeOK
  <2>2. CASE /\ phase' = "voting"
             /\ direct' = [k \in Kind |-> {}]
             /\ delegating' = [k \in Kind |-> NoRows]
             /\ weight' = [k \in Kind |-> [m \in Member |-> 0]]
    BY <2>2, ResetTyped
  <2> QED BY <2>1, <2>2 DEF SetSnapshotEvent, VotingClosed
<1>3. stack' \in Seq(CallType)
  BY <1>1
<1>4. TypeOK'
  BY <1>1, <1>2, <1>3 DEF TypeOK, Allowed, tables
<1> QED BY <1>1, <1>4, Idle DEF IInv

(* What members change, they change while nothing is counted.               *)
LEMMA TablesChange ==
  ASSUME IInv, Change, delegation' \in SUBSET DelegationRow, Allowed(delegation)',
         privileged' \in SUBSET Member, membership' \in SUBSET Member,
         interest' \in SUBSET Member
  PROVE  IInv'
<1>1. TypeOK /\ job' = Null /\ stack' = <<>>
  BY DEF IInv, TypeOK, Change, calls
<1>2. TypeOK'
  BY <1>1 DEF TypeOK, Change, calls, counts
<1> QED BY <1>1, <1>2, Idle DEF IInv

(* Less of an allowed table is allowed.                                     *)
LEMMA AllowedSubset ==
  ASSUME TypeOK, NEW rows \in SUBSET delegation
  PROVE  rows \in SUBSET DelegationRow /\ Allowed(rows)
BY DEF TypeOK, Allowed

LEMMA UpdateDelegationStep ==
  ASSUME IInv, NEW m \in Member, UpdateDelegation(m)
  PROVE  IInv'
<1>1. PICK scope \in Scope, trustee \in (privileged \cup {Null}) \ {m} :
        /\ scope = "unit" => trustee # Null
        /\ delegation' = (delegation \ Own(m, scope)) \cup
                            {[truster |-> m, scope |-> scope, trustee |-> trustee]}
  BY DEF UpdateDelegation
<1> DEFINE row == [truster |-> m, scope |-> scope, trustee |-> trustee]
<1>2. /\ row \in DelegationRow
      /\ row.truster = m /\ row.scope = scope /\ row.trustee = trustee
  BY <1>1 DEF DelegationRow, IInv, TypeOK
<1> HIDE DEF row
<1>3. Allowed(delegation)
  BY DEF IInv, TypeOK
<1>4. delegation' \in SUBSET DelegationRow
  BY <1>1, <1>2 DEF IInv, TypeOK, row
<1>5. \A r \in delegation' : r = row \/ (r \in delegation /\ ~(r.truster = m /\ r.scope = scope))
  BY <1>1 DEF Own, row
<1>6. Allowed(delegation)'
  <2>1. \A r \in delegation' :
          r.truster # r.trustee /\ (r.scope = "unit" => r.trustee # Null)
    BY <1>1, <1>2, <1>3, <1>5 DEF Allowed
  <2>2. \A r, o \in delegation' : r.truster = o.truster /\ r.scope = o.scope => r = o
    BY <1>2, <1>3, <1>5 DEF Allowed
  <2> QED BY <2>1, <2>2 DEF Allowed
<1> QED BY <1>4, <1>6, TablesChange DEF UpdateDelegation, IInv, TypeOK

LEMMA OtherTablesStep ==
  ASSUME IInv, NEW m \in Member,
         DeleteDelegation(m) \/ ChangePrivilege(m) \/ UpdateMembership(m) \/ UpdateInterest(m)
  PROVE  IInv'
<1>1. delegation' \in SUBSET delegation /\ Change
  BY DEF DeleteDelegation, ChangePrivilege, UpdateMembership, UpdateInterest
<1>2. delegation' \in SUBSET DelegationRow /\ Allowed(delegation)'
  <2>1. TypeOK
    BY DEF IInv
  <2>2. delegation' \in SUBSET DelegationRow /\ Allowed(delegation')
    BY <1>1, <2>1, AllowedSubset
  <2> QED BY <2>2 DEF Allowed
<1>3. privileged \in SUBSET Member /\ membership \in SUBSET Member /\ interest \in SUBSET Member
  BY DEF IInv, TypeOK
<1>4. /\ privileged' \in SUBSET Member /\ membership' \in SUBSET Member
      /\ interest' \in SUBSET Member
  BY <1>3 DEF DeleteDelegation, ChangePrivilege, UpdateMembership, UpdateInterest
<1> QED BY <1>1, <1>2, <1>4, TablesChange

LEMMA VotersStep ==
  ASSUME IInv, NEW m \in Member, DeleteMember(m) \/ UpdateVote(m)
  PROVE  IInv'
<1>1. /\ TypeOK /\ job' = Null /\ stack' = <<>>
      /\ UNCHANGED <<interest, phase, delegating, weight, todo>>
  BY DEF IInv, TypeOK, DeleteMember, UpdateVote, calls, tables
<1>2. delegation' \in SUBSET delegation
  BY DEF DeleteMember, UpdateVote, tables
<1>3. delegation' \in SUBSET DelegationRow /\ Allowed(delegation')
  BY <1>1, <1>2, AllowedSubset
<1>4. Allowed(delegation)'
  BY <1>3 DEF Allowed
<1>5. direct \in [Kind -> SUBSET Member]
  BY <1>1 DEF TypeOK
<1>6. direct' \in [Kind -> SUBSET Member]
  <2>1. CASE direct' = [direct EXCEPT !["vote"] = @ \ {m}]
    BY <2>1, <1>5
  <2>2. CASE direct' = [direct EXCEPT !["vote"] = IF m \in @ THEN @ \ {m} ELSE @ \cup {m}]
    BY <2>2, <1>5
  <2> QED BY <2>1, <2>2 DEF DeleteMember, UpdateVote
<1>7. privileged' \in SUBSET Member /\ membership' \in SUBSET Member /\ changes' \in Nat
  BY <1>1 DEF TypeOK, DeleteMember, UpdateVote, tables
<1>8. TypeOK'
  BY <1>1, <1>3, <1>4, <1>6, <1>7 DEF TypeOK
<1> QED BY <1>1, <1>8, Idle DEF IInv

-----------------------------------------------------------------------------
LEMMA InitInvariant ==
  ASSUME Init
  PROVE  IInv
<1>1. delegation \in SUBSET DelegationRow /\ Allowed(delegation)
  BY TablesAssumption DEF Init
<1>2. job = Null /\ stack = <<>> /\ Depth = 0
  BY DEF Init, Depth
<1>3. TypeOK
  BY <1>1, <1>2, ResetTyped DEF Init, TypeOK
<1>4. VisitedHaveRows /\ RecursionIsBounded /\ LoopsAreComplete /\ LoopsAreSound
  BY <1>2 DEF VisitedHaveRows, RecursionIsBounded, LoopsAreComplete, LoopsAreSound
<1>5. EveryRowIsFollowed /\ PopulationComplete
  BY <1>2, MemberAssumption DEF EveryRowIsFollowed, PopulationComplete
<1> QED BY <1>3, <1>4, <1>5 DEF IInv, LoopInv

LEMMA StutterInvariant ==
  ASSUME IInv, UNCHANGED vars
  PROVE  IInv'
<1>1. UNCHANGED <<delegation, privileged, membership, interest, phase, direct,
                  delegating, weight, job, todo, stack, changes>>
  BY DEF vars
<1>2. issue_delegation' = issue_delegation /\ Population' = Population /\ Depth' = Depth
  BY <1>1, SameTables DEF tables, Depth
<1>3. \A k \in Kind \cup {job} : CountedIn(k)' = CountedIn(k)
  BY <1>1 DEF CountedIn
<1>4. TypeOK' /\ VisitedHaveRows' /\ RecursionIsBounded'
  BY <1>1, <1>2, <1>3
  DEF IInv, LoopInv, TypeOK, Allowed, VisitedHaveRows, RecursionIsBounded
<1>5. LoopsAreComplete' /\ LoopsAreSound'
  BY <1>1, <1>2, <1>3 DEF IInv, LoopInv, LoopsAreComplete, LoopsAreSound
<1>6. EveryRowIsFollowed' /\ PopulationComplete'
  BY <1>1, <1>2, <1>3
  DEF IInv, EveryRowIsFollowed, PopulationComplete, OnStack, Followed
<1> QED BY <1>4, <1>5, <1>6 DEF IInv, LoopInv

LEMMA NextInvariant ==
  ASSUME IInv, [Next]_vars
  PROVE  IInv'
<1>1. CASE CreatePopulationSnapshot
  BY <1>1, PopulationBegins
<1>2. CASE CloseVoting
  BY <1>2, VotesBegin
<1>3. CASE Count
  BY <1>3, InterestBegins, CountEnds, NextDirectStep, PassOverStep, AddDelegationStep,
     ReturnStep DEF Count
<1>4. ASSUME NEW m \in Member,
             \/ UpdateDelegation(m) \/ DeleteDelegation(m)
             \/ ChangePrivilege(m) \/ DeleteMember(m) \/ UpdateMembership(m)
             \/ UpdateInterest(m) \/ UpdateVote(m)
      PROVE  IInv'
  BY <1>4, UpdateDelegationStep, OtherTablesStep, VotersStep
<1>5. CASE UNCHANGED vars
  BY <1>5, StutterInvariant
<1> QED BY <1>1, <1>2, <1>3, <1>4, <1>5 DEF Next

THEOREM InductiveInvariant == Spec => []IInv
<1>1. Init => IInv
  BY InitInvariant
<1>2. IInv /\ [Next]_vars => IInv'
  BY NextInvariant
<1> QED BY <1>1, <1>2, PTL DEF Spec

(* Every variable has its type; in particular table "delegation" keeps its  *)
(* constraints, whatever members change.                                   *)
THEOREM TypeCorrect == Spec => []TypeOK
<1>1. IInv => TypeOK
  BY DEF IInv
<1> QED BY <1>1, InductiveInvariant, PTL

(* The recursion of the functions weight_of_added_... never calls itself    *)
(* for a member whose call has not returned: with any cycles of delegations *)
(* it is no deeper than there are members.                                 *)
THEOREM NoEndlessRecursion == Spec => []RecursionIsBounded
<1>1. IInv => RecursionIsBounded
  BY DEF IInv, LoopInv
<1> QED BY <1>1, InductiveInvariant, PTL

(* create_snapshot: whoever is counted as interested, or hands a vote to    *)
(* one who is, is counted in the population of the same snapshot.          *)
THEOREM InterestedAreCounted == Spec => []InterestWithinPopulation
<1>1. IInv => InterestWithinPopulation
  BY DEF IInv, PopulationComplete, InterestWithinPopulation, Counted
<1> QED BY <1>1, InductiveInvariant, PTL

(* Both bounds hold of every count and of every call on the way to it.     *)
THEOREM CountingIsBounded == Spec => []CountsAreBounded
<1>1. InterestWithinPopulation /\ RecursionIsBounded => CountsAreBounded
  BY DEF CountsAreBounded
<1> QED BY <1>1, NoEndlessRecursion, InterestedAreCounted, PTL

-----------------------------------------------------------------------------
(* Votes follow delegations.                                                *)
(* In these comments a member is behind another when its row says so.       *)

Behind(m) ==
    {j \in Member : \E i \in DOMAIN delegating[job][j] : delegating[job][j][i] = m}

(* s is what the rows say of a member: a chain from trustee to trustee, to  *)
(* the first direct member, which has been visited.  Whoever acts on the    *)
(* way has the rest of the chain.                                           *)
ChainOf(m, s) ==
    /\ m \notin direct[job]
    /\ Len(s) <= Cardinality(Member)
    /\ s[Len(s)] \in direct[job] \ todo
    /\ \E r \in issue_delegation : r.truster = m /\ r.trustee = s[1]
    /\ \A i \in 1 .. Len(s) - 1 :
          /\ s[i] \notin direct[job]
          /\ Len(delegating[job][s[i]]) = Len(s) - i
          /\ \A y \in 1 .. Len(s) - i : delegating[job][s[i]][y] = s[i + y]

RowsAreChains ==
    \A m \in Member : delegating[job][m] # <<>> => ChainOf(m, delegating[job][m])

(* A call is for a member whose chain is the calls below, in reverse.       *)
StackIsChain ==
    \A i \in 1 .. Depth :
        /\ stack[i].member \notin todo
        /\ i = 1 => stack[i].member \in direct[job]
        /\ Len(delegating[job][stack[i].member]) = i - 1
        /\ \A y \in 1 .. i - 1 : delegating[job][stack[i].member][y] = stack[i - y].member

(* Whose call has returned.                                                 *)
Returned(m) == m \in CountedIn(job) /\ m \notin todo /\ ~OnStack(m)

(* Who has been added to the weight of the i-th call.                       *)
Added(i) ==
    {j \in Behind(stack[i].member) :
        ~OnStack(j) /\ (i < Depth => j \notin Behind(stack[i + 1].member))}

WeightsAdd ==
    /\ \A m \in Member : Returned(m) => weight[job][m] = 1 + Cardinality(Behind(m))
    /\ \A i \in 1 .. Depth : stack[i].weight = Cardinality(Added(i))

Tally == job # Null => RowsAreChains /\ StackIsChain /\ WeightsAdd

-----------------------------------------------------------------------------
(* A row is a sequence, and the members in it are.                          *)
LEMMA RowTyped ==
  ASSUME TypeOK, job # Null, NEW m \in Member
  PROVE  /\ delegating[job][m] \in Seq(Member)
         /\ Len(delegating[job][m]) \in Nat
         /\ DOMAIN delegating[job][m] = 1 .. Len(delegating[job][m])
         /\ delegating[job][m] = <<>> <=> Len(delegating[job][m]) = 0
         /\ \A i \in 1 .. Len(delegating[job][m]) : delegating[job][m][i] \in Member
<1>1. job \in Kind /\ delegating \in [Kind -> [Member -> Seq(Member)]]
  BY DEF TypeOK
<1> HIDE DEF Kind
<1> DEFINE s == delegating[job][m]
<1>2. s \in Seq(Member)
  BY <1>1
<1> HIDE DEF s
<1>3. /\ Len(s) \in Nat /\ DOMAIN s = 1 .. Len(s) /\ (s = <<>> <=> Len(s) = 0)
      /\ \A i \in 1 .. Len(s) : s[i] \in Member
  BY <1>2, ElementOfSeq, LenProperties, EmptySeq
<1> QED BY <1>2, <1>3 DEF s

LEMMA BehindFinite ==
  ASSUME NEW S \in SUBSET Member
  PROVE  IsFiniteSet(S) /\ Cardinality(S) \in Nat
BY MemberAssumption, FS_Subset, FS_CardinalityType

(* Somebody is behind nobody but those who were visited.                    *)
LEMMA VisitedBefore ==
  ASSUME TypeOK, job # Null, RowsAreChains, todo \subseteq direct[job],
         NEW m \in Member, Behind(m) # {}
  PROVE  m \in CountedIn(job) /\ m \notin todo
<1>1. PICK j \in Member : \E i \in DOMAIN delegating[job][j] : delegating[job][j][i] = m
  BY DEF Behind
<1> DEFINE s == delegating[job][j]
<1>2. s \in Seq(Member) /\ Len(s) \in Nat /\ DOMAIN s = 1 .. Len(s)
  BY RowTyped
<1>3. PICK i \in 1 .. Len(s) : s[i] = m
  BY <1>1, <1>2
<1>4. s # <<>>
  BY <1>2, <1>3
<1>5. ChainOf(j, s)
  BY <1>4 DEF RowsAreChains
<1>6. CASE i = Len(s)
  BY <1>3, <1>5, <1>6 DEF ChainOf, CountedIn
<1>7. CASE i # Len(s)
  <2>1. i \in 1 .. Len(s) - 1
    BY <1>2, <1>7
  <2>2. m \notin direct[job] /\ Len(delegating[job][m]) = Len(s) - i
    BY <1>3, <1>5, <2>1 DEF ChainOf
  <2>3. Len(delegating[job][m]) # 0
    BY <1>2, <2>1, <2>2
  <2>4. delegating[job][m] # <<>>
    BY <2>3, RowTyped
  <2> QED BY <2>2, <2>4 DEF CountedIn
<1> QED BY <1>6, <1>7

(* Who has a member behind, and is behind another, is nobody's own chain.   *)
LEMMA InnerLink ==
  ASSUME TypeOK, job # Null, RowsAreChains, NEW m \in Member, delegating[job][m] # <<>>,
         NEW j \in Behind(m)
  PROVE  \E i \in 1 .. Len(delegating[job][j]) - 1 :
            /\ delegating[job][j][i] = m
            /\ Len(delegating[job][m]) = Len(delegating[job][j]) - i
            /\ \A y \in 1 .. Len(delegating[job][m]) :
                 delegating[job][m][y] = delegating[job][j][i + y]
<1>1. j \in Member
  BY DEF Behind
<1> DEFINE s == delegating[job][j]
<1>2. s \in Seq(Member) /\ Len(s) \in Nat /\ DOMAIN s = 1 .. Len(s)
  BY <1>1, RowTyped
<1>3. PICK i \in 1 .. Len(s) : s[i] = m
  BY <1>2 DEF Behind
<1>4. ChainOf(j, s)
  BY <1>1, <1>2, <1>3 DEF RowsAreChains
<1>5. m \notin direct[job]
  BY DEF RowsAreChains, ChainOf
<1>6. i \in 1 .. Len(s) - 1
  BY <1>2, <1>3, <1>4, <1>5 DEF ChainOf
<1> QED BY <1>3, <1>4, <1>6 DEF ChainOf

(* To be behind is transitive and irreflexive.                              *)
LEMMA BehindBehind ==
  ASSUME TypeOK, job # Null, RowsAreChains, NEW m \in Member, NEW d \in Member,
         m \in Behind(d)
  PROVE  Behind(m) \subseteq Behind(d) /\ m \notin Behind(m)
<1>1. PICK y \in DOMAIN delegating[job][m] : delegating[job][m][y] = d
  BY DEF Behind
<1>2. /\ y \in 1 .. Len(delegating[job][m]) /\ Len(delegating[job][m]) \in Nat
      /\ delegating[job][m] # <<>>
  BY <1>1, RowTyped
<1>3. ASSUME NEW j \in Behind(m) PROVE j \in Behind(d)
  <2>1. PICK i \in 1 .. Len(delegating[job][j]) - 1 :
          /\ Len(delegating[job][m]) = Len(delegating[job][j]) - i
          /\ \A z \in 1 .. Len(delegating[job][m]) :
               delegating[job][m][z] = delegating[job][j][i + z]
    BY <1>2, InnerLink
  <2>2. j \in Member /\ Len(delegating[job][j]) \in Nat
        /\ DOMAIN delegating[job][j] = 1 .. Len(delegating[job][j])
    BY RowTyped DEF Behind
  <2>3. i + y \in DOMAIN delegating[job][j] /\ delegating[job][j][i + y] = d
    BY <1>1, <1>2, <2>1, <2>2
  <2> QED BY <2>2, <2>3 DEF Behind
<1>4. ASSUME m \in Behind(m) PROVE FALSE
  <2>1. PICK i \in 1 .. Len(delegating[job][m]) - 1 :
          Len(delegating[job][m]) = Len(delegating[job][m]) - i
    BY <1>2, <1>4, InnerLink
  <2> QED BY <1>2, <2>1
<1> QED BY <1>3, <1>4

(* On the stack, those above are behind those below.                        *)
LEMMA StackOrder ==
  ASSUME TypeOK, job # Null, stack # <<>>, StackIsChain, RecursionIsBounded
  PROVE  /\ \A a, b \in 1 .. Depth : stack[b].member \in Behind(stack[a].member) <=> a < b
         /\ \A i \in 1 .. Depth : stack[i].member \in Member
<1>1. Depth \in Nat /\ \A i \in 1 .. Depth : stack[i].member \in Member
  BY TopTyped DEF CallType
<1>2. ASSUME NEW a \in 1 .. Depth, NEW b \in 1 .. Depth
      PROVE  stack[b].member \in Behind(stack[a].member) <=> a < b
  <2> DEFINE s == delegating[job][stack[b].member]
  <2>1. Len(s) = b - 1 /\ DOMAIN s = 1 .. b - 1
        /\ \A y \in 1 .. b - 1 : s[y] = stack[b - y].member
    BY <1>1, RowTyped DEF StackIsChain
  <2>2. ASSUME a < b PROVE stack[b].member \in Behind(stack[a].member)
    <3>1. b - a \in 1 .. b - 1 /\ b - (b - a) = a
      BY <1>1, <2>2
    <3>2. s[b - a] = stack[a].member
      BY <2>1, <3>1
    <3> QED BY <1>1, <2>1, <3>1, <3>2 DEF Behind
  <2>3. ASSUME stack[b].member \in Behind(stack[a].member) PROVE a < b
    <3>1. PICK y \in 1 .. b - 1 : s[y] = stack[a].member
      BY <2>1, <2>3 DEF Behind
    <3>2. b - y \in 1 .. Depth /\ b - y < b /\ stack[b - y].member = stack[a].member
      BY <1>1, <2>1, <3>1
    <3>3. b - y = a
      BY <3>2 DEF RecursionIsBounded
    <3> QED BY <1>1, <3>2, <3>3
  <2> QED BY <2>2, <2>3
<1> QED BY <1>1, <1>2

-----------------------------------------------------------------------------
(* What the steps of a count do to the sums.                                *)

(* Rows that stay as they are remain chains.                                *)
LEMMA SameChains ==
  ASSUME UNCHANGED <<tables, direct, delegating, job>>, todo' \subseteq todo, RowsAreChains
  PROVE  RowsAreChains' /\ \A m \in Member : Behind(m)' = Behind(m)
<1>1. issue_delegation' = issue_delegation
  BY SameTables
<1>2. RowsAreChains'
  BY <1>1 DEF RowsAreChains, ChainOf
<1>3. \A m \in Member : Behind(m)' = Behind(m)
  BY DEF Behind
<1> QED BY <1>2, <1>3

LEMMA BeginTally ==
  ASSUME TypeOK, NEW kind \in Kind, NEW members \in SUBSET Member, Begin(kind, members),
         phase' \in {"debate", "voting", "counting"}
  PROVE  Tally'
<1>1. /\ job' = kind /\ todo' = members /\ stack' = <<>>
      /\ delegating' = [delegating EXCEPT ![kind] = NoRows]
  BY DEF Begin, ResetRows
<1>2. CountedIn(kind)' = members
  BY BeginCounts
<1>3. delegating'[kind] = NoRows
  BY <1>1 DEF TypeOK
<1>4. RowsAreChains'
  BY <1>1, <1>3, ResetTyped DEF RowsAreChains
<1>5. Depth' = 0
  BY <1>1 DEF Depth
<1>6. StackIsChain'
  BY <1>5 DEF StackIsChain
<1>7. WeightsAdd'
  BY <1>1, <1>2, <1>5 DEF WeightsAdd, Returned
<1> QED BY <1>4, <1>6, <1>7 DEF Tally

(* Nobody is behind a member who has waited till now.                       *)
LEMMA NextDirectTally ==
  ASSUME IInv, Tally, NextDirect
  PROVE  Tally'
<1>1. PICK m \in todo : todo' = todo \ {m} /\ stack' = <<Call(m)>>
  BY DEF NextDirect
<1>2. /\ job # Null /\ stack = <<>> /\ Depth = 0
      /\ UNCHANGED <<tables, phase, direct, delegating, weight, job, changes>>
  BY DEF NextDirect, counts, Depth
<1>3. /\ TypeOK /\ RowsAreChains /\ WeightsAdd /\ todo \subseteq direct[job]
  BY <1>2 DEF IInv, Tally, LoopInv, VisitedHaveRows
<1>4. m \in Member /\ m \in direct[job]
  BY <1>3 DEF TypeOK
<1>5. Depth' = 1 /\ stack'[1] = Call(m) /\ Call(m).member = m /\ Call(m).weight = 0
  BY <1>1 DEF Depth, Call
<1>6. RowsAreChains' /\ \A n \in Member : Behind(n)' = Behind(n)
  BY <1>1, <1>2, <1>3, SameChains
<1>7. StackIsChain'
  <2>1. delegating[job][m] = <<>>
    BY <1>3, <1>4 DEF RowsAreChains, ChainOf
  <2>2. Len(delegating[job][m]) = 0
    BY <2>1
  <2>3. \A i \in 1 .. Depth' : i = 1
    BY <1>5
  <2>4. /\ m \notin todo' /\ m \in direct'[job'] /\ Len(delegating'[job'][m]) = 0
        /\ stack'[1].member = m
    BY <1>1, <1>2, <1>4, <1>5, <2>2
  <2> QED BY <2>3, <2>4 DEF StackIsChain
<1>8. WeightsAdd'
  <2>1. ASSUME NEW n \in Member, Returned(n)'
        PROVE  weight'[job'][n] = 1 + Cardinality(Behind(n)')
    <3>1. n \in CountedIn(job) /\ n \notin todo \ {m}
      BY <1>1, <1>2, <2>1 DEF Returned, CountedIn
    <3>2. n # m
      BY <1>5, <2>1 DEF Returned, OnStack
    <3>3. Returned(n)
      BY <1>2, <3>1, <3>2 DEF Returned, OnStack
    <3> QED BY <1>2, <1>3, <1>6, <3>3 DEF WeightsAdd
  <2>2. Behind(m) = {}
    BY <1>2, <1>3, <1>4, VisitedBefore
  <2>3. Added(1)' = {}
    <3>1. stack'[1].member = m
      BY <1>5
    <3>2. Behind(stack[1].member)' = {}
      BY <1>2, <2>2, <3>1 DEF Behind
    <3> QED BY <3>2 DEF Added
  <2>4. \A i \in 1 .. Depth' : i = 1
    BY <1>5
  <2>5. stack'[1].weight = Cardinality(Added(1)')
    BY <1>5, <2>3, FS_EmptySet
  <2> QED BY <2>1, <2>4, <2>5 DEF WeightsAdd
<1> QED BY <1>6, <1>7, <1>8 DEF Tally

(* A row that is taken changes no sum.                                      *)
LEMMA VisitedWeights ==
  ASSUME TypeOK, stack # <<>>, NEW r \in Top.rows
  PROVE  \A i \in 1 .. Depth : Visited(r)[i].weight = stack[i].weight
<1> DEFINE call == [stack[Depth] EXCEPT !.rows = @ \ {r}]
<1>1. stack \in Seq(CallType) /\ Depth \in 1 .. Len(stack) /\ stack[Depth] \in CallType
  BY TopTyped DEF TypeOK, Depth
<1>2. call \in CallType
  BY <1>1, RowTaken
<1>3. call.weight = stack[Depth].weight
  BY <1>1 DEF CallType
<1>4. Visited(r) = [stack EXCEPT ![Depth] = call]
  BY DEF Visited
<1> HIDE DEF call
<1>5. \A i \in 1 .. Len(stack) : Visited(r)[i] = IF i = Depth THEN call ELSE stack[i]
  BY <1>1, <1>2, <1>4, ExceptSeq
<1> QED BY <1>3, <1>5 DEF Depth

LEMMA PassOverTally ==
  ASSUME IInv, Tally, PassOver
  PROVE  Tally'
<1>1. /\ TypeOK /\ stack # <<>>
      /\ UNCHANGED <<tables, phase, direct, delegating, weight, job, todo, changes>>
  BY DEF IInv, PassOver, counts
<1>2. PICK r \in Top.rows : stack' = Visited(r)
  BY DEF PassOver
<1>3. /\ Depth' = Depth
      /\ \A i \in 1 .. Depth : /\ stack'[i].member = stack[i].member
                               /\ stack'[i].weight = stack[i].weight
  BY <1>1, <1>2, LoopAdvances, VisitedWeights DEF Depth
<1>4. /\ job \in Kind /\ job # Null /\ Depth \in Nat
      /\ RowsAreChains /\ StackIsChain /\ WeightsAdd
  BY <1>1, TopTyped, MemberAssumption DEF Tally
<1>5. RowsAreChains' /\ \A m \in Member : Behind(m)' = Behind(m)
  BY <1>1, <1>4, SameChains
<1>6. StackIsChain'
  <2>1. \A i \in 1 .. Depth : \A y \in 1 .. i - 1 : stack'[i - y].member = stack[i - y].member
    BY <1>3, <1>4
  <2> QED BY <2>1, <1>1, <1>3, <1>4 DEF StackIsChain
<1>7. \A j : OnStack(j)' <=> OnStack(j)
  BY <1>3 DEF OnStack
<1>8. \A i \in 1 .. Depth : Added(i)' = Added(i)
  <2> SUFFICES ASSUME NEW i \in 1 .. Depth PROVE Added(i)' = Added(i)
    OBVIOUS
  <2>1. Behind(stack[i].member)' = Behind(stack[i].member)
    BY <1>1, <1>3 DEF Behind
  <2>2. i < Depth => Behind(stack[i + 1].member)' = Behind(stack[i + 1].member)
    BY <1>1, <1>3, <1>4 DEF Behind
  <2> QED BY <2>1, <2>2, <1>3, <1>7 DEF Added
<1>9. \A m \in Member : Returned(m)' <=> Returned(m)
  BY <1>1, <1>7 DEF Returned, CountedIn
<1>10. WeightsAdd'
  BY <1>1, <1>3, <1>4, <1>5, <1>8, <1>9 DEF WeightsAdd
<1> QED BY <1>5, <1>6, <1>10 DEF Tally

-----------------------------------------------------------------------------
(* Who gets a row is behind those on the stack, and nobody is behind them.  *)

(* The new chain are the calls, the innermost first.                        *)
LEMMA ChainIsStack ==
  ASSUME TypeOK, stack # <<>>
  PROVE  /\ Chain \in Seq(Member) /\ Len(Chain) = Depth
         /\ \A i \in 1 .. Depth : Chain[i] = stack[Depth + 1 - i].member
<1>1. Depth \in Nat /\ Depth >= 1
  BY TopTyped
<1>2. Chain = [i \in 1 .. Depth |-> stack[Depth + 1 - i].member]
  BY DEF Chain
<1>3. Chain \in Seq(Member)
  BY ChainTyped
<1>4. DOMAIN Chain = 1 .. Depth /\ DOMAIN Chain = 1 .. Len(Chain) /\ Len(Chain) \in Nat
  BY <1>2, <1>3, LenProperties
<1>5. Len(Chain) = Depth
  BY <1>1, <1>4
<1> QED BY <1>2, <1>3, <1>5

(* There are no more calls than members.                                    *)
LEMMA StackIsShort ==
  ASSUME TypeOK, stack # <<>>, RecursionIsBounded
  PROVE  Depth <= Cardinality(Member)
<1>1. Depth \in Nat /\ \A i \in 1 .. Depth : stack[i].member \in Member
  BY TopTyped DEF CallType
<1> DEFINE f == [i \in 1 .. Depth |-> stack[i].member]
<1>2. f \in Injection(1 .. Depth, Member)
  BY <1>1 DEF RecursionIsBounded, Injection, IsInjective
<1>3. IsFiniteSet(1 .. Depth) /\ Cardinality(1 .. Depth) = Depth
  <2>1. 1 \in Int /\ Depth \in Int
    BY <1>1
  <2>2. IsFiniteSet(1 .. Depth) /\ Cardinality(1 .. Depth) = IF 1 > Depth THEN 0 ELSE Depth - 1 + 1
    BY <2>1, FS_Interval
  <2> QED BY <2>2, <1>1
<1> HIDE DEF f
<1>4. Cardinality(1 .. Depth) <= Cardinality(Member)
  BY <1>2, <1>3, MemberAssumption, FS_Injection
<1> QED BY <1>3, <1>4

(* The rows after a delegation has been added.                              *)
LEMMA RowAdded ==
  ASSUME IInv, Tally, AddDelegation
  PROVE  \E r \in Top.rows :
            /\ r.truster \in Member /\ r.truster \notin CountedIn(job)
            /\ CountedIn(job)' = CountedIn(job) \cup {r.truster}
            /\ r \in issue_delegation /\ r.trustee = stack[Depth].member
            /\ \A m \in Member :
                 delegating'[job][m] = IF m = r.truster THEN Chain ELSE delegating[job][m]
            /\ Depth' = Depth + 1
            /\ \A i \in 1 .. Depth : /\ stack'[i].member = stack[i].member
                                     /\ stack'[i].weight = stack[i].weight
            /\ stack'[Depth + 1].member = r.truster /\ stack'[Depth + 1].weight = 0
            /\ delegating[job][r.truster] = <<>> /\ Behind(r.truster) = {}
            /\ \A i \in 1 .. Depth : stack[i].member # r.truster
<1>1. TypeOK /\ LoopInv /\ stack # <<>>
  BY DEF IInv, AddDelegation
<1>2. PICK r \in Top.rows :
        /\ ~HasRow(r.truster)
        /\ delegating' = [delegating EXCEPT ![job][r.truster] = Chain]
        /\ stack' = Append(Visited(r), Call(r.truster))
  BY DEF AddDelegation
<1>3. /\ job \in Kind /\ job # Null /\ Depth \in Nat /\ Depth >= 1
      /\ Top \in CallType /\ Top = stack[Depth]
  BY <1>1, TopTyped, MemberAssumption
<1>4. r.truster \in Member
  BY <1>3 DEF CallType, DelegationRow
<1>5. r.truster \notin CountedIn(job)
  BY <1>2, <1>4 DEF HasRow, CountedIn
<1>6. r \in issue_delegation /\ r.trustee = stack[Depth].member
  BY <1>1, <1>3 DEF LoopInv, LoopsAreSound
<1> HIDE DEF Kind
<1>7. delegating \in [Kind -> [Member -> Seq(Member)]]
  BY <1>1 DEF TypeOK
<1>8. \A m \in Member :
        delegating'[job][m] = IF m = r.truster THEN Chain ELSE delegating[job][m]
  BY <1>2, <1>3, <1>7
<1>9. /\ Visited(r) \in Seq(CallType) /\ Len(Visited(r)) = Depth
      /\ \A i \in 1 .. Depth : Visited(r)[i].member = stack[i].member
  BY <1>1, LoopAdvances
<1>10. \A i \in 1 .. Depth : Visited(r)[i].weight = stack[i].weight
  BY <1>1, VisitedWeights
<1>11. Call(r.truster) \in CallType /\ Call(r.truster).member = r.truster
       /\ Call(r.truster).weight = 0
  BY <1>1, <1>4, CallTyped DEF Call
<1>12. /\ Len(stack') = Depth + 1
       /\ \A i \in 1 .. Depth : stack'[i] = Visited(r)[i]
       /\ stack'[Depth + 1] = Call(r.truster)
  BY <1>2, <1>3, <1>9, <1>11
<1>13. delegating[job][r.truster] = <<>>
  BY <1>4, <1>5 DEF CountedIn
<1>14. Behind(r.truster) = {}
  <2>1. RowsAreChains /\ todo \subseteq direct[job]
    BY <1>1, <1>3 DEF Tally, LoopInv, VisitedHaveRows
  <2> QED BY <2>1, <1>1, <1>3, <1>4, <1>5, VisitedBefore
<1>15. \A i \in 1 .. Depth : stack[i].member # r.truster
  BY <1>1, <1>5 DEF LoopInv, VisitedHaveRows
<1>16. CountedIn(job)' = CountedIn(job) \cup {r.truster}
  <2>1. direct' = direct /\ job' = job
    BY DEF AddDelegation
  <2>2. Chain # <<>>
    BY <1>1, ChainTyped
  <2> QED BY <1>4, <1>8, <2>1, <2>2 DEF CountedIn
<1>17. Depth' = Depth + 1
  BY <1>12 DEF Depth
<1> WITNESS r \in Top.rows
<1> QED BY <1>4, <1>5, <1>6, <1>8, <1>9, <1>10, <1>11, <1>12, <1>13, <1>14, <1>15, <1>16, <1>17

(* A chain remains one while the rows of those who act on the way do.       *)
LEMMA ChainStays ==
  ASSUME direct' = direct, todo' = todo, job' = job, issue_delegation' = issue_delegation,
         NEW m, NEW s, ChainOf(m, s),
         \A i \in 1 .. Len(s) - 1 : delegating'[job][s[i]] = delegating[job][s[i]]
  PROVE  ChainOf(m, s)'
<1>1. /\ m \notin direct'[job'] /\ Len(s) <= Cardinality(Member)
      /\ s[Len(s)] \in direct'[job'] \ todo'
      /\ \E r \in issue_delegation' : r.truster = m /\ r.trustee = s[1]
  BY DEF ChainOf
<1>2. ASSUME NEW i \in 1 .. Len(s) - 1
      PROVE  /\ s[i] \notin direct'[job']
             /\ Len(delegating'[job'][s[i]]) = Len(s) - i
             /\ \A y \in 1 .. Len(s) - i : delegating'[job'][s[i]][y] = s[i + y]
  <2>1. delegating'[job'][s[i]] = delegating[job][s[i]] /\ direct'[job'] = direct[job]
    OBVIOUS
  <2> QED BY <2>1 DEF ChainOf
<1> QED BY <1>1, <1>2 DEF ChainOf

LEMMA AddDelegationTally ==
  ASSUME IInv, Tally, AddDelegation
  PROVE  Tally'
<1>1. PICK r \in Top.rows :
        /\ r.truster \in Member /\ r.truster \notin CountedIn(job)
        /\ CountedIn(job)' = CountedIn(job) \cup {r.truster}
        /\ r \in issue_delegation /\ r.trustee = stack[Depth].member
        /\ \A m \in Member :
             delegating'[job][m] = IF m = r.truster THEN Chain ELSE delegating[job][m]
        /\ Depth' = Depth + 1
        /\ \A i \in 1 .. Depth : /\ stack'[i].member = stack[i].member
                                 /\ stack'[i].weight = stack[i].weight
        /\ stack'[Depth + 1].member = r.truster /\ stack'[Depth + 1].weight = 0
        /\ delegating[job][r.truster] = <<>> /\ Behind(r.truster) = {}
        /\ \A i \in 1 .. Depth : stack[i].member # r.truster
  BY RowAdded
<1>0. PICK t \in Member : t = r.truster
  BY <1>1
<1>2. /\ t \in Member /\ t \notin CountedIn(job)
      /\ CountedIn(job)' = CountedIn(job) \cup {t}
      /\ r \in issue_delegation /\ r.truster = t /\ r.trustee = stack[Depth].member
      /\ \A m \in Member : delegating'[job][m] = IF m = t THEN Chain ELSE delegating[job][m]
      /\ delegating[job][t] = <<>> /\ Behind(t) = {}
  BY <1>0, <1>1
<1>3. /\ Depth' = Depth + 1
      /\ \A i \in 1 .. Depth : /\ stack'[i].member = stack[i].member
                               /\ stack'[i].weight = stack[i].weight
      /\ stack'[Depth + 1].member = t /\ stack'[Depth + 1].weight = 0
      /\ \A i \in 1 .. Depth : stack[i].member # t
  BY <1>0, <1>1
<1>4. /\ TypeOK /\ LoopInv /\ stack # <<>>
      /\ UNCHANGED <<tables, phase, direct, weight, job, todo, changes>>
  BY DEF IInv, AddDelegation
<1>5. /\ job \in Kind /\ job # Null /\ Depth \in Nat /\ Depth >= 1
      /\ RowsAreChains /\ StackIsChain /\ WeightsAdd
      /\ RecursionIsBounded /\ VisitedHaveRows
  BY <1>4, TopTyped, MemberAssumption DEF Tally, LoopInv
<1> HIDE DEF Kind
<1>6. /\ Chain \in Seq(Member) /\ Len(Chain) = Depth
      /\ \A i \in 1 .. Depth : Chain[i] = stack[Depth + 1 - i].member
  BY <1>4, ChainIsStack
<1>7. Depth <= Cardinality(Member)
  BY <1>4, <1>5, StackIsShort
<1>8. issue_delegation' = issue_delegation
  BY <1>4, SameTables
<1>9. \A i \in 1 .. Depth : stack[i].member \in Member
  BY <1>4, TopTyped DEF CallType
<1>10. t \notin direct[job] /\ t \notin todo
  BY <1>2, <1>5 DEF CountedIn, VisitedHaveRows
<1>11. \A m \in Member : m # t => delegating'[job][m] = delegating[job][m]
  BY <1>2
<1>12. delegating'[job][t] = Chain
  BY <1>2
<1>13. RowsAreChains'
  <2>1. ASSUME NEW m \in Member, m # t, delegating[job][m] # <<>>
        PROVE  ChainOf(m, delegating[job][m])'
    <3>0. PICK s \in Seq(Member) : s = delegating[job][m]
      BY <1>4, <1>5, RowTyped
    <3>1. ChainOf(m, s) /\ s \in Seq(Member) /\ Len(s) \in Nat
          /\ \A i \in 1 .. Len(s) : s[i] \in Member
      BY <3>0, <1>4, <1>5, <2>1, RowTyped DEF RowsAreChains
    <3>2. ASSUME NEW i \in 1 .. Len(s) - 1
          PROVE  delegating'[job][s[i]] = delegating[job][s[i]]
      <4>1. Len(delegating[job][s[i]]) = Len(s) - i
        BY <3>1 DEF ChainOf
      <4>2. Len(delegating[job][s[i]]) # 0 /\ s[i] \in Member
        BY <3>1, <4>1
      <4>3. s[i] # t
        BY <4>2, <1>2
      <4> QED BY <4>2, <4>3, <1>11
    <3>3. delegating'[job][m] = s
      BY <3>0, <2>1, <1>11
    <3>4. direct' = direct /\ todo' = todo /\ job' = job
      BY <1>4
    <3>5. ChainOf(m, s)'
      BY <3>1, <3>2, <3>4, <1>8, ChainStays
    <3>6. delegating'[job'][m] = s
      BY <3>3, <3>4
    <3> QED BY <3>5, <3>6 DEF ChainOf
  <2>2. ChainOf(t, Chain)
    <3>1. Chain[Depth] = stack[1].member /\ Chain[1] = stack[Depth].member
      BY <1>5, <1>6
    <3>2. stack[1].member \in direct[job] \ todo
      BY <1>5 DEF StackIsChain
    <3>3. ASSUME NEW i \in 1 .. Depth - 1
          PROVE  /\ Chain[i] \notin direct[job]
                 /\ Len(delegating[job][Chain[i]]) = Depth - i
                 /\ \A y \in 1 .. Depth - i : delegating[job][Chain[i]][y] = Chain[i + y]
      <4> DEFINE k == Depth + 1 - i
      <4>1. k \in 1 .. Depth /\ k - 1 = Depth - i /\ Chain[i] = stack[k].member
            /\ stack[k].member \in Member
        BY <1>5, <1>6, <1>9
      <4>2. /\ Len(delegating[job][stack[k].member]) = k - 1
            /\ \A y \in 1 .. k - 1 : delegating[job][stack[k].member][y] = stack[k - y].member
        BY <1>5, <4>1 DEF StackIsChain
      <4>3. delegating[job][stack[k].member] # <<>>
        <5>1. k - 1 # 0
          BY <1>5, <4>1
        <5> QED BY <5>1, <4>1, <4>2, <1>4, <1>5, RowTyped
      <4>4. stack[k].member \notin direct[job]
        BY <4>1, <4>3, <1>5 DEF RowsAreChains, ChainOf
      <4>5. \A y \in 1 .. Depth - i : i + y \in 1 .. Depth /\ Depth + 1 - (i + y) = k - y
        BY <1>5
      <4>6. \A y \in 1 .. Depth - i : delegating[job][Chain[i]][y] = Chain[i + y]
        <5>1. \A y \in 1 .. Depth - i : Chain[i + y] = stack[k - y].member
          BY <4>5, <1>6
        <5>2. \A y \in 1 .. Depth - i : delegating[job][stack[k].member][y] = stack[k - y].member
          BY <4>1, <4>2
        <5> HIDE DEF k
        <5> QED BY <4>1, <5>1, <5>2
      <4> QED BY <4>1, <4>2, <4>4, <4>6
    <3> QED BY <1>2, <1>6, <1>7, <1>10, <3>1, <3>2, <3>3 DEF ChainOf
  <2>3. ChainOf(t, delegating[job][t])'
    <3>0. PICK s \in Seq(Member) : s = Chain
      BY <1>6
    <3>1. ASSUME NEW i \in 1 .. Len(s) - 1
          PROVE  delegating'[job][s[i]] = delegating[job][s[i]]
      <4>1. Depth + 1 - i \in 1 .. Depth /\ i \in 1 .. Depth
        BY <3>0, <1>5, <1>6
      <4> QED BY <3>0, <4>1, <1>3, <1>6, <1>9, <1>11
    <3>2. direct' = direct /\ todo' = todo /\ job' = job
      BY <1>4
    <3>3. ChainOf(t, s)
      BY <2>2, <3>0
    <3>4. ChainOf(t, s)'
      BY <3>1, <3>2, <3>3, <1>8, ChainStays
    <3>5. delegating'[job'][t] = s
      BY <3>0, <3>2, <1>12
    <3> QED BY <3>4, <3>5 DEF ChainOf
  <2> QED BY <2>1, <2>3, <1>4, <1>11 DEF RowsAreChains
<1>14. StackIsChain'
  <2> SUFFICES ASSUME NEW i \in 1 .. Depth + 1
               PROVE  /\ stack'[i].member \notin todo
                      /\ i = 1 => stack'[i].member \in direct[job]
                      /\ Len(delegating'[job][stack'[i].member]) = i - 1
                      /\ \A y \in 1 .. i - 1 :
                           delegating'[job][stack'[i].member][y] = stack'[i - y].member
    BY <1>3, <1>4 DEF StackIsChain
  <2>1. CASE i \in 1 .. Depth
    <3>1. stack'[i].member = stack[i].member /\ stack[i].member # t /\ stack[i].member \in Member
      BY <2>1, <1>3, <1>9
    <3>2. delegating'[job][stack[i].member] = delegating[job][stack[i].member]
      BY <3>1, <1>11
    <3>3. \A y \in 1 .. i - 1 : stack'[i - y].member = stack[i - y].member
      BY <2>1, <1>3, <1>5
    <3> QED BY <2>1, <3>1, <3>2, <3>3, <1>5 DEF StackIsChain
  <2>2. CASE i = Depth + 1
    <3>1. stack'[i].member = t /\ i # 1 /\ i - 1 = Depth
      BY <2>2, <1>3, <1>5
    <3>2. \A y \in 1 .. Depth : stack'[i - y].member = stack[Depth + 1 - y].member
      BY <2>2, <1>3, <1>5
    <3> QED BY <3>1, <3>2, <1>6, <1>10, <1>12
  <2>3. i \in 1 .. Depth \/ i = Depth + 1
    BY <1>5
  <2> QED BY <2>1, <2>2, <2>3
<1>15. \A j : OnStack(j)' <=> OnStack(j) \/ j = t
  <2>1. \A i \in 1 .. Depth + 1 : i \in 1 .. Depth \/ i = Depth + 1
    BY <1>5
  <2>2. 1 .. Depth \subseteq 1 .. Depth + 1 /\ Depth + 1 \in 1 .. Depth + 1
    BY <1>5
  <2> QED BY <2>1, <2>2, <1>3 DEF OnStack
<1>16. \A m, j \in Member : j # t => (j \in Behind(m)' <=> j \in Behind(m))
  BY <1>4, <1>11 DEF Behind
<1>17. \A m \in Member : ~OnStack(m) => t \notin Behind(m)'
  <2> SUFFICES ASSUME NEW m \in Member, t \in Behind(m)' PROVE OnStack(m)
    OBVIOUS
  <2>1. PICK i \in DOMAIN Chain : Chain[i] = m
    BY <1>4, <1>12 DEF Behind
  <2>2. i \in 1 .. Depth
    BY <2>1, <1>6, LenProperties
  <2>3. Depth + 1 - i \in 1 .. Depth /\ stack[Depth + 1 - i].member = m
    BY <2>1, <2>2, <1>5, <1>6
  <2> QED BY <2>3 DEF OnStack
<1>18. \A m \in Member : t \notin Behind(m)
  <2>1. DOMAIN delegating[job][t] = {}
    BY <1>2
  <2> QED BY <2>1 DEF Behind
<1>19. \A m \in Member : Behind(m) \subseteq Member /\ Behind(m)' \subseteq Member
  BY DEF Behind
<1>20. WeightsAdd'
  <2>1. ASSUME NEW m \in Member, Returned(m)'
        PROVE  weight'[job'][m] = 1 + Cardinality(Behind(m)')
    <3>1. m # t /\ ~OnStack(m) /\ m \in CountedIn(job) /\ m \notin todo
      BY <1>2, <1>4, <1>15, <2>1 DEF Returned
    <3>2. Behind(m)' = Behind(m)
      <4>1. t \notin Behind(m)' /\ t \notin Behind(m)
        BY <3>1, <1>17, <1>18
      <4>2. \A j \in Member : j \in Behind(m)' <=> j \in Behind(m)
        BY <4>1, <1>16
      <4> QED BY <4>2, <1>19
    <3> QED BY <3>1, <3>2, <1>4, <1>5 DEF WeightsAdd, Returned
  <2>2. ASSUME NEW i \in 1 .. Depth PROVE stack'[i].weight = Cardinality(Added(i)')
    <3>0. PICK m \in Member : m = stack[i].member
      BY <1>9
    <3>1. PICK n \in Member : i < Depth => n = stack[i + 1].member
      BY <3>0, <1>5, <1>9
    <3>2. Behind(stack[i].member)' = Behind(m)'
      BY <3>0, <1>3 DEF Behind
    <3>3. i < Depth => Behind(stack[i + 1].member)' = Behind(n)'
      BY <3>1, <1>3, <1>5 DEF Behind
    <3>4. i = Depth => Behind(stack[i + 1].member)' = Behind(t)'
      BY <1>3, <1>5 DEF Behind
    <3>5. Added(i)' = {j \in Behind(m)' : ~OnStack(j)' /\ j \notin Behind(stack[i + 1].member)'}
      <4>1. i < Depth'
        BY <1>3, <1>5
      <4> QED BY <4>1, <3>2 DEF Added
    <3>6. Added(i) = {j \in Behind(m) : ~OnStack(j) /\ (i < Depth => j \notin Behind(n))}
      BY <3>0, <3>1 DEF Added
    <3>7. \A j \in Member : j \in Added(i)' <=> j \in Added(i)
      <4> SUFFICES ASSUME NEW j \in Member, j # t PROVE j \in Added(i)' <=> j \in Added(i)
        BY <3>0, <3>5, <3>6, <1>15, <1>18
      <4>1. j \in Behind(m)' <=> j \in Behind(m)
        BY <1>16
      <4>2. CASE i < Depth
        BY <4>1, <4>2, <3>1, <3>3, <3>5, <3>6, <1>15, <1>16
      <4>3. CASE i = Depth
        <5>1. j \notin Behind(stack[i + 1].member)'
          BY <4>3, <3>4, <1>2, <1>16
        <5>2. ~(i < Depth)
          BY <4>3, <1>5
        <5> QED BY <4>1, <5>1, <5>2, <3>5, <3>6, <1>15
      <4> QED BY <4>2, <4>3, <1>5
    <3>8. Added(i)' \subseteq Member /\ Added(i) \subseteq Member
      BY <3>5, <3>6, <1>19
    <3>9. Added(i)' = Added(i)
      BY <3>7, <3>8
    <3> QED BY <3>9, <1>3, <1>5 DEF WeightsAdd
  <2>3. ASSUME NEW i \in 1 .. Depth', i = Depth + 1
        PROVE  stack'[i].weight = Cardinality(Added(i)')
    <3>1. Behind(stack[i].member)' = Behind(t)'
      BY <2>3, <1>3 DEF Behind
    <3>2. Behind(t)' = {}
      <4>1. t \notin Behind(t)'
        <5>1. ~OnStack(t)
          BY <1>3 DEF OnStack
        <5> QED BY <5>1, <1>2, <1>17
      <4>2. \A j \in Member : j \notin Behind(t)'
        BY <4>1, <1>2, <1>16
      <4> QED BY <4>2, <1>19
    <3>3. Added(i)' = {}
      BY <3>1, <3>2 DEF Added
    <3> QED BY <2>3, <3>3, <1>3, FS_EmptySet
  <2>4. \A i \in 1 .. Depth' : i \in 1 .. Depth \/ i = Depth + 1
    BY <1>3, <1>5
  <2>5. \A i \in 1 .. Depth' : stack'[i].weight = Cardinality(Added(i)')
    BY <2>2, <2>3, <2>4
  <2> QED BY <2>1, <2>5 DEF WeightsAdd
<1> QED BY <1>13, <1>14, <1>20 DEF Tally

(* The sum that is returned is final, and the caller adds all of it.        *)
LEMMA ReturnTally ==
  ASSUME IInv, Tally, Return
  PROVE  Tally'
<1>1. /\ TypeOK /\ LoopInv /\ stack # <<>> /\ RecursionIsBounded
      /\ UNCHANGED <<tables, phase, direct, delegating, job, todo, changes>>
  BY DEF IInv, LoopInv, Return
<1>2. /\ job \in Kind /\ job # Null /\ Depth \in Nat /\ Depth >= 1
      /\ RowsAreChains /\ StackIsChain /\ WeightsAdd
      /\ Top \in CallType /\ Top = stack[Depth]
      /\ \A i \in 1 .. Depth : stack[i] \in CallType /\ stack[i].member \in Member
  BY <1>1, TopTyped, MemberAssumption DEF Tally, CallType
<1>3. PICK t \in Member : t = stack[Depth].member
  BY <1>2
<1>4. PICK n \in Nat : n = stack[Depth].weight
  BY <1>2 DEF CallType
<1>5. /\ Depth' = Depth - 1
      /\ \A i \in 1 .. Depth - 1 :
           /\ stack'[i].member = stack[i].member
           /\ stack'[i].weight = IF i = Depth - 1 THEN stack[i].weight + 1 + n
                                                  ELSE stack[i].weight
  <2>1. stack' = [i \in 1 .. Depth - 1 |->
                    IF i = Depth - 1 THEN [stack[i] EXCEPT !.weight = @ + 1 + n] ELSE stack[i]]
    BY <1>2, <1>4 DEF Return
  <2>2. \A i \in 1 .. Depth - 1 :
          /\ [stack[i] EXCEPT !.weight = @ + 1 + n].member = stack[i].member
          /\ [stack[i] EXCEPT !.weight = @ + 1 + n].weight = stack[i].weight + 1 + n
    BY <1>2 DEF CallType
  <2>3. Len(stack') = Depth - 1
    BY <1>1, ReturnStack
  <2> QED BY <2>1, <2>2, <2>3 DEF Depth
<1>6. \A m \in Member : weight'[job][m] = IF m = t THEN 1 + n ELSE weight[job][m]
  <2>1. weight' = [weight EXCEPT ![job][t] = 1 + n]
    BY <1>2, <1>3, <1>4 DEF Return
  <2>2. weight \in [Kind -> [Member -> Nat]]
    BY <1>1 DEF TypeOK
  <2> HIDE DEF Kind
  <2> QED BY <2>1, <2>2, <1>2, <1>3
<1>7. RowsAreChains' /\ \A m \in Member : Behind(m)' = Behind(m)
  BY <1>1, <1>2, SameChains
<1>8. StackIsChain'
  <2>1. \A i \in 1 .. Depth' :
          i \in 1 .. Depth /\ i \in 1 .. Depth - 1 /\ stack'[i].member = stack[i].member
    BY <1>2, <1>5
  <2>2. \A i \in 1 .. Depth' : \A y \in 1 .. i - 1 : stack'[i - y].member = stack[i - y].member
    BY <1>2, <1>5
  <2> QED BY <2>1, <2>2, <1>1, <1>2 DEF StackIsChain
<1>9. \A j : OnStack(j)' <=> OnStack(j) /\ j # t
  <2>1. ASSUME NEW j, OnStack(j)' PROVE OnStack(j) /\ j # t
    <3>1. PICK i \in 1 .. Depth - 1 : stack'[i].member = j
      BY <2>1, <1>5 DEF OnStack
    <3>2. i \in 1 .. Depth /\ i # Depth /\ Depth \in 1 .. Depth /\ stack[i].member = j
      BY <3>1, <1>2, <1>5
    <3>3. j # t
      BY <3>2, <1>1, <1>3 DEF RecursionIsBounded
    <3> QED BY <3>2, <3>3 DEF OnStack
  <2>2. ASSUME NEW j, OnStack(j), j # t PROVE OnStack(j)'
    <3>1. PICK i \in 1 .. Depth : stack[i].member = j
      BY <2>2 DEF OnStack
    <3>2. i \in 1 .. Depth'
      BY <3>1, <2>2, <1>2, <1>3, <1>5
    <3>3. stack'[i].member = j
      BY <3>1, <3>2, <1>5
    <3> QED BY <3>2, <3>3 DEF OnStack
  <2> QED BY <2>1, <2>2
<1>10. /\ \A a, b \in 1 .. Depth : stack[b].member \in Behind(stack[a].member) <=> a < b
  BY <1>1, <1>2, StackOrder
(* Nobody behind the member on top is on the stack.                         *)
<1>11. \A j \in Behind(t) : ~OnStack(j)
  <2> SUFFICES ASSUME NEW i \in 1 .. Depth, stack[i].member \in Behind(t) PROVE FALSE
    BY DEF OnStack
  <2>1. Depth \in 1 .. Depth
    BY <1>2
  <2>2. Depth < i
    BY <2>1, <1>3, <1>10
  <2> QED BY <2>2, <1>2
<1>12. n = Cardinality(Behind(t))
  <2>1. Depth \in 1 .. Depth /\ ~(Depth < Depth)
    BY <1>2
  <2>2. Added(Depth) = Behind(t)
    BY <2>1, <1>3, <1>11 DEF Added
  <2> QED BY <2>1, <2>2, <1>2, <1>4 DEF WeightsAdd
<1>13. \A m \in Member : Behind(m) \in SUBSET Member
  BY DEF Behind
<1>14. t \notin Behind(t)
  <2>1. Depth \in 1 .. Depth /\ ~(Depth < Depth)
    BY <1>2
  <2> QED BY <2>1, <1>3, <1>10
<1>15. ASSUME NEW m \in Member, Returned(m)'
       PROVE  weight'[job'][m] = 1 + Cardinality(Behind(m)')
  <2>1. m \in CountedIn(job) /\ m \notin todo /\ (~OnStack(m) \/ m = t)
    BY <1>1, <1>9, <1>15 DEF Returned, CountedIn
  <2>2. CASE m = t
    BY <2>2, <1>1, <1>6, <1>7, <1>12
  <2>3. CASE m # t
    BY <2>1, <2>3, <1>1, <1>2, <1>6, <1>7 DEF WeightsAdd, Returned
  <2> QED BY <2>2, <2>3
<1>16. ASSUME NEW i \in 1 .. Depth - 1
       PROVE  stack'[i].weight = Cardinality(Added(i)')
  <2>1. PICK m \in Member : m = stack[i].member
    BY <1>2
  <2>2. PICK k \in Member : k = stack[i + 1].member
    BY <1>2
  <2>3. Added(i) = {j \in Behind(m) : ~OnStack(j) /\ j \notin Behind(k)}
    BY <2>1, <2>2, <1>2 DEF Added
  <2>4. Behind(stack[i].member)' = Behind(m)
    BY <2>1, <1>1, <1>5 DEF Behind
  <2>5. CASE i < Depth - 1
    <3>1. Behind(stack[i + 1].member)' = Behind(k)
      BY <2>2, <2>5, <1>1, <1>2, <1>5 DEF Behind
    <3>2. Added(i)' = {j \in Behind(m) : ~OnStack(j)' /\ j \notin Behind(k)}
      BY <2>4, <2>5, <3>1, <1>5 DEF Added
    <3>3. t \in Behind(k)
      <4>1. i + 1 \in 1 .. Depth /\ Depth \in 1 .. Depth /\ i + 1 < Depth
        BY <2>5, <1>2
      <4> QED BY <4>1, <2>2, <1>3, <1>10
    <3>4. Added(i)' = Added(i)
      BY <2>3, <3>2, <3>3, <1>9
    <3>5. stack[i].weight = Cardinality(Added(i)) /\ i # Depth - 1
      BY <2>5, <1>2 DEF WeightsAdd
    <3> QED BY <3>4, <3>5, <1>5
  <2>6. CASE i = Depth - 1
    <3>1. k = t
      BY <2>2, <2>6, <1>2, <1>3
    <3>2. ~(i < Depth')
      BY <2>6, <1>2, <1>5
    <3>3. Added(i)' = {j \in Behind(m) : ~OnStack(j)'}
      BY <2>4, <3>2 DEF Added
    <3>4. t \in Behind(m)
      <4>1. i \in 1 .. Depth /\ Depth \in 1 .. Depth /\ i < Depth
        BY <2>6, <1>2
      <4> QED BY <4>1, <2>1, <1>3, <1>10
    <3>5. Behind(t) \subseteq Behind(m)
      BY <3>4, <1>1, <1>2, BehindBehind
    <3> DEFINE old == Added(i)
               own == Behind(t)
               all == {j \in Behind(m) : ~OnStack(j)'}
    <3>6. all = (old \cup own) \cup {t}
      BY <2>3, <3>1, <3>4, <3>5, <1>9, <1>11
    <3>7. OnStack(t)
      <4>1. Depth \in 1 .. Depth
        BY <1>2
      <4> QED BY <4>1, <1>3 DEF OnStack
    <3>8. old \cap own = {} /\ t \notin old /\ t \notin own
      BY <2>3, <3>1, <3>7, <1>14
    <3>9. old \in SUBSET Member /\ own \in SUBSET Member
      BY <2>3, <1>13
    <3>10. stack'[i].weight = Cardinality(old) + 1 + Cardinality(own)
      BY <2>6, <1>2, <1>5, <1>12 DEF WeightsAdd
    <3>11. all = Added(i)'
      BY <3>3
    <3> HIDE DEF old, own, all
    <3>12. /\ IsFiniteSet(old) /\ IsFiniteSet(own)
           /\ Cardinality(old) \in Nat /\ Cardinality(own) \in Nat
      BY <3>9, BehindFinite
    <3>13. IsFiniteSet(old \cup own) /\ Cardinality(old \cup own) = Cardinality(old) + Cardinality(own)
      BY <3>8, <3>12, FS_Union, FS_EmptySet
    <3>14. Cardinality(all) = Cardinality(old \cup own) + 1
      BY <3>6, <3>8, <3>13, FS_AddElement
    <3>15. stack'[i].weight = Cardinality(all)
      BY <3>10, <3>12, <3>13, <3>14
    <3> QED BY <3>11, <3>15
  <2> QED BY <2>5, <2>6, <1>2
<1>17. WeightsAdd'
  BY <1>5, <1>15, <1>16 DEF WeightsAdd
<1> QED BY <1>7, <1>8, <1>17 DEF Tally

LEMMA TallyStays ==
  ASSUME IInv, Tally, [Next]_vars
  PROVE  Tally'
<1>1. CASE CreatePopulationSnapshot
  <2>1. TypeOK /\ Population \in SUBSET Member /\ Begin("population", Population)
        /\ phase' \in {"debate", "voting", "counting"}
    BY <1>1 DEF IInv, TypeOK, Population, CreatePopulationSnapshot
  <2> QED BY <2>1, BeginTally
<1>2. CASE CreateInterestSnapshot
  <2>1. /\ TypeOK /\ privileged \cap interest \in SUBSET Member
        /\ Begin("interest", privileged \cap interest)
        /\ phase' \in {"debate", "voting", "counting"}
    BY <1>2 DEF IInv, TypeOK, CreateInterestSnapshot
  <2> QED BY <2>1, BeginTally
<1>3. CASE CloseVoting
  <2>1. /\ TypeOK /\ direct["vote"] \cap privileged \in SUBSET Member
        /\ Begin("vote", direct["vote"] \cap privileged)
        /\ phase' \in {"debate", "voting", "counting"}
    BY <1>3 DEF IInv, TypeOK, CloseVoting
  <2> QED BY <2>1, BeginTally
<1>4. CASE SetSnapshotEvent \/ VotingClosed
  BY <1>4 DEF SetSnapshotEvent, VotingClosed, Tally
<1>5. CASE NextDirect \/ PassOver \/ AddDelegation \/ Return
  BY <1>5, NextDirectTally, PassOverTally, AddDelegationTally, ReturnTally
<1>6. ASSUME NEW m \in Member,
             \/ UpdateDelegation(m) \/ DeleteDelegation(m)
             \/ ChangePrivilege(m) \/ DeleteMember(m) \/ UpdateMembership(m)
             \/ UpdateInterest(m) \/ UpdateVote(m)
      PROVE  job' = Null
  BY <1>6 DEF UpdateDelegation, DeleteDelegation, ChangePrivilege, DeleteMember,
              UpdateMembership, UpdateInterest, UpdateVote, Change, calls
<1>7. CASE UNCHANGED vars
  <2>1. UNCHANGED <<delegation, privileged, direct, delegating, weight, job, todo, stack>>
    BY <1>7 DEF vars
  <2>2. issue_delegation' = issue_delegation /\ Depth' = Depth
    BY <1>7, SameTables DEF vars, tables, Depth
  <2>3. (RowsAreChains <=> RowsAreChains') /\ (StackIsChain <=> StackIsChain')
    BY <2>1, <2>2 DEF RowsAreChains, ChainOf, StackIsChain
  <2>4. WeightsAdd <=> WeightsAdd'
    BY <2>1, <2>2 DEF WeightsAdd, Returned, Added, Behind, OnStack, CountedIn
  <2> QED BY <2>1, <2>3, <2>4 DEF Tally
<1>8. CASE Next
  BY <1>8, <1>1, <1>2, <1>3, <1>4, <1>5, <1>6 DEF Next, Count, Tally
<1> QED BY <1>7, <1>8

LEMMA TallyHolds == Spec => [](IInv /\ Tally)
<1>1. Init => IInv /\ Tally
  BY InitInvariant DEF Init, Tally
<1>2. (IInv /\ Tally) /\ [Next]_vars => (IInv /\ Tally)'
  BY NextInvariant, TallyStays
<1> QED BY <1>1, <1>2, PTL DEF Spec

-----------------------------------------------------------------------------
(* What the rows say when the loops have ended.                             *)

(* The view has one row of every truster, which names the trustee.          *)
LEMMA TrusteeIsInView ==
  ASSUME TypeOK
  PROVE  /\ \A r \in issue_delegation : Trustee(r.truster) = r.trustee
         /\ \A m \in Member : Trustee(m) # Null =>
              Trustee(m) \in Member /\ \E r \in issue_delegation :
                                          r.truster = m /\ r.trustee = Trustee(m)
<1>1. /\ \A r \in delegation : /\ r.truster \in Member /\ r.scope \in {"unit", "area", "issue"}
                               /\ r.trustee \in Member \cup {Null}
      /\ \A r, o \in delegation : r.truster = o.truster /\ r.scope = o.scope => r = o
  BY DEF TypeOK, Allowed, DelegationRow, Scope, Level
<1>2. Level["unit"] = 1 /\ Level["area"] = 2 /\ Level["issue"] = 3
  BY DEF Level
<1> DEFINE rows(m) == IF Own(m, "issue") # {} THEN Own(m, "issue")
                      ELSE IF Own(m, "area") # {} THEN Own(m, "area") ELSE Own(m, "unit")
<1>3. ASSUME NEW r \in issue_delegation PROVE rows(r.truster) = {r}
  <2>1. r \in delegation /\ \A o \in delegation : o.truster = r.truster => Level[o.scope] <= Level[r.scope]
    BY DEF issue_delegation
  <2>2. Own(r.truster, r.scope) = {r}
    BY <1>1, <2>1 DEF Own
  <2>3. CASE r.scope = "issue"
    BY <2>2, <2>3
  <2>4. CASE r.scope = "area"
    <3>1. Own(r.truster, "issue") = {}
      BY <1>2, <2>1, <2>4 DEF Own
    <3> QED BY <2>2, <2>4, <3>1
  <2>5. CASE r.scope = "unit"
    <3>1. Own(r.truster, "issue") = {} /\ Own(r.truster, "area") = {}
      BY <1>2, <2>1, <2>5 DEF Own
    <3> QED BY <2>2, <2>5, <3>1
  <2> QED BY <2>1, <2>3, <2>4, <2>5, <1>1
<1>4. ASSUME NEW r \in issue_delegation PROVE Trustee(r.truster) = r.trustee
  <2>1. r.truster \in privileged /\ r.trustee \in Member \cup {Null}
    BY <1>1 DEF issue_delegation
  <2>2. Trustee(r.truster) = CHOOSE t \in Member \cup {Null} : \E o \in {r} : o.trustee = t
    BY <1>3, <2>1 DEF Trustee
  <2> QED BY <2>1, <2>2
<1>5. ASSUME NEW m \in Member, Trustee(m) # Null
      PROVE  \E r \in issue_delegation : r.truster = m
  <2>1. m \in privileged /\ rows(m) # {}
    BY <1>5 DEF Trustee
  <2>2. CASE Own(m, "issue") # {}
    <3>1. PICK r \in delegation : r.truster = m /\ r.scope = "issue"
      BY <2>2 DEF Own
    <3> QED BY <3>1, <2>1, <1>1, <1>2 DEF issue_delegation
  <2>3. CASE Own(m, "issue") = {} /\ Own(m, "area") # {}
    <3>1. PICK r \in delegation : r.truster = m /\ r.scope = "area"
      BY <2>3 DEF Own
    <3>2. \A o \in delegation : o.truster = m => o.scope \in {"area", "unit"}
      BY <2>3, <1>1 DEF Own
    <3> QED BY <3>1, <3>2, <2>1, <1>2 DEF issue_delegation
  <2>4. CASE Own(m, "issue") = {} /\ Own(m, "area") = {}
    <3>1. PICK r \in delegation : r.truster = m /\ r.scope = "unit"
      BY <2>1, <2>4 DEF Own
    <3>2. \A o \in delegation : o.truster = m => o.scope = "unit"
      BY <2>4, <1>1 DEF Own
    <3> QED BY <3>1, <3>2, <2>1, <1>2 DEF issue_delegation
  <2> QED BY <2>2, <2>3, <2>4
<1>6. ASSUME NEW m \in Member, Trustee(m) # Null
      PROVE  Trustee(m) \in Member /\ \E r \in issue_delegation :
                                          r.truster = m /\ r.trustee = Trustee(m)
  <2>1. PICK r \in issue_delegation : r.truster = m
    BY <1>5, <1>6
  <2>2. Trustee(m) = r.trustee
    BY <1>4, <2>1
  <2>3. r.trustee \in Member \cup {Null}
    BY <1>1 DEF issue_delegation
  <2> QED BY <1>6, <2>1, <2>2, <2>3
<1> QED BY <1>4, <1>6

(* What Carrier defines by recursion: who acts for each member, looking no  *)
(* further than n delegations.                                             *)
After(kind, n, f) ==
    [m \in Member |-> IF m \in direct[kind] THEN m
                      ELSE IF n = 0 \/ Trustee(m) = Null THEN Null
                      ELSE f[n - 1][Trustee(m)]]

Carries(kind, n, f) == f = [k \in 0 .. n |-> After(kind, k, f)]

(* There is such a function: the least n without one follows a number that  *)
(* has one, which reaches one delegation further.                          *)
LEMMA CarriersExist ==
  ASSUME NEW kind, NEW n \in Nat
  PROVE  \E f : Carries(kind, n, f)
<1> DEFINE Bad == {k \in Nat : ~ \E f : Carries(kind, k, f)}
<1>1. ASSUME Bad # {} PROVE FALSE
  <2>1. PICK k \in Bad : \A j \in Bad : k <= j
    <3>1. Bad \subseteq Nat
      OBVIOUS
    <3> HIDE DEF Bad
    <3> QED BY <1>1, <3>1, FirstOf
  <2>2. k \in Nat /\ ~ \E f : Carries(kind, k, f)
    OBVIOUS
  <2>3. CASE k = 0
    <3> DEFINE f == [i \in 0 .. 0 |->
                       [m \in Member |-> IF m \in direct[kind] THEN m ELSE Null]]
    <3>1. Carries(kind, 0, f)
      BY DEF Carries, After
    <3> QED BY <2>2, <2>3, <3>1
  <2>4. CASE k # 0
    <3>1. k - 1 \in Nat /\ k - 1 \notin Bad
      BY <2>1, <2>2, <2>4
    <3>2. PICK g : Carries(kind, k - 1, g)
      BY <3>1
    <3> DEFINE f == [i \in 0 .. k |-> IF i = k THEN After(kind, k, g) ELSE g[i]]
    <3>3. \A i \in 0 .. k : After(kind, i, f) = After(kind, i, g)
      <4> SUFFICES ASSUME NEW i \in 0 .. k PROVE After(kind, i, f) = After(kind, i, g)
        OBVIOUS
      <4>1. CASE i = 0
        BY <4>1 DEF After
      <4>2. CASE i # 0
        <5>1. i - 1 \in 0 .. k /\ i - 1 # k
          BY <4>2, <2>2
        <5>2. f[i - 1] = g[i - 1]
          BY <5>1
        <5> HIDE DEF f
        <5> QED BY <5>2 DEF After
      <4> QED BY <4>1, <4>2
    <3>4. \A i \in 0 .. k : f[i] = After(kind, i, g)
      <4> SUFFICES ASSUME NEW i \in 0 .. k PROVE f[i] = After(kind, i, g)
        OBVIOUS
      <4>1. CASE i = k
        BY <4>1
      <4>2. CASE i # k
        <5>1. i \in 0 .. k - 1
          BY <4>2, <2>2
        <5>2. g[i] = After(kind, i, g)
          BY <5>1, <3>2 DEF Carries
        <5> QED BY <4>2, <5>2
      <4> QED BY <4>1, <4>2
    <3>5. f = [i \in 0 .. k |-> f[i]]
      OBVIOUS
    <3> HIDE DEF f
    <3>6. Carries(kind, k, f)
      BY <3>3, <3>4, <3>5 DEF Carries
    <3> QED BY <2>2, <3>6
  <2> QED BY <2>3, <2>4
<1> QED BY <1>1

LEMMA CarrierUnfolds ==
  ASSUME NEW kind
  PROVE  \E f : /\ Carries(kind, Cardinality(Member), f)
                /\ Carrier(kind) = f[Cardinality(Member)]
<1> DEFINE f == CHOOSE g : g = [n \in 0 .. Cardinality(Member) |-> After(kind, n, g)]
<1>1. Carrier(kind) = f[Cardinality(Member)]
  BY DEF Carrier, After
<1>2. Cardinality(Member) \in Nat
  BY BehindFinite
<1>3. \E g : g = [n \in 0 .. Cardinality(Member) |-> After(kind, n, g)]
  BY <1>2, CarriersExist DEF Carries
<1>4. f = [n \in 0 .. Cardinality(Member) |-> After(kind, n, f)]
  BY <1>3
<1> QED BY <1>1, <1>4 DEF Carries

(* When the loops have ended, who has no row has a trustee without one.     *)
Rest == job # Null /\ LoopDone

LEMMA AfterTheLoops ==
  ASSUME IInv, Tally, Rest
  PROVE  /\ TypeOK /\ RowsAreChains /\ job \in Kind
         /\ \A m \in CountedIn(job) :
              m \in Member /\ weight[job][m] = 1 + Cardinality(Behind(m))
         /\ \A m \in Member : delegating[job][m] = <<>> /\ m \notin direct[job] /\ Trustee(m) # Null
              => /\ Trustee(m) \in Member /\ Trustee(m) \notin direct[job]
                 /\ delegating[job][Trustee(m)] = <<>>
<1>1. /\ TypeOK /\ RowsAreChains /\ WeightsAdd /\ EveryRowIsFollowed
      /\ todo = {} /\ Depth = 0 /\ job \in Kind /\ job # Null
  BY DEF IInv, Tally, Rest, LoopDone, Depth, TypeOK
<1>2. \A m : ~OnStack(m)
  BY <1>1 DEF OnStack
<1>3. direct[job] \subseteq Member
  BY <1>1 DEF TypeOK
<1>4. \A m \in CountedIn(job) :
        m \in Member /\ weight[job][m] = 1 + Cardinality(Behind(m))
  BY <1>1, <1>2, <1>3 DEF WeightsAdd, Returned, CountedIn
<1>5. ASSUME NEW m \in Member, delegating[job][m] = <<>>, m \notin direct[job],
             Trustee(m) # Null
      PROVE  /\ Trustee(m) \in Member /\ Trustee(m) \notin direct[job]
             /\ delegating[job][Trustee(m)] = <<>>
  <2>1. Trustee(m) \in Member
    BY <1>1, <1>5, TrusteeIsInView
  <2>2. PICK r \in issue_delegation : r.truster = m /\ r.trustee = Trustee(m)
    BY <1>1, <1>5, TrusteeIsInView
  <2>3. m \notin CountedIn(job)
    BY <1>5 DEF CountedIn
  <2>4. Trustee(m) \notin CountedIn(job)
    BY <2>2, <2>3, <1>1, <1>2 DEF EveryRowIsFollowed, Followed
  <2> QED BY <2>1, <2>4 DEF CountedIn
<1> QED BY <1>1, <1>4, <1>5

(* A row leads from trustee to trustee.                                     *)
LEMMA RowsLead ==
  ASSUME TypeOK, job # Null, RowsAreChains, NEW m \in Member, delegating[job][m] # <<>>
  PROVE  LET s == delegating[job][m]
         IN  /\ Len(s) \in Nat /\ Len(s) >= 1 /\ Len(s) <= Cardinality(Member)
             /\ \A i \in 1 .. Len(s) : s[i] \in Member
             /\ m \notin direct[job] /\ Trustee(m) = s[1] /\ s[Len(s)] \in direct[job]
             /\ \A i \in 1 .. Len(s) - 1 :
                  /\ s[i] \notin direct[job] /\ Trustee(s[i]) = s[i + 1]
                  /\ delegating[job][s[i]] # <<>>
                  /\ Len(delegating[job][s[i]]) = Len(s) - i
                  /\ delegating[job][s[i]][Len(s) - i] = s[Len(s)]
<1>0. PICK s \in Seq(Member) : s = delegating[job][m]
  BY RowTyped
<1>1. /\ Len(s) \in Nat /\ Len(s) # 0
      /\ \A i \in 1 .. Len(s) : s[i] \in Member
  BY <1>0, RowTyped
<1>2. ChainOf(m, s)
  BY <1>0 DEF RowsAreChains
<1>3. m \notin direct[job] /\ s[Len(s)] \in direct[job] /\ Len(s) <= Cardinality(Member)
  BY <1>2 DEF ChainOf
<1>4. ASSUME NEW n \in Member, NEW c, ChainOf(n, c) PROVE Trustee(n) = c[1]
  BY <1>4, TrusteeIsInView DEF ChainOf
<1>5. Trustee(m) = s[1]
  BY <1>2, <1>4
<1>6. ASSUME NEW i \in 1 .. Len(s) - 1
      PROVE  /\ s[i] \notin direct[job] /\ Trustee(s[i]) = s[i + 1]
             /\ delegating[job][s[i]] # <<>>
             /\ Len(delegating[job][s[i]]) = Len(s) - i
             /\ delegating[job][s[i]][Len(s) - i] = s[Len(s)]
  <2>1. i \in 1 .. Len(s) /\ s[i] \in Member /\ Len(s) - i # 0
        /\ 1 \in 1 .. Len(s) - i /\ Len(s) - i \in 1 .. Len(s) - i /\ i + (Len(s) - i) = Len(s)
    BY <1>1
  <2>2. /\ s[i] \notin direct[job] /\ Len(delegating[job][s[i]]) = Len(s) - i
        /\ \A y \in 1 .. Len(s) - i : delegating[job][s[i]][y] = s[i + y]
    BY <1>2 DEF ChainOf
  <2>3. delegating[job][s[i]] # <<>>
    BY <2>1, <2>2, RowTyped
  <2>4. Trustee(s[i]) = delegating[job][s[i]][1]
    BY <2>1, <2>3, <1>4 DEF RowsAreChains
  <2>5. delegating[job][s[i]][Len(s) - i] = s[i + (Len(s) - i)] /\ delegating[job][s[i]][1] = s[i + 1]
    BY <2>1, <2>2
  <2> QED BY <2>1, <2>2, <2>3, <2>4, <2>5
<1>7. Len(s) >= 1
  BY <1>1
<1> QED BY <1>0, <1>1, <1>3, <1>5, <1>6, <1>7

(* Whom a member is carried by in so many steps: a direct member by nobody  *)
(* else, who has a row by the last one in it, the others by nobody.         *)
CarriedRight(n, f) ==
    \A m \in Member :
        /\ m \in direct[job] => f[n][m] = m
        /\ delegating[job][m] # <<>> /\ Len(delegating[job][m]) <= n =>
             f[n][m] = delegating[job][m][Len(delegating[job][m])]
        /\ delegating[job][m] = <<>> /\ m \notin direct[job] => f[n][m] = Null

LEMMA CarriedStep ==
  ASSUME IInv, Tally, Rest, NEW C \in Nat, NEW f, Carries(job, C, f), NEW n \in 0 .. C,
         n = 0 \/ CarriedRight(n - 1, f)
  PROVE  CarriedRight(n, f)
<1>1. job # Null /\ TypeOK /\ RowsAreChains
  BY AfterTheLoops DEF Rest
<1>2. f[n] = After(job, n, f)
  <2>1. f = [k \in 0 .. C |-> After(job, k, f)]
    BY DEF Carries
  <2> HIDE DEF After
  <2> QED BY <2>1
<1>3. \A m \in Member :
        f[n][m] = IF m \in direct[job] THEN m
                  ELSE IF n = 0 \/ Trustee(m) = Null THEN Null
                  ELSE f[n - 1][Trustee(m)]
  BY <1>2 DEF After
<1>4. ASSUME NEW m \in Member, delegating[job][m] # <<>>, Len(delegating[job][m]) <= n
      PROVE  f[n][m] = delegating[job][m][Len(delegating[job][m])]
  <2>1. PICK s : s = delegating[job][m]
    OBVIOUS
  <2>2. /\ Len(s) \in Nat /\ Len(s) >= 1
        /\ \A i \in 1 .. Len(s) : s[i] \in Member
        /\ m \notin direct[job] /\ Trustee(m) = s[1] /\ s[Len(s)] \in direct[job]
        /\ \A i \in 1 .. Len(s) - 1 :
             /\ delegating[job][s[i]] # <<>>
             /\ Len(delegating[job][s[i]]) = Len(s) - i
             /\ delegating[job][s[i]][Len(s) - i] = s[Len(s)]
    BY <2>1, <1>1, <1>4, RowsLead
  <2>3. n # 0 /\ n - 1 \in Nat /\ 1 \in 1 .. Len(s) /\ s[1] \in Member /\ s[1] # Null
    BY <2>1, <2>2, <1>4, MemberAssumption
  <2>4. f[n][m] = f[n - 1][s[1]]
    BY <2>2, <2>3, <1>3
  <2>5. CASE Len(s) = 1
    BY <2>1, <2>2, <2>3, <2>4, <2>5 DEF CarriedRight
  <2>6. CASE Len(s) # 1
    <3>0. Len(s) <= n /\ n \in Nat /\ Len(s) \in Nat /\ Len(s) >= 1
      BY <2>1, <2>2, <1>4
    <3>1. 1 \in 1 .. Len(s) - 1 /\ Len(s) - 1 <= n - 1
      <4>1. PICK l \in Nat : l = Len(s)
        BY <3>0
      <4>2. l <= n /\ l >= 1 /\ l # 1 /\ n \in Nat
        BY <3>0, <4>1, <2>6
      <4>3. 1 \in 1 .. l - 1 /\ l - 1 <= n - 1
        BY <4>2
      <4> QED BY <4>1, <4>3
    <3>2. f[n - 1][s[1]] = delegating[job][s[1]][Len(s) - 1]
      BY <2>2, <2>3, <3>1 DEF CarriedRight
    <3> QED BY <2>1, <2>2, <2>4, <3>1, <3>2
  <2> QED BY <2>5, <2>6
<1>5. ASSUME NEW m \in Member, delegating[job][m] = <<>>, m \notin direct[job]
      PROVE  f[n][m] = Null
  <2>1. CASE n = 0 \/ Trustee(m) = Null
    BY <2>1, <1>3, <1>5
  <2>2. CASE n # 0 /\ Trustee(m) # Null
    <3>1. /\ Trustee(m) \in Member /\ Trustee(m) \notin direct[job]
          /\ delegating[job][Trustee(m)] = <<>>
      BY <2>2, <1>5, AfterTheLoops
    <3>2. f[n - 1][Trustee(m)] = Null
      BY <2>2, <3>1 DEF CarriedRight
    <3> QED BY <2>2, <3>2, <1>3, <1>5
  <2> QED BY <2>1, <2>2
<1>6. \A m \in Member : m \in direct[job] => f[n][m] = m
  BY <1>3
<1> QED BY <1>4, <1>5, <1>6 DEF CarriedRight

(* Who acts for each member, when the loops have ended.                     *)
LEMMA WhoCarries ==
  ASSUME IInv, Tally, Rest, NEW m \in Member
  PROVE  /\ m \in direct[job] => Carrier(job)[m] = m
         /\ delegating[job][m] # <<>> =>
              Carrier(job)[m] = delegating[job][m][Len(delegating[job][m])]
         /\ delegating[job][m] = <<>> /\ m \notin direct[job] => Carrier(job)[m] = Null
<1>1. PICK C : C = Cardinality(Member)
  OBVIOUS
<1>2. C \in Nat
  BY <1>1, BehindFinite
<1>3. PICK f : Carries(job, C, f) /\ Carrier(job) = f[C]
  <2>1. \A k : \E f : Carries(k, Cardinality(Member), f) /\ Carrier(k) = f[Cardinality(Member)]
    BY CarrierUnfolds
  <2> QED BY <2>1, <1>1
<1> DEFINE Bad == {n \in 0 .. C : ~CarriedRight(n, f)}
<1>4. ASSUME Bad # {} PROVE FALSE
  <2>1. PICK n \in Bad : \A k \in Bad : n <= k
    <3>1. Bad \subseteq Nat
      BY <1>2
    <3> HIDE DEF Bad
    <3> QED BY <1>4, <3>1, FirstOf
  <2>2. n \in 0 .. C /\ ~CarriedRight(n, f)
    OBVIOUS
  <2>3. n = 0 \/ CarriedRight(n - 1, f)
    <3>1. n # 0 => n - 1 \in 0 .. C /\ ~(n <= n - 1)
      BY <1>2, <2>2
    <3> QED BY <2>1, <3>1
  <2> QED BY <2>2, <2>3, <1>2, <1>3, CarriedStep
<1>5. C \in 0 .. C
  BY <1>2
<1>6. CarriedRight(C, f)
  BY <1>4, <1>5
<1>7. delegating[job][m] # <<>> => Len(delegating[job][m]) <= C
  BY <1>1, AfterTheLoops, RowsLead DEF Rest
<1> QED BY <1>3, <1>6, <1>7 DEF CarriedRight

-----------------------------------------------------------------------------
(* Whoever a direct member acts for is behind that member, or the member.   *)
LEMMA CountedOnce ==
  ASSUME IInv, Tally, Rest, NEW d \in direct[job]
  PROVE  weight[job][d] = Cardinality({m \in Member : Carrier(job)[m] = d})
<1>1. /\ TypeOK /\ RowsAreChains /\ job \in Kind /\ job # Null
      /\ d \in Member /\ weight[job][d] = 1 + Cardinality(Behind(d)) /\ d # Null
  BY AfterTheLoops, MemberAssumption DEF CountedIn, Rest
<1>2. ASSUME NEW m \in Member
      PROVE  Carrier(job)[m] = d <=> m = d \/ m \in Behind(d)
  <2>1. CASE m \in direct[job]
    <3>1. delegating[job][m] = <<>>
      BY <2>1, <1>1, RowsLead
    <3>2. m \notin Behind(d)
      BY <3>1 DEF Behind
    <3> QED BY <2>1, <3>2, WhoCarries
  <2>2. CASE delegating[job][m] # <<>>
    <3>1. PICK s \in Seq(Member) : s = delegating[job][m]
      BY <1>1, RowTyped
    <3>2. /\ Len(s) \in Nat /\ Len(s) >= 1 /\ m \notin direct[job]
          /\ \A i \in 1 .. Len(s) - 1 : s[i] \notin direct[job]
      BY <2>2, <3>1, <1>1, RowsLead
    <3>3. DOMAIN s = 1 .. Len(s)
      OBVIOUS
    <3>4. m \in Behind(d) <=> \E i \in 1 .. Len(s) : s[i] = d
      BY <3>1, <3>3 DEF Behind
    <3>5. \A i \in 1 .. Len(s) : s[i] = d => i = Len(s)
      BY <3>2
    <3>6. Len(s) \in 1 .. Len(s)
      BY <3>2
    <3>7. m \in Behind(d) <=> s[Len(s)] = d
      BY <3>4, <3>5, <3>6
    <3>8. Carrier(job)[m] = s[Len(s)]
      BY <2>2, <3>1, WhoCarries
    <3> QED BY <3>2, <3>7, <3>8
  <2>3. CASE m \notin direct[job] /\ delegating[job][m] = <<>>
    <3>1. m \notin Behind(d)
      BY <2>3 DEF Behind
    <3> QED BY <2>3, <3>1, <1>1, WhoCarries
  <2> QED BY <2>1, <2>2, <2>3
<1>3. Behind(d) \in SUBSET Member
  BY DEF Behind
<1>4. d \notin Behind(d)
  <2>1. delegating[job][d] = <<>>
    BY <1>1, RowsLead
  <2> QED BY <2>1 DEF Behind
<1>5. {m \in Member : Carrier(job)[m] = d} = Behind(d) \cup {d}
  BY <1>1, <1>2, <1>3
<1>6. IsFiniteSet(Behind(d)) /\ Cardinality(Behind(d)) \in Nat
  BY <1>3, BehindFinite
<1>7. Cardinality(Behind(d) \cup {d}) = Cardinality(Behind(d)) + 1
  BY <1>4, <1>6, FS_AddElement
<1>8. Cardinality(Behind(d) \cup {d}) = 1 + Cardinality(Behind(d))
  BY <1>6, <1>7
<1>9. Cardinality({m \in Member : Carrier(job)[m] = d}) = Cardinality(Behind(d) \cup {d})
  BY <1>5
<1> QED BY <1>1, <1>8, <1>9

LEMMA RowsTell ==
  ASSUME IInv, Tally, Rest, NEW m \in Member
  PROVE  /\ delegating[job][m] # <<>> <=> m \notin direct[job] /\ Carrier(job)[m] # Null
         /\ delegating[job][m] # <<>> =>
              /\ delegating[job][m][1] = Trustee(m)
              /\ delegating[job][m][Len(delegating[job][m])] \in direct[job]
              /\ \A i \in 1 .. Len(delegating[job][m]) - 1 :
                    /\ delegating[job][m][i] \notin direct[job]
                    /\ Trustee(delegating[job][m][i]) = delegating[job][m][i + 1]
              /\ weight[job][m] = 1 + Cardinality(Behind(m))
<1>1. /\ TypeOK /\ RowsAreChains /\ job \in Kind /\ job # Null /\ direct[job] \subseteq Member
  BY AfterTheLoops DEF CountedIn, Rest
<1>2. CASE delegating[job][m] # <<>>
  <2>1. PICK s : s = delegating[job][m]
    OBVIOUS
  <2>2. /\ m \notin direct[job] /\ Trustee(m) = s[1] /\ s[Len(s)] \in direct[job]
        /\ \A i \in 1 .. Len(s) - 1 : s[i] \notin direct[job] /\ Trustee(s[i]) = s[i + 1]
    BY <2>1, <1>1, <1>2, RowsLead
  <2>3. Carrier(job)[m] = s[Len(s)] /\ Carrier(job)[m] # Null
    BY <2>1, <2>2, <1>1, <1>2, WhoCarries, MemberAssumption
  <2>4. weight[job][m] = 1 + Cardinality(Behind(m))
    BY <1>2, AfterTheLoops DEF CountedIn
  <2> QED BY <2>1, <2>2, <2>3, <2>4, <1>2
<1>3. CASE delegating[job][m] = <<>>
  BY <1>3, WhoCarries
<1> QED BY <1>2, <1>3

LEMMA VotesFollow ==
  ASSUME IInv, Tally
  PROVE  VotesFollowDelegations
<1>1. \A kind \in Kind : Counted(kind) => kind = job /\ Rest
  BY MemberAssumption DEF Counted, Rest
<1>2. EveryoneCountedOnce
  BY <1>1, CountedOnce DEF EveryoneCountedOnce
<1>3. ASSUME NEW kind \in Kind, Counted(kind), NEW m \in Member
      PROVE  /\ delegating[kind][m] # <<>> <=> m \notin direct[kind] /\ Carrier(kind)[m] # Null
             /\ delegating[kind][m] # <<>> =>
                  /\ delegating[kind][m][1] = Trustee(m)
                  /\ delegating[kind][m][Len(delegating[kind][m])] \in direct[kind]
                  /\ \A i \in 1 .. Len(delegating[kind][m]) - 1 :
                        /\ delegating[kind][m][i] \notin direct[kind]
                        /\ Trustee(delegating[kind][m][i]) = delegating[kind][m][i + 1]
                  /\ weight[kind][m] = 1 + Cardinality({j \in Member :
                       \E i \in DOMAIN delegating[kind][j] : delegating[kind][j][i] = m})
  <2>1. kind = job /\ Rest
    BY <1>1, <1>3
  <2>2. /\ delegating[job][m] # <<>> <=> m \notin direct[job] /\ Carrier(job)[m] # Null
        /\ delegating[job][m] # <<>> =>
             /\ delegating[job][m][1] = Trustee(m)
             /\ delegating[job][m][Len(delegating[job][m])] \in direct[job]
             /\ \A i \in 1 .. Len(delegating[job][m]) - 1 :
                   /\ delegating[job][m][i] \notin direct[job]
                   /\ Trustee(delegating[job][m][i]) = delegating[job][m][i + 1]
    BY <2>1, RowsTell
  <2>3. delegating[job][m] # <<>> => weight[job][m] = 1 + Cardinality({j \in Member :
          \E i \in DOMAIN delegating[job][j] : delegating[job][j][i] = m})
    <3>1. delegating[job][m] # <<>> => weight[job][m] = 1 + Cardinality(Behind(m))
      BY <2>1, RowsTell
    <3> QED BY <3>1 DEF Behind
  <2> QED BY <2>1, <2>2, <2>3
<1>4. ChainsAreDelegations
  BY <1>3 DEF ChainsAreDelegations
<1> QED BY <1>2, <1>4 DEF VotesFollowDelegations

(* When a count has ended, every member is counted with exactly one direct  *)
(* member, the first on the way from trustee to trustee, and the rows that  *)
(* were stored tell this way: whatever the order of the loops, the cycles,  *)
(* and what an earlier count has left.                                     *)
THEOREM VotesAreCountedOnce == Spec => []VotesFollowDelegations
<1>1. IInv /\ Tally => VotesFollowDelegations
  BY VotesFollow
<1> QED BY <1>1, TallyHolds, PTL

=============================================================================
