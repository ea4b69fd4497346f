------------------------ MODULE MCProportionalOrder ------------------------
(***************************************************************************)
(* Model checking of ProportionalOrder: members, suggestions and issues.   *)
(***************************************************************************)
EXTENDS ProportionalOrder, TLC

CONSTANTS m1, m2, m3, i1, i2, a1, a2, u1

\* All suggestions are for one initiative, the other has none.
MCInitiativeOf == [s \in Suggestion |-> i1]

\* Two members are counted, or three of which one has a delegation.
Two   == [m \in Member |-> IF m = m3 THEN 0 ELSE 1]
Three == [m \in Member |-> IF m = m1 THEN 2 ELSE 1]
MCSnapshotWeight == {Two, Three}

MCStart ==
    {[opinion |-> [m \in Member |-> CASE m = m1 -> <<0, 0, 0>>
                                       [] m = m2 -> <<0, 1, 0>>
                                       [] m = m3 -> <<1, 0, 0>>],
      snapshot |-> Three]}

Rated(third) == {o \in [Member -> [Suggestion -> Ratings \cup {0}]] : o[m3] = third}
MCCalm ==
    [opinion : Rated(<<0, 0, 0>>), snapshot : {Two}] \cup
    [opinion : Rated(<<0, 0, 1>>), snapshot : {Three}]

\* One issue in one area, two in another.
MCAreaOf == 1 :> a1 @@ 2 :> a2 @@ 3 :> a2
MCUnitOf == a1 :> u1 @@ a2 :> u1

\* A member may bring more delegations to one issue than to the others.
Equal   == [m \in Supporter |-> [i \in Issue |-> 1]]
Unequal == [m \in Supporter |-> [i \in Issue |-> IF m = m1 /\ i = 1 THEN 3 ELSE 1]]

MCSupport ==
    {[newest |-> 2, supporters |-> <<{m1, m2}, {m1}, {}>>, weight |-> Unequal]}

MCCalmSupport ==
    [newest : {3},
     supporters : {s \in [Issue -> SUBSET Supporter] : m3 \notin s[2] /\ m2 \notin s[3]},
     weight : {Equal, Unequal}]
=============================================================================
