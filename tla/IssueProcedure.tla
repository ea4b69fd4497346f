--------------------------- MODULE IssueProcedure ---------------------------
(***************************************************************************)
(* What the system promises the members about an issue, without the        *)
(* process that computes it: an issue is debated in three phases, then the *)
(* ballot paper is fixed and the vote opens, members put ballots into the  *)
(* box and take them out, and in one step the vote is over and its result  *)
(* is the content of the box.  Before that, an issue may be canceled.      *)
(***************************************************************************)
EXTENDS Naturals

CONSTANTS Member, Initiative, Null

VARIABLES
    phase,     \* the phase the issue is in
    paper,     \* the initiatives that are voted on
    box,       \* the members whose ballot is in the box
    result     \* the ballots the published result was computed from, or Null

procedure == <<phase, paper, box, result>>

Debate == <<"admission", "discussion", "verification">>
Open   == {"admission", "discussion", "verification", "voting"}

Init ==
    /\ phase \in {"admission", "discussion"}
    /\ paper = {} /\ box = {} /\ result = Null

Advance ==
    /\ \E n \in {1, 2} : phase = Debate[n] /\ phase' = Debate[n + 1]
    /\ UNCHANGED <<paper, box, result>>

OpenVote ==
    /\ phase = "verification" /\ phase' = "voting"
    /\ paper' \in (SUBSET Initiative) \ {{}}
    /\ UNCHANGED <<box, result>>

CastBallot ==
    /\ phase = "voting"
    /\ \E m \in Member : box' = box \cup {m} \/ box' = box \ {m}
    /\ UNCHANGED <<phase, paper, result>>

Finish ==
    /\ phase = "voting" /\ phase' = "finished"
    /\ result' = box
    /\ UNCHANGED <<paper, box>>

Cancel ==
    /\ phase \in Open /\ phase' = "canceled"
    /\ UNCHANGED <<paper, box, result>>

Next == Advance \/ OpenVote \/ CastBallot \/ Finish \/ Cancel

Spec == Init /\ [][Next]_procedure
=============================================================================
