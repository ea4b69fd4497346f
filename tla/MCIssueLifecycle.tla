-------------------------- MODULE MCIssueLifecycle --------------------------
(***************************************************************************)
(* Model checking of IssueLifecycle.  Every duration is one tick of the    *)
(* clock; each run exercises the frontend transactions its question needs. *)
(***************************************************************************)
EXTENDS IssueRefinement

NoOps     == {}
DebateOps == {"create", "revoke"}
MemberOps == {"support", "uninterest", "vote", "unvote"}
QuietOps  == {"create", "vote"}
AnyOps    == DebateOps \cup MemberOps
=============================================================================
