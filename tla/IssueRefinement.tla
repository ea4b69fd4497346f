-------------------------- MODULE IssueRefinement ---------------------------
(***************************************************************************)
(* The rows of the database seen as the procedure they implement.           *)
(***************************************************************************)
EXTENDS IssueLifecycle

PhaseOf ==
    CASE issue.state \in Finished -> "finished"
      [] issue.state \in Canceled -> "canceled"
      [] OTHER -> issue.state

Admitted == {k \in Initiative : initiative[k].admitted = "admitted"}

(* Initiatives are admitted in one transaction and the vote is opened in a  *)
(* later one; ballots are counted in one and published in a later one.      *)
Procedure ==
    INSTANCE IssueProcedure
    WITH phase  <- PhaseOf,
         paper  <- IF issue.fully_frozen # Null THEN Admitted ELSE {},
         box    <- voter,
         result <- IF issue.state \in Finished THEN counted ELSE Null

(* However its transactions interleave, fail and are repeated, the system   *)
(* conducts the procedure: in particular the result is exactly the ballots  *)
(* that were in the box when the vote ended, and the paper never changes.   *)
ImplementsProcedure == Procedure!Spec
=============================================================================
