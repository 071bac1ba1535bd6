---------------------------- MODULE MCDiffOracle ----------------------------
(* The instance TLC checks: the row is selected by the query that churn   *)
(* may bring in, and by no other.                                           *)
EXTENDS DiffOracle
OneRow == [q1 |-> {}, q2 |-> {"a"}]
AllFaults == {"none", "row", "got", "chain", "drop", "error", "reject"}
Early == {"churn", "churn_mirror", "quiesce"}
=============================================================================
