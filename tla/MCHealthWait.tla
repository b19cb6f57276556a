---------------------------- MODULE MCHealthWait ----------------------------
(* The TLC instance of HealthWait. *)
EXTENDS HealthWait, TLC

CONSTANTS r1, r2, r3, id1, id2, pinned, tag

(* The verified image under its pinned name and under its tag, and others. *)
Verified == [name |-> pinned, id |-> id1, check |-> "active"]
ByTag    == [name |-> tag, id |-> id1, check |-> "active"]
Older    == [name |-> tag, id |-> id2, check |-> "none"]

MCArtifacts == {Verified, ByTag, Older}
=============================================================================
