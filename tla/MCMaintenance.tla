--------------------------- MODULE MCMaintenance ---------------------------
(* TLC instances of Maintenance. *)
EXTENDS Maintenance, TLC

CONSTANTS s1, s2, s3, i1, i2, i3, repo, other

(* s3 is alone in the second project; s2 and i3 have a repository of their own. *)
MCProjectOf == [s \in Services |-> IF s = s3 THEN 2 ELSE 1]
MCRepositoryOf == [x \in Services \cup Images |-> IF x \in {s2, i3} THEN other
                                                                 ELSE repo]
=============================================================================
