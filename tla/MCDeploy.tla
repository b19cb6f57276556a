------------------------------ MODULE MCDeploy ------------------------------
(* TLC instances of Deploy with LogTail.                                        *)
EXTENDS LogTail, TLC

ImageSymmetry == Permutations(Images)
=============================================================================
