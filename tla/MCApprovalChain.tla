--------------------------- MODULE MCApprovalChain ---------------------------
(* Small instances of ApprovalChain for TLC: two sequential steps, with or  *)
(* without a parallel one; commands are interchangeable.                    *)
EXTENDS ApprovalChain, TLC

CONSTANTS s1, s2, s3

MCOrder == [s \in Step |-> IF s = s1 THEN 1 ELSE IF s = s2 THEN 2 ELSE 3]

MCSymmetry == Permutations(Request)
=============================================================================
