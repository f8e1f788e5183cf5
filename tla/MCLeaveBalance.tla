---------------------------- MODULE MCLeaveBalance ----------------------------
(* Two overlapping requests, two callers, and days enough for one accrual   *)
(* month.                                                                   *)
EXTENDS LeaveBalance, TLC

CONSTANTS r1, r2, s1, s2

MCHours == [r \in Request |-> 2]
MCDate  == [r \in Request |-> 1]
Symmetry == Permutations(Session) \union Permutations(Request)
=============================================================================
