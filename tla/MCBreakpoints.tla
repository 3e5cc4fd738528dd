---------------------------- MODULE MCBreakpoints ----------------------------
(***************************************************************************)
(* Instances of Breakpoints: three positions, one of which SAP refuses,    *)
(* two calls, and one system or two.                                       *)
(***************************************************************************)
EXTENDS Breakpoints, TLC

CONSTANTS m1, m2, p1, p2, comment, s1, s2

Interchangeable ==
  Permutations({p1, p2}) \cup Permutations({m1, m2}) \cup Permutations({s1, s2})

=============================================================================
