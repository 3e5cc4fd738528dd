--------------------------- MODULE MCDebugSession ---------------------------
(***************************************************************************)
(* Two callers and two includes; the callers are alike, and the includes.  *)
(***************************************************************************)
EXTENDS DebugSession, TLC

CONSTANTS c1, c2, i1, i2

MCCallers == {c1, c2}
MCIncludes == {i1, i2}

=============================================================================
