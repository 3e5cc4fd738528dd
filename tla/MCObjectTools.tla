---------------------------- MODULE MCObjectTools ----------------------------
(***************************************************************************)
(* Instances of ObjectTools: two calls for one object, on one connection.  *)
(***************************************************************************)
EXTENDS ObjectTools

CONSTANTS c1, c2, k1

MCCalls       == {c1, c2}
MCConnections == {k1}
OneConnection == [c \in MCCalls |-> k1]

\* Any tool, beside any other for the same object.
AnyTool == [c \in MCCalls |-> Arguments]

=============================================================================
