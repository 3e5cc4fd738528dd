--------------------------- MODULE MCUpdateTools ---------------------------
(***************************************************************************)
(* Instances of UpdateTools: two calls, each with a connection of its own  *)
(* or both on one, against one system or two.                              *)
(***************************************************************************)
EXTENDS UpdateTools

CONSTANTS c1, c2, k1, k2, s1, s2, v0, good, other, bad

MCCalls       == {c1, c2}
MCConnections == {k1, k2}
MCSources     == {v0, good, other, bad}
MCUnsound     == {bad}
MCPrefixOf    == {<<other, good>>}

OneEach  == [c \in MCCalls |-> IF c = c1 THEN k1 ELSE k2]
Shared   == [c \in MCCalls |-> k1]
OneHome  == [k \in MCConnections |-> s1]
TwoHomes == [k \in MCConnections |-> IF k = k1 THEN s1 ELSE s2]

\* Everything a call may ask for with these sources.
Asking(sources) == {a \in Arguments : a.source \in sources}

Ask1(tool, surface, source, activate, ownLock) ==
  [tool |-> tool, surface |-> surface, source |-> source,
   activate |-> activate, ownLock |-> ownLock]

\* What runs beside: a tool with every wrapper, a bare one that may lose the
\* session, one that works under its caller's lock.
Beside ==
  {Ask1("UpdateClass", "high", other, TRUE, TRUE),
   Ask1("UpdateDdl", "compact", other, FALSE, TRUE),
   Ask1("UpdateBehaviorDefinition", "high", other, FALSE, FALSE)}

\* Every tool with a sound source, and with an unsound one to be activated.
EveryTool == Asking({good}) \cup {a \in Asking({bad}) : a.activate}

\* Two clients publish a service binding of the same name.
TwoBindings ==
  [c \in MCCalls |-> {Ask1("UpdateServiceBinding", "high", good, FALSE, TRUE)}]

EveryToolBeside == [c \in MCCalls |-> IF c = c1 THEN EveryTool ELSE Beside]

=============================================================================
