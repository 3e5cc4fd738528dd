-------------------------- MODULE MCLowLevelTools --------------------------
(***************************************************************************)
(* Instances of LowLevelTools: a caller that may use every tool, beside    *)
(* one that locks, writes and unlocks; or one caller that passes what the  *)
(* tools returned to it and nothing else.                                  *)
(***************************************************************************)
EXTENDS LowLevelTools, TLC

CONSTANTS c1, c2, s0, s1, s2, made

MCCallers == {c1, c2}
MCSession == {s0, s1, s2, made}
MCSessionOf == [c \in MCCallers |-> IF c = c1 THEN s1 ELSE s2]

EveryRequest ==
  {r \in [operation : Operations, type : Types, surface : {"low", "compact"},
          state : BOOLEAN] : Possible(WithKnown(r, TRUE, s1))}

\* The other caller sends the state with every call.  Its tools stand for the
\* ways in which a lock tool names the session.
Working ==
  {r \in EveryRequest :
     /\ r.operation \in {"lock", "update", "unlock"}
     /\ r.type \in {"CLASS", "PACKAGE", "PROGRAM", "STRUCTURE"}
     /\ r.surface = "low" /\ r.state}

\* Written with @@, the function is evaluated once.
OfKind(requests) ==
  [k \in Kinds |-> {r \in requests : Kind(r.type) = k}] @@ << >>

\* Calls for a structure may overlap; the two do the same then.
EveryToolBeside ==
  c1 :> [OfKind(EveryRequest) EXCEPT !["STRUCTURE"] = OfKind(Working)["STRUCTURE"]]
    @@ c2 :> OfKind(Working)

\* What theorem LocksReleasable assumes of the requests is so here.
ASSUME EveryToolUnlocks == UnlockBesideLock(EveryToolBeside)

MCSettings == (Kinds \X {FALSE}) \cup {<<"STRUCTURE", TRUE>>}

\* session_state of every answer is null.
Stateless == {r \in EveryRequest : ~ r.state}

OneStateless == c1 :> OfKind(Stateless)
OneSession   == [c \in {c1} |-> s1]

=============================================================================
