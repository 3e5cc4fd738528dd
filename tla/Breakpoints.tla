----------------------------- MODULE Breakpoints -----------------------------
(***************************************************************************)
(* External breakpoints (debuggerBreakpoints.ts).  SAP cannot be asked     *)
(* which breakpoints it holds, and every POST is the complete new set, so  *)
(* the process keeps a registry: a call reads it, posts what should be     *)
(* there, and adopts what SAP answers it now holds.                        *)
(*                                                                         *)
(* A POST is three steps that other calls may come between: it is sent,    *)
(* it is processed, it is answered.  It may time out at any point, and     *)
(* SAP may still process it when nobody waits for it any more.  There is   *)
(* one registry, whatever systems the calls go to.                         *)
(***************************************************************************)
EXTENDS FiniteSets

CONSTANTS
  Calls,        \* calls that may be under way at a time
  Positions,    \* an object and a line in it
  Executable,   \* positions at which SAP registers a breakpoint
  Systems       \* SAP systems the process is connected to

ASSUME BreakpointsAssumption == Executable \subseteq Positions

VARIABLES
  registry,      \* the positions in the process's record
  request,       \* the POST of each call
  held,          \* the breakpoints each system holds
  acknowledged,  \* history: those this process reported as set on each system,
                 \*   since when nobody asked to remove them
  standing,      \* history: calls that set a breakpoint nobody has asked to
                 \*   remove since they began
  crossed,       \* history: calls whose POST was under way together with
                 \*   another to the same system
  exposed,       \* history: those of the acknowledged that a POST which does
                 \*   not name them may remove, for one of two reasons: they
                 \*   were reported by a crossed call, or the answer of
                 \*   another system has replaced the registry
  synchronised   \* history: the system that answered last, if that call was
                 \*   not crossed and no POST to it has failed since

reported == <<acknowledged, standing, exposed>>
vars     == <<registry, request, held, reported, crossed, synchronised>>

Requests ==
  [state : {"none", "sent", "abandoned", "processed"},
   system : Systems, position : Positions,
   set : SUBSET Positions]    \* what is posted, then what SAP echoes

Idle(c) == request[c].state = "none"

\* The calls that have a POST to the system under way, waited for or not.
UnderWay(s) == {c \in Calls : ~ Idle(c) /\ request[c].system = s}

Init ==
  /\ registry = {}
  /\ \E s \in Systems, p \in Positions :
       request = [c \in Calls |-> [state |-> "none", system |-> s,
                                   position |-> p, set |-> {}]]
  /\ held \in [Systems -> SUBSET Executable]
  /\ acknowledged = [s \in Systems |-> {}]
  /\ standing = {}
  /\ crossed = {}
  /\ exposed = [s \in Systems |-> {}]
  /\ synchronised = {}

-----------------------------------------------------------------------------

Post(c, s, p, set) ==
  /\ Idle(c)
  /\ request' = [request EXCEPT ![c] =
                   [state |-> "sent", system |-> s, position |-> p,
                    set |-> set]]
  /\ crossed' = IF UnderWay(s) = {} THEN crossed \ {c}
                                    ELSE crossed \cup UnderWay(s) \cup {c}
  /\ UNCHANGED <<registry, held, synchronised>>

\* Mutant of SetBreakpoint: the POST names the new breakpoint only.
SetBreakpointAlone(c, s, p) ==
  /\ Post(c, s, p, {p})
  /\ standing' = standing \cup {c} /\ UNCHANGED <<acknowledged, exposed>>

SetBreakpoint(c, s, p) ==
  /\ Post(c, s, p, registry \cup {p})
  /\ standing' = standing \cup {c} /\ UNCHANGED <<acknowledged, exposed>>

Withdraw(s, positions) ==
  /\ acknowledged' = [acknowledged EXCEPT ![s] = @ \ positions]
  /\ exposed' = [exposed EXCEPT ![s] = @ \ positions]
  /\ standing' = {c \in standing : ~ (request[c].system = s
                                         /\ request[c].position \in positions)}

\* An id the registry does not know is refused before anything is sent.
DeleteBreakpoint(c, s, p) ==
  /\ p \in registry
  /\ Post(c, s, p, registry \ {p}) /\ Withdraw(s, {p})

DeleteAllBreakpoints(c, s, p) ==
  Post(c, s, p, {}) /\ Withdraw(s, Positions)

-----------------------------------------------------------------------------

Moved(q, state, set) == [q EXCEPT !.state = state, !.set = set]

Move(c, state, set) ==
  request' = [request EXCEPT ![c] = Moved(request[c], state, set)]

Done(c) == Move(c, "none", {})

\* SAP makes the posted set its own, except for what it cannot register.
Synchronise(c) ==
  LET accepted == request[c].set \cap Executable IN
  /\ request[c].state \in {"sent", "abandoned"}
  /\ held' = [held EXCEPT ![request[c].system] = accepted]
  /\ IF request[c].state = "sent"
       THEN Move(c, "processed", accepted)
       ELSE Done(c)
  /\ UNCHANGED <<registry, reported, crossed, synchronised>>

\* SAP never processes a POST nobody waits for any more.
Drop(c) ==
  /\ request[c].state = "abandoned"
  /\ Done(c)
  /\ UNCHANGED <<registry, held, reported, crossed, synchronised>>

\* Mutant of AdoptServerState: without registry.clear().
AdoptServerStateToo(c) == registry' = registry \cup request[c].set

AdoptServerState(c) == registry' = request[c].set

\* What the answer of a call reports as set: a breakpoint that is not in the
\* echoed set is reported as not registered.
News(c) ==
  IF c \in standing THEN {request[c].position} \cap request[c].set ELSE {}

\* What an answer puts at risk: all that other systems were reported to hold,
\* since the registry now has the set of this one; and what a crossed call
\* reports.  A call that was not crossed answers for all it names.
Exposing(c) ==
  [s \in Systems |->
     IF s # request[c].system THEN acknowledged[s]
     ELSE IF c \in crossed THEN exposed[s] \cup (News(c) \ acknowledged[s])
     ELSE exposed[s] \ request[c].set]

Answer(c) ==
  /\ request[c].state = "processed"
  /\ AdoptServerState(c)
  /\ acknowledged' =
       [acknowledged EXCEPT ![request[c].system] = @ \cup News(c)]
  /\ exposed' = Exposing(c)
  /\ standing' = standing \ {c}
  /\ synchronised' = IF c \in crossed THEN {} ELSE {request[c].system}
  /\ Done(c) /\ UNCHANGED <<held, crossed>>

\* Mutant of Fail: the registry takes what was posted for granted.
FailAdopting(c) ==
  /\ request[c].state \in {"sent", "processed"}
  /\ registry' = request[c].set
  /\ IF request[c].state = "sent"
       THEN Move(c, "abandoned", request[c].set)
       ELSE Done(c)
  /\ standing' = standing \ {c}
  /\ synchronised' = synchronised \ {request[c].system}
  /\ UNCHANGED <<held, acknowledged, exposed, crossed>>

\* The POST fails or times out: the error skips adoptServerState.
Fail(c) ==
  /\ request[c].state \in {"sent", "processed"}
  /\ IF request[c].state = "sent"
       THEN Move(c, "abandoned", request[c].set)
       ELSE Done(c)
  /\ standing' = standing \ {c}
  /\ synchronised' = synchronised \ {request[c].system}
  /\ UNCHANGED <<registry, held, acknowledged, exposed, crossed>>

\* The registry is local to the process; SAP keeps what it holds.
Restart ==
  /\ registry' = {}
  /\ request' =
       [c \in Calls |->
          CASE request[c].state = "sent" ->
                 Moved(request[c], "abandoned", request[c].set)
            [] request[c].state = "processed" -> Moved(request[c], "none", {})
            [] OTHER -> request[c]]
  /\ acknowledged' = [s \in Systems |-> {}]
  /\ exposed' = [s \in Systems |-> {}]
  /\ standing' = {}
  /\ synchronised' = {}
  /\ UNCHANGED <<held, crossed>>

-----------------------------------------------------------------------------

Begin(c) ==
  \E s \in Systems, p \in Positions :
    SetBreakpoint(c, s, p) \/ DeleteBreakpoint(c, s, p)
      \/ DeleteAllBreakpoints(c, s, p)

Next ==
  \/ \E c \in Calls :
       Begin(c) \/ Synchronise(c) \/ Drop(c) \/ Answer(c) \/ Fail(c)
  \/ Restart

Spec == Init /\ [][Next]_vars

-----------------------------------------------------------------------------
(* Properties.                                                             *)

\* Every variable has its type; the registry and a system hold no position SAP
\* refused.
TypeOK ==
  /\ registry \subseteq Executable
  /\ request \in [Calls -> Requests]
  /\ held \in [Systems -> SUBSET Executable]
  /\ acknowledged \in [Systems -> SUBSET Executable]
  /\ exposed \in [Systems -> SUBSET Executable]
  /\ standing \subseteq Calls
  /\ crossed \subseteq Calls
  /\ synchronised \subseteq Systems

\* "Existing breakpoints are preserved" (the description of the tool
\* DebuggerSetBreakpoint): what was reported as set stays until somebody asks to
\* remove it.  The code breaks it: two calls that overlap both read the registry
\* before either POST is answered, and the second POST removes what the first
\* has set (addBreakpoint).
ReportedStays == \A s \in Systems : acknowledged[s] \subseteq held[s]

\* What the code does keep, whatever calls overlap, fail or lose their answer
\* and whatever systems they go to: a breakpoint reported by a call with no
\* other POST to its system under way stays until somebody asks to remove it,
\* or the answer of another system replaces the registry.  And once it has
\* been at risk, the next call that names it and is not crossed secures it.
AcknowledgedKept ==
  \A s \in Systems : acknowledged[s] \ exposed[s] \subseteq held[s]

\* The list that DebuggerListBreakpoints gives is what SAP holds on the system
\* that answered last, unless its call was crossed, a POST to that system has
\* failed since, or one is still under way.
ListedIsHeld ==
  \A s \in synchronised : UnderWay(s) = {} => registry = held[s]

=============================================================================
