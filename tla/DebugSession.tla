----------------------------- MODULE DebugSession -----------------------------
(***************************************************************************)
(* The debugger tools that need a session of their own (listen, stack,     *)
(* variables, step, stop), beside UpdateInclude, which needs one for its   *)
(* lock.  A connection has one session type for all calls; these handlers  *)
(* set it and set it back, and each request is made with the type it finds *)
(* when it is sent.                                                        *)
(*                                                                         *)
(* Of SAP: there is one listener for the user, since the identity is       *)
(* derived from user, system and client; it stays registered while it      *)
(* holds a debuggee.  What one session has attached or locked, a stateless *)
(* request does not reach.  The answer to any request may be lost.         *)
(***************************************************************************)
EXTENDS Sequences

CONSTANTS
  Callers,
  NoOne,       \* no caller
  Includes,
  NoInclude,   \* no include
  MayOverlap   \* may calls overlap: a set of BOOLEANs

ASSUME ConstantsAssumption ==
  /\ NoOne \notin Callers
  /\ NoInclude \notin Includes
  /\ MayOverlap \subseteq BOOLEAN

VARIABLES
  overlap,      \* whether calls may overlap; never changes
  sessionType,  \* of the connection
  pinned,       \* history: it is stateful, and UpdateInclude was the last to
                \*   set it
  doing,        \* the tool each caller has called, or "nothing"
  on,           \* the include that it updates
  todo,         \* what its handler has still to do
  failed,       \* it is to answer with an error
  listener,     \* is the listener registered
  debuggee,     \* of the program that hits the breakpoint
  lock,         \* who has each include locked
  last,         \* history: the last answer, as far as a property asks
  released,     \* history: Stop has succeeded, and no Listen followed
  lost,         \* history: includes whose lock or unlock request failed
  crossed       \* history: includes that were locked when another call set
                \* the connection stateless

calls == <<doing, on, todo, failed>>
sap == <<listener, debuggee, lock>>
vars ==
  <<overlap, sessionType, pinned, calls, sap, last, released, lost, crossed>>

\* handleDebuggerListen; "await" is the answer to the long poll.
Listening == <<"listen", "await", "attach">>

\* handleDebuggerStop.
Stopping == <<"stop", "stateless">>

\* handleDebuggerStep; handleDebuggerGetStack and handleDebuggerGetVariable.
Stepping == <<"step">>
Inspecting == <<"inspect">>

\* Mutant of Updating: the session is set back only after a good update.
UpdatingCarelessly == <<"lock", "put", "unlock", "verify", "stateless">>

\* handleUpdateInclude; the activation follows the reading back and adds no
\* behaviour of its own.
Updating == <<"lock", "put", "unlock", "stateless", "verify">>

\* Any low-level tool that is given a session.
Restoring == <<"restore">>

Tools == {"Listen", "Stop", "Step", "Inspect", "UpdateInclude", "Restore"}

Handler(tool) ==
  CASE tool = "Listen" -> Listening
    [] tool = "Stop" -> Stopping
    [] tool = "Step" -> Stepping
    [] tool = "Inspect" -> Inspecting
    [] tool = "UpdateInclude" -> Updating
    [] tool = "Restore" -> Restoring

Init ==
  /\ overlap \in MayOverlap
  /\ sessionType = "stateless" /\ pinned = FALSE
  /\ doing = [c \in Callers |-> "nothing"]
  /\ on = [c \in Callers |-> NoInclude]
  /\ todo = [c \in Callers |-> << >>]
  /\ failed = [c \in Callers |-> FALSE]
  /\ listener \in BOOLEAN
  /\ debuggee = "running"
  /\ lock = [i \in Includes |-> NoOne]
  /\ last = "other"
  /\ released = FALSE
  /\ lost = {} /\ crossed = {}

-----------------------------------------------------------------------------
(* Calls.                                                                  *)

Begin(c) ==
  /\ doing[c] = "nothing"
  /\ overlap \/ \A d \in Callers : doing[d] = "nothing"
  /\ \E tool \in Tools :
       /\ doing' = [doing EXCEPT ![c] = tool]
       /\ todo' = [todo EXCEPT ![c] = Handler(tool)]
       /\ \/ /\ tool = "UpdateInclude"
             /\ \E i \in Includes : on' = [on EXCEPT ![c] = i]
          \/ tool # "UpdateInclude" /\ on' = on
  /\ UNCHANGED <<overlap, sessionType, pinned, failed, sap, last, released,
                 lost, crossed>>

Awaits(c, step) == todo[c] # << >> /\ Head(todo[c]) = step

Proceed(c) ==
  /\ todo' = [todo EXCEPT ![c] = Tail(@)]
  /\ UNCHANGED <<doing, on, failed, last>>

\* Mutant of Tell: what the handler worked on is kept.
TellKeeping(c, answer) ==
  /\ todo' = [todo EXCEPT ![c] = << >>]
  /\ doing' = [doing EXCEPT ![c] = "nothing"]
  /\ failed' = [failed EXCEPT ![c] = FALSE]
  /\ on' = on
  /\ last' = answer

\* The handler returns.
Tell(c, answer) ==
  /\ todo' = [todo EXCEPT ![c] = << >>]
  /\ doing' = [doing EXCEPT ![c] = "nothing"]
  /\ on' = [on EXCEPT ![c] = NoInclude]
  /\ failed' = [failed EXCEPT ![c] = FALSE]
  /\ last' = answer

-----------------------------------------------------------------------------
(* DebuggerListen.                                                         *)

\* Mutant of Listen: the session type is left as it is.
ListenAnywhere(c) ==
  /\ Awaits(c, "listen")
  /\ listener' = TRUE /\ released' = FALSE
  /\ Proceed(c)
  /\ UNCHANGED <<overlap, sessionType, pinned, debuggee, lock, lost, crossed>>

\* The POST is sent in the step that sets the session type.
Listen(c) ==
  /\ Awaits(c, "listen")
  /\ sessionType' = "stateful" /\ pinned' = FALSE
  /\ listener' = TRUE /\ released' = FALSE
  /\ Proceed(c)
  /\ UNCHANGED <<overlap, debuggee, lock, lost, crossed>>

\* The program has run into the breakpoint and the wait is over.
Caught(c) ==
  /\ Awaits(c, "await")
  /\ listener /\ debuggee = "running" /\ debuggee' = "stopped"
  /\ \/ Proceed(c)
     \/ Tell(c, "other")    \* refused in content negotiation, or lost
  /\ UNCHANGED <<overlap, sessionType, pinned, listener, lock, released, lost,
                 crossed>>

\* No debuggee in the answer: the wait is over, another body came (of a
\* conflict), or the client gave up first and the listener stays.
NotCaught(c) ==
  /\ Awaits(c, "await")
  /\ listener' \in {listener, listener /\ debuggee # "running"}
  /\ Tell(c, "other")
  /\ UNCHANGED <<overlap, sessionType, pinned, debuggee, lock, released, lost,
                 crossed>>

\* attachDebuggee.  "Sent stateless, the attach reports success and every later
\* call answers as though nothing were attached."
Attach(c) ==
  /\ Awaits(c, "attach")
  /\ \/ /\ debuggee = "stopped"
        /\ debuggee' = IF sessionType = "stateful" THEN "attached" ELSE debuggee
        /\ Tell(c, "attached") \/ Tell(c, "other")
     \/ debuggee' = debuggee /\ Tell(c, "other")
  /\ UNCHANGED <<overlap, sessionType, pinned, listener, lock, released, lost,
                 crossed>>

\* Nobody waits any more, but the listener is still there.
Captured ==
  /\ listener /\ debuggee = "running" /\ debuggee' = "stopped"
  /\ \A c \in Callers : ~ Awaits(c, "await")
  /\ UNCHANGED <<overlap, sessionType, pinned, calls, listener, lock, last,
                 released, lost, crossed>>

-----------------------------------------------------------------------------
(* DebuggerStop, DebuggerStep, and the tools that inspect.                 *)

\* Mutant of NoListener: any error counts as "not running".
NoListenerOrError(c) ==
  /\ Awaits(c, "stop")
  /\ released' = TRUE
  /\ Tell(c, "other")
  /\ UNCHANGED <<overlap, sessionType, pinned, sap, lost, crossed>>

\* 404: a success, which leaves the session type as it is.
NoListener(c) ==
  /\ Awaits(c, "stop") /\ ~ listener
  /\ released' = TRUE
  /\ Tell(c, "other")
  /\ UNCHANGED <<overlap, sessionType, pinned, sap, lost, crossed>>

Stop(c) ==
  /\ Awaits(c, "stop")
  /\ \/ /\ listener
        /\ listener' = FALSE /\ debuggee' = "running"
        /\ \/ Proceed(c) /\ released' = TRUE
           \/ Tell(c, "other") /\ UNCHANGED released
     \/ Tell(c, "other") /\ UNCHANGED <<listener, debuggee, released>>
  /\ UNCHANGED <<overlap, sessionType, pinned, lock, lost, crossed>>

Reached == debuggee = "attached" /\ sessionType = "stateful"

\* The program stops again or runs to its end; SAP may drop the listener with
\* the session that ended.
Step(c) ==
  /\ Awaits(c, "step")
  /\ \/ UNCHANGED <<listener, debuggee>>
     \/ /\ Reached
        /\ debuggee' = "running" /\ listener' \in {listener, FALSE}
  /\ Tell(c, "other")
  /\ UNCHANGED <<overlap, sessionType, pinned, lock, released, lost, crossed>>

Inspect(c) ==
  /\ Awaits(c, "inspect")
  /\ Tell(c, "other")
  /\ UNCHANGED <<overlap, sessionType, pinned, sap, released, lost, crossed>>

-----------------------------------------------------------------------------
(* UpdateInclude, and what every tool may do to the session type.          *)

\* In the finally block a lock that is held is released, and the session type
\* set back.  "verify" is beyond it.
Finally(c) ==
  IF Awaits(c, "put") THEN <<"unlock", "stateless">> ELSE <<"stateless">>

\* Mutant of Throw: without the finally block the handler just returns.
ThrowOutright(c) == Tell(c, "updated")

Throw(c) ==
  /\ todo' = [todo EXCEPT ![c] = Finally(c)]
  /\ failed' = [failed EXCEPT ![c] = TRUE]
  /\ UNCHANGED <<doing, on, last>>

\* The request is sent in the step that sets the session type.
Lock(c) ==
  /\ Awaits(c, "lock")
  /\ sessionType' = "stateful" /\ pinned' = TRUE
  /\ \/ /\ lock[on[c]] = NoOne
        /\ lock' = [lock EXCEPT ![on[c]] = c]
        /\ crossed' = crossed \ {on[c]}
        /\ \/ Proceed(c) /\ lost' = lost \ {on[c]}
           \/ Throw(c) /\ lost' = lost \cup {on[c]}
     \/ Throw(c) /\ UNCHANGED <<lock, lost, crossed>>
  /\ UNCHANGED <<overlap, listener, debuggee, released>>

Holds(c) == lock[on[c]] = c /\ sessionType = "stateful"

Put(c) ==
  /\ Awaits(c, "put")
  /\ \/ Holds(c) /\ Proceed(c)
     \/ Throw(c)
  /\ UNCHANGED <<overlap, sessionType, pinned, sap, released, lost, crossed>>

\* Mutant of Unlock: the request is made again until it succeeds.
UnlockInsisting(c) ==
  /\ Awaits(c, "unlock")
  /\ Holds(c)
  /\ lock' = [lock EXCEPT ![on[c]] = NoOne]
  /\ Proceed(c)
  /\ UNCHANGED <<overlap, sessionType, pinned, listener, debuggee, released,
                 lost, crossed>>

\* A failure is logged, and the handler goes on.
Unlock(c) ==
  /\ Awaits(c, "unlock")
  /\ \/ /\ Holds(c)
        /\ lock' = [lock EXCEPT ![on[c]] = NoOne] /\ UNCHANGED lost
     \/ /\ lock' = lock
        /\ lost' = IF sessionType = "stateful" THEN lost \cup {on[c]} ELSE lost
  /\ Proceed(c)
  /\ UNCHANGED <<overlap, sessionType, pinned, listener, debuggee, released,
                 crossed>>

Verify(c) ==
  /\ Awaits(c, "verify")
  /\ Tell(c, "updated")
  /\ UNCHANGED <<overlap, sessionType, pinned, sap, released, lost, crossed>>

\* Last step of Stop, and of an update that failed.
Stateless(c) ==
  /\ Awaits(c, "stateless")
  /\ sessionType' = "stateless" /\ pinned' = FALSE
  /\ crossed' = crossed \cup {i \in Includes : lock[i] \notin {NoOne, c}}
  /\ \/ doing[c] = "Stop" /\ Tell(c, "stopped")
     \/ failed[c] /\ Tell(c, "updated")
     \/ doing[c] # "Stop" /\ ~ failed[c] /\ Proceed(c)
  /\ UNCHANGED <<overlap, sap, released, lost>>

\* restoreSessionInConnection.
Restore(c) ==
  /\ Awaits(c, "restore")
  /\ sessionType' = "stateful" /\ pinned' = FALSE
  /\ Tell(c, "other")
  /\ UNCHANGED <<overlap, sap, released, lost, crossed>>

-----------------------------------------------------------------------------

Work(c) ==
  \/ Listen(c) \/ Caught(c) \/ NotCaught(c) \/ Attach(c)
  \/ Stop(c) \/ NoListener(c) \/ Step(c) \/ Inspect(c)
  \/ Lock(c) \/ Put(c) \/ Unlock(c) \/ Stateless(c) \/ Verify(c)
  \/ Restore(c)

Next == Captured \/ \E c \in Callers : Begin(c) \/ Work(c)

\* Every request is answered or times out, the long poll too.
Fairness == \A c \in Callers : WF_vars(Work(c))

Spec == Init /\ [][Next]_vars /\ Fairness

-----------------------------------------------------------------------------
(* Properties.                                                             *)

Answers == {"attached", "stopped", "updated", "other"}

Steps ==
  {"listen", "await", "attach", "stop", "step", "inspect", "lock", "put",
   "unlock", "stateless", "verify", "restore"}

\* Every variable has its type; a caller works on an include exactly as long as
\* it has called UpdateInclude.
TypeOK ==
  /\ overlap \in BOOLEAN
  /\ sessionType \in {"stateful", "stateless"} /\ pinned \in BOOLEAN
  /\ doing \in [Callers -> Tools \cup {"nothing"}]
  /\ on \in [Callers -> Includes \cup {NoInclude}]
  /\ \A c \in Callers : doing[c] = "UpdateInclude" <=> on[c] \in Includes
  /\ todo \in [Callers -> Seq(Steps)]
  /\ failed \in [Callers -> BOOLEAN]
  /\ listener \in BOOLEAN
  /\ debuggee \in {"running", "stopped", "attached"}
  /\ lock \in [Includes -> Callers \cup {NoOne}]
  /\ last \in Answers
  /\ released \in BOOLEAN
  /\ lost \subseteq Includes /\ crossed \subseteq Includes

\* Is c in the section of UpdateInclude that unlocks include i?
WillUnlock(c, i) ==
  /\ doing[c] = "UpdateInclude" /\ on[c] = i
  /\ Awaits(c, "put") \/ Awaits(c, "unlock")

\* UpdateInclude leaves an include locked only if its own lock or unlock
\* request failed, or if another call set the connection stateless meanwhile.
IncludeReleased ==
  \A i \in Includes :
    \/ lock[i] = NoOne
    \/ i \in lost \cup crossed
    \/ WillUnlock(lock[i], i)

\* Once Stop has answered with success, no listener and no debuggee is left
\* until somebody listens again: also when there was "no listener", and
\* whatever the callers that were waiting or attaching still do.
StopReleases == released => ~ listener /\ debuggee = "running"

Quiet == \A c \in Callers : doing[c] = "nothing"

\* However it fails and whatever overlaps with it, UpdateInclude never leaves
\* the connection pinned to a session: what keeps it stateful once nobody works
\* is a Listen or a restored session.
SetBack == Quiet => ~ pinned

\* As long as calls do not overlap, the connection is stateless after an
\* UpdateInclude, and after a Stop that was answered for a listener that ran.
\* It says nothing of a Stop whose answer is lost, nor of one that is told that
\* no listener was running: both leave the session type as they find it, though
\* the first may have taken effect (handleDebuggerStop).
AnsweredStateless ==
  ~ overlap /\ Quiet /\ last \in {"stopped", "updated"}
    => sessionType = "stateless"

\* "So later reads are not pinned": UpdateInclude never leaves the connection
\* pinned, and without overlap a Stop does not that was answered for a listener.
\* The two parts say this and no more: a Stop that fails is in neither.
NotPinned == SetBack /\ AnsweredStateless

\* Listen answers "attached" only if the debuggee is attached and within
\* reach of the tools that inspect and step, as long as calls do not overlap.
AttachedIsReached ==
  ~ overlap /\ Quiet /\ last = "attached" => Reached

\* "The attach, the stack, the variables and every step must arrive on the
\* same one": between calls, an attached debuggee is within reach.
StaysReached == Quiet /\ debuggee = "attached" => sessionType = "stateful"

\* Every call is answered; a DebuggerListen ends though nothing is caught.
EveryCallAnswers ==
  \A c \in Callers : doing[c] # "nothing" ~> doing[c] = "nothing"

=============================================================================
