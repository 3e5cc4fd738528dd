----------------------------- MODULE ObjectTools -----------------------------
(***************************************************************************)
(* Concurrent calls of the Create* and Delete* tools for one object of one *)
(* system.  Module ObjectHandlers says which requests a handler awaits;    *)
(* every answered request is one step.  The ADT server may refuse any      *)
(* request, carry one out and lose the answer, and lose a session, with    *)
(* the locks taken in it, when a request times out outside the critical    *)
(* sections that the high-level group puts around its tools.               *)
(***************************************************************************)
EXTENDS ObjectHandlers, Naturals, FiniteSets

CONSTANTS
  Calls,        \* tool calls; each runs once
  Connections,  \* ADT connections of the server process
  Nobody,       \* no lock owner, no connection
  ConnOf,       \* the connection of a call
  Requests      \* what each call may ask for

Arguments ==
  {a \in [operation : {"create", "delete"}, type : Creatable \cup Deletable,
          surface : {"high", "compact"}, activate : BOOLEAN,
          source : BOOLEAN] : Possible(a)}

ASSUME ConstantsAssumption ==
  /\ IsFiniteSet(Calls)
  /\ ConnOf \in [Calls -> Connections]
  /\ DOMAIN Requests = Calls
  /\ \A c \in Calls : Requests[c] \subseteq Arguments
  /\ Nobody \notin Calls \cup Connections

VARIABLES
  kind,         \* the kind of the object; never changes
  status,       \* has the call begun, has it answered
  args,         \* its arguments
  todo,         \* the requests it has still to make
  handle,       \* its local variable lockHandle is set
  result,       \* what it has to answer so far
  critical,     \* critical sections open on each connection
  there,        \* the object exists
  active,       \* it has an active version
  lock,         \* its lock
  did,          \* history: calls that created or deleted it
  saw,          \* history: calls during which it was there
  shown,        \* history: calls that, having created it, saw it active
  unlockFailed  \* history: calls one of whose unlock requests failed

frame   == <<kind, status, args, critical>>  \* only Begin and Answer change it
object  == <<there, active, did>>
history == <<saw, shown>>
vars    == <<frame, todo, handle, result, object, lock, history, unlockFailed>>

NoArguments ==
  [operation |-> "create", type |-> "INTERFACE", surface |-> "high",
   activate |-> FALSE, source |-> FALSE]
Free == [owner |-> Nobody, conn |-> Nobody, live |-> TRUE]

Init ==
  /\ kind \in {Kind(type) : type \in Creatable}
  /\ status   = [c \in Calls |-> "idle"]
  /\ args     = [c \in Calls |-> NoArguments]
  /\ todo     = [c \in Calls |-> << >>]
  /\ handle   = [c \in Calls |-> FALSE]
  /\ result   = [c \in Calls |-> "none"]
  /\ critical = [k \in Connections |-> 0]
  /\ there  \in BOOLEAN
  /\ active \in {FALSE, there}
  /\ lock     = Free
  /\ did = {} /\ saw = {} /\ shown = {} /\ unlockFailed = {}

-----------------------------------------------------------------------------
(* Where a call is, and how its requests end.                              *)

Awaits(c, ops) ==
  /\ status[c] = "running"
  /\ todo[c] # << >>
  /\ Head(todo[c]).do \in ops

\* The server knows a handle only in the session that took the lock.
HoldsLock(c) == lock = [owner |-> c, conn |-> ConnOf[c], live |-> TRUE]

\* Requests on an object locked in another session are refused (423).
MayTouch(c) ==
  /\ there
  /\ lock.owner = Nobody \/ (lock.live /\ lock.conn = ConnOf[c])

Proceed(c) == todo' = [todo EXCEPT ![c] = Tail(@)] /\ UNCHANGED result

\* Mutant of Abandon: the catch of a handler does not unlock.
AbandonLocked(c) ==
  /\ todo' = [todo EXCEPT ![c] = << >>]
  /\ result' = [result EXCEPT ![c] = "error"]

\* The error reaches the catch of the handler.
Abandon(c) ==
  /\ todo' = [todo EXCEPT ![c] = IF handle[c] THEN << May("unlock") >>
                                 ELSE << >>]
  /\ result' = [result EXCEPT ![c] = "error"]

\* Mutant of Look: a handler that takes the error's word for it.
LookAway(c) ==
  /\ todo' = [todo EXCEPT ![c] = << >>]
  /\ result' = [result EXCEPT ![c] = "found"]

\* The handler's catch recognises an error after which it reads the object ...
Look(c) ==
  /\ todo' = [todo EXCEPT ![c] = << Must("find") >>]
  /\ UNCHANGED result

\* ... or one it takes for success.
Assume(c) ==
  /\ todo' = [todo EXCEPT ![c] = << >>]
  /\ result' = [result EXCEPT ![c] = "assumed"]

\* Mutant of Fail: the request is made again until it is answered.
FailRetrying(c) ==
  IF Head(todo[c]).onError = "ignore" THEN Proceed(c)
    ELSE UNCHANGED <<todo, result>>

Fail(c) ==
  LET policy == Head(todo[c]).onError IN
    \/ policy = "ignore" /\ Proceed(c)
    \/ policy # "ignore" /\ Abandon(c)
    \/ policy = "look" /\ Look(c)
    \/ policy = "assume" /\ Assume(c)

\* Outside a critical section a request that fails may have timed out: then
\* the session is gone, and every lock taken in it is orphaned.
SessionAfterFailure(c) ==
  \/ lock' = lock
  \/ /\ critical[ConnOf[c]] = 0 /\ lock.conn = ConnOf[c]
     /\ lock' = [lock EXCEPT !.live = FALSE]

\* Every step ends with this.
Witness ==
  /\ saw' = saw \cup {c \in Calls : status'[c] = "running" /\ there'}
  /\ shown' = shown \cup
       {c \in did' : status'[c] = "running" /\ active'}

-----------------------------------------------------------------------------
(* A call begins and answers.                                              *)

Begin(c) ==
  /\ status[c] = "idle"
  /\ \E a \in Requests[c] :
       /\ Kind(a.type) = kind
       /\ args' = [args EXCEPT ![c] = a]
       /\ todo' = [todo EXCEPT ![c] = Program(a)]
       /\ critical' = IF a.surface = "high"
                        THEN [critical EXCEPT ![ConnOf[c]] = @ + 1]
                        ELSE critical
  /\ status' = [status EXCEPT ![c] = "running"]
  /\ UNCHANGED <<kind, handle, result, object, lock, unlockFailed>>

\* Mutant of Answer: the bare tools leave a section they have not entered.
AnswerLeavesSection(c) ==
  /\ status[c] = "running" /\ todo[c] = << >>
  /\ status' = [status EXCEPT ![c] = "returned"]
  /\ result' = [result EXCEPT ![c] = IF @ = "none" THEN "ok" ELSE @]
  /\ critical' = [critical EXCEPT ![ConnOf[c]] = @ - 1]
  /\ UNCHANGED <<kind, args, todo, handle, object, lock, unlockFailed>>

Answer(c) ==
  /\ status[c] = "running" /\ todo[c] = << >>
  /\ status' = [status EXCEPT ![c] = "returned"]
  /\ result' = [result EXCEPT ![c] = IF @ = "none" THEN "ok" ELSE @]
  /\ critical' = IF args[c].surface = "high"
                   THEN [critical EXCEPT ![ConnOf[c]] = @ - 1] ELSE critical
  /\ UNCHANGED <<kind, args, todo, handle, object, lock, unlockFailed>>

-----------------------------------------------------------------------------
(* Requests.                                                               *)

Ask(c) ==
  /\ Awaits(c, {"validate", "read", "check"})
  /\ \/ /\ Head(todo[c]).do = "check" => there
        /\ Proceed(c) /\ UNCHANGED lock
     \/ Fail(c) /\ SessionAfterFailure(c)
  /\ UNCHANGED <<frame, handle, object, unlockFailed>>

\* A new object has no active version.  The answer may be lost, or be an error
\* although the object is there.
Create(c) ==
  /\ Awaits(c, {"create"})
  /\ \/ /\ ~ there
        /\ there' = TRUE /\ active' = FALSE /\ did' = did \cup {c}
        /\ \/ Proceed(c) /\ UNCHANGED lock
           \/ Fail(c) /\ SessionAfterFailure(c)
     \/ Fail(c) /\ SessionAfterFailure(c) /\ UNCHANGED object
  /\ UNCHANGED <<frame, handle, unlockFailed>>

Delete(c) ==
  /\ Awaits(c, {"delete"})
  /\ \/ /\ MayTouch(c)
        /\ there' = FALSE /\ active' = FALSE /\ did' = did \cup {c}
        /\ \/ Proceed(c) /\ UNCHANGED lock
           \/ Fail(c) /\ SessionAfterFailure(c)
     \/ Fail(c) /\ SessionAfterFailure(c) /\ UNCHANGED object
  /\ UNCHANGED <<frame, handle, unlockFailed>>

Lock(c) ==
  /\ Awaits(c, {"lock"})
  /\ \/ /\ there /\ lock = Free
        /\ lock' = [owner |-> c, conn |-> ConnOf[c], live |-> TRUE]
        /\ handle' = [handle EXCEPT ![c] = TRUE]
        /\ Proceed(c)
     \/ Fail(c) /\ SessionAfterFailure(c) /\ UNCHANGED handle
  /\ UNCHANGED <<frame, object, unlockFailed>>

\* What the write contains is not modelled.
Put(c) ==
  /\ Awaits(c, {"put"})
  /\ \/ HoldsLock(c) /\ Proceed(c) /\ UNCHANGED lock
     \/ Fail(c) /\ SessionAfterFailure(c)
  /\ UNCHANGED <<frame, handle, object, unlockFailed>>

\* A "release" leaves the variable lockHandle set.  An unlock that throws
\* leaves it set, too, and is tried once more by the catch.
Unlock(c) ==
  /\ Awaits(c, {"unlock", "release"})
  /\ \/ /\ HoldsLock(c) /\ lock' = Free
        /\ Proceed(c) /\ UNCHANGED unlockFailed
        /\ handle' = [handle EXCEPT ![c] = Head(todo[c]).do = "release"]
     \/ /\ HoldsLock(c) /\ lock' = Free
        /\ Fail(c) /\ UNCHANGED <<handle, unlockFailed>>
     \/ /\ Fail(c) /\ SessionAfterFailure(c)
        /\ unlockFailed' = unlockFailed \cup {c}
        /\ UNCHANGED handle
  /\ UNCHANGED <<frame, object>>

Activate(c) ==
  /\ Awaits(c, {"activate"})
  /\ \/ /\ MayTouch(c) /\ active' = TRUE
        /\ \/ Proceed(c) /\ UNCHANGED lock
           \/ Fail(c) /\ SessionAfterFailure(c)
     \/ Fail(c) /\ SessionAfterFailure(c) /\ UNCHANGED active
  /\ UNCHANGED <<frame, handle, there, did, unlockFailed>>

Find(c) ==
  /\ Awaits(c, {"find"})
  /\ \/ /\ there
        /\ todo' = [todo EXCEPT ![c] = << >>]
        /\ result' = [result EXCEPT ![c] = "found"]
        /\ UNCHANGED lock
     \/ Fail(c) /\ SessionAfterFailure(c)
  /\ UNCHANGED <<frame, handle, object, unlockFailed>>

-----------------------------------------------------------------------------

Request(c) ==
  \/ Ask(c) \/ Create(c) \/ Delete(c) \/ Lock(c) \/ Put(c) \/ Unlock(c)
  \/ Activate(c) \/ Find(c)

Next == \E c \in Calls : (Begin(c) \/ Request(c) \/ Answer(c)) /\ Witness

\* Every request is answered or times out, and the event loop runs the
\* continuation.
Fairness == \A c \in Calls : WF_vars((Request(c) \/ Answer(c)) /\ Witness)

Spec == Init /\ [][Next]_vars /\ Fairness

-----------------------------------------------------------------------------
(* Properties.                                                             *)

LockStates ==
  [owner : Calls \cup {Nobody}, conn : Connections \cup {Nobody},
   live : BOOLEAN]

\* Every variable has its type.
TypeOK ==
  /\ kind \in Creatable
  /\ status \in [Calls -> {"idle", "running", "returned"}]
  /\ args \in [Calls -> Arguments]
  /\ todo \in [Calls -> Seq(Step)]
  /\ handle \in [Calls -> BOOLEAN]
  /\ result \in [Calls -> {"none", "ok", "found", "assumed", "error"}]
  /\ critical \in [Connections -> Nat]
  /\ there \in BOOLEAN /\ active \in BOOLEAN
  /\ lock \in LockStates
  /\ did \subseteq Calls /\ saw \subseteq Calls /\ shown \subseteq Calls
  /\ unlockFailed \subseteq Calls

\* A call that has answered leaves the object unlocked, unless an unlock
\* request of its own failed: whichever step after the lock fails, the catch of
\* the handler unlocks, and what the library locks the library unlocks.
NoOrphanLock ==
  \A c \in Calls :
    status[c] = "returned" /\ lock.owner = c => c \in unlockFailed

\* A create tool that was asked to activate and comes to the regular end of its
\* handler has created an object that had an active version before the call
\* ended.  Two other ends report an activation nobody has seen, and are not
\* meant: CreateFunctionGroup on an error it takes for success ("assumed"), and
\* CreateClass for a class that it has merely found ("found").
ReportsActivation ==
  \A c \in Calls :
    /\ status[c] = "returned" /\ result[c] = "ok"
    /\ args[c].operation = "create" /\ args[c].activate
    => c \in shown

\* A call that has begun answers.
EveryCallAnswers ==
  \A c \in Calls : status[c] = "running" ~> status[c] = "returned"

-----------------------------------------------------------------------------
(* The promise to the caller, and what implements it.                      *)

Wants(c) ==
  IF status[c] = "idle" THEN "keep"
  ELSE IF args[c].operation = "create" THEN "make"
  ELSE IF args[c].type \in LocalIncludes THEN "keep" ELSE "remove"

Outcome(c) ==
  IF status[c] # "returned" THEN "none"
  ELSE CASE result[c] = "ok"      -> "done"
         [] result[c] = "assumed" -> "unsure"
         [] OTHER                 -> result[c]

Contract ==
  INSTANCE ObjectContract WITH
    phase  <- status,
    wants  <- [c \in Calls |-> Wants(c)],
    answer <- [c \in Calls |-> Outcome(c)]

\* The calls as they are interleaved keep the promise of ObjectContract.
KeepsContract == Contract!Spec

=============================================================================
