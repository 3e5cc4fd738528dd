---------------------------- MODULE LowLevelTools ----------------------------
(***************************************************************************)
(* The low-level tools, called again and again for one object over the one *)
(* connection of the stdio server.  Locking, writing and unlocking are     *)
(* calls of their own here, and what ties them together is what the caller *)
(* hands on: the lock handle, and the session.                             *)
(*                                                                         *)
(* The connection has one session id at a time.  SAP takes the id from the *)
(* header of each request, and knows a lock handle only in the session     *)
(* that took the lock.  restoreSessionInConnection replaces the id for     *)
(* every later request of every caller.                                    *)
(***************************************************************************)
EXTENDS LowLevelHandlers

CONSTANTS
  Callers,     \* clients, or one client in several roles
  NoOne,       \* no caller
  Session,     \* session ids
  NoSession,   \* null or undefined
  FirstId,     \* the id the connection was made with
  FreshId,     \* an id that a tool made up
  SessionOf,   \* the id that GetSession makes for each caller
  Settings,    \* kinds of objects, with whether calls may overlap
  Requests     \* what each caller may ask for, by kind of the object

Kinds == {Kind(type) : type \in Types}

Operations ==
  {"create", "validate", "lock", "update", "check", "unlock", "activate",
   "delete", "run", "status", "result", "list", "view"}

Arguments ==
  [operation : Operations, type : Types, surface : {"low", "compact"},
   session : BOOLEAN, state : BOOLEAN, handle : BOOLEAN]

\* A request becomes a call with the handle and the session that the caller
\* has.  `hold` says whether it has a handle, `s` which session.
WithKnown(r, hold, s) ==
  [operation |-> r.operation, type |-> r.type, surface |-> r.surface,
   state |-> r.state, session |-> s # NoSession, handle |-> hold]

Possible(a) == a.operation \in DOMAIN Tools(a)

ASSUME ConstantsAssumption ==
  /\ NoOne \notin Callers
  /\ NoSession \notin Session
  /\ {FirstId, FreshId} \subseteq Session
  /\ SessionOf \in [Callers -> Session]
  /\ \A c, d \in Callers : c # d => SessionOf[c] # SessionOf[d]
  /\ Settings \subseteq Kinds \X BOOLEAN
  /\ \A c \in Callers, k \in Kinds : \A r \in Requests[c][k] :
       /\ Kind(r.type) = k
       /\ \A hold \in BOOLEAN, s \in Session \cup {NoSession} :
            /\ WithKnown(r, hold, s) \in Arguments
            /\ Possible(WithKnown(r, hold, s))

VARIABLES
  kind,     \* the kind of the object; never changes
  overlap,  \* whether calls may overlap; never changes
  conn,     \* session id of the connection
  status,   \* does the caller wait for an answer
  args,     \* the arguments of its call, if it waits
  todo,     \* what its call has still to do
  failed,   \* its call is to answer with an error
  handle,   \* has it the handle of the last lock it took
  sid,      \* the session id it passes
  there,    \* the object exists
  lock,     \* its lock
  unsure    \* history: callers that lost the answer to a lock or unlock

caller == <<status, args, todo, failed, handle, sid>>
vars == <<kind, overlap, conn, caller, there, lock, unsure>>

Free == [owner |-> NoOne, id |-> NoSession, live |-> TRUE]

NoArguments ==
  [operation |-> "check", type |-> "CLASS", surface |-> "low",
   session |-> FALSE, state |-> FALSE, handle |-> FALSE]

Init ==
  /\ \E setting \in Settings :
       kind = setting[1] /\ overlap = setting[2]
  /\ conn = FirstId
  /\ status = [c \in Callers |-> "idle"]
  /\ args   = [c \in Callers |-> NoArguments]
  /\ todo   = [c \in Callers |-> << >>]
  /\ failed = [c \in Callers |-> FALSE]
  /\ handle = [c \in Callers |-> FALSE]
  /\ sid    = [c \in Callers |-> NoSession]
  /\ there \in BOOLEAN
  /\ lock = Free
  /\ unsure = {}

-----------------------------------------------------------------------------
(* Calls begin and answer.                                                 *)

\* GetSession makes up an id and sends nothing.
GetSession(c) ==
  /\ status[c] = "idle" /\ sid[c] = NoSession
  /\ sid' = [sid EXCEPT ![c] = SessionOf[c]]
  /\ UNCHANGED <<kind, overlap, conn, status, args, todo, failed, handle,
                 there, lock, unsure>>

Begin(c) ==
  /\ status[c] = "idle"
  /\ overlap \/ \A d \in Callers : status[d] = "idle"
  /\ \E r \in Requests[c][kind] :
       LET a == WithKnown(r, handle[c], sid[c]) IN
         /\ args' = [args EXCEPT ![c] = a]
         /\ todo' = [todo EXCEPT ![c] = Program(a)]
  /\ status' = [status EXCEPT ![c] = "waiting"]
  /\ UNCHANGED <<kind, overlap, conn, failed, handle, sid, there, lock,
                 unsure>>

Awaits(c, ops) ==
  /\ status[c] = "waiting"
  /\ todo[c] # << >>
  /\ Head(todo[c]).do \in ops

\* session_id of the answer of a lock tool.
Told(c) ==
  CASE Head(todo[c]).do = "tellActual" -> conn
    [] Head(todo[c]).do = "tellFresh" /\ sid[c] = NoSession -> FreshId
    [] OTHER -> sid[c]

\* The answer to a lock: the caller has the handle now, and from now on passes
\* the session it was told.
AnswerLock(c) ==
  /\ Awaits(c, {"tellGiven", "tellActual", "tellFresh", "tellHandle"})
  /\ handle' = [handle EXCEPT ![c] = TRUE]
  /\ sid' = [sid EXCEPT ![c] = Told(c)]
  /\ todo' = [todo EXCEPT ![c] = << >>]
  /\ status' = [status EXCEPT ![c] = "idle"]
  /\ args' = [args EXCEPT ![c] = NoArguments]
  /\ UNCHANGED <<kind, overlap, conn, failed, there, lock, unsure>>

\* Any other answer.  Who is told of an unlock drops the handle.
Answer(c) ==
  /\ status[c] = "waiting" /\ todo[c] = << >>
  /\ handle' =
       IF args[c].operation = "unlock" /\ ~ failed[c]
         THEN [handle EXCEPT ![c] = FALSE] ELSE handle
  /\ status' = [status EXCEPT ![c] = "idle"]
  /\ args' = [args EXCEPT ![c] = NoArguments]
  /\ failed' = [failed EXCEPT ![c] = FALSE]
  /\ UNCHANGED <<kind, overlap, conn, todo, sid, there, lock, unsure>>

-----------------------------------------------------------------------------
(* Requests.                                                               *)

Proceed(c) == todo' = [todo EXCEPT ![c] = Tail(@)] /\ UNCHANGED failed

Abandon(c) ==
  /\ todo' = [todo EXCEPT ![c] = << >>]
  /\ failed' = [failed EXCEPT ![c] = TRUE]

\* Mutant of Fail: the request is made again until it is answered.
FailRetrying(c) ==
  IF Head(todo[c]).onError = "ignore" THEN Proceed(c)
    ELSE UNCHANGED <<todo, failed>>

\* A handler that looks answers with success if it finds the object.
Fail(c) ==
  \/ Head(todo[c]).onError = "ignore" /\ Proceed(c)
  \/ Head(todo[c]).onError # "ignore" /\ Abandon(c)
  \/ Head(todo[c]).onError = "look" /\ there /\ Proceed(c)
  \/ Head(todo[c]).onError = "verdict" /\ Proceed(c)

\* No critical section protects these tools: a request that fails may have
\* timed out, and the session with the locks taken in it is gone.
LockAfterFailure ==
  \/ lock' = lock
  \/ /\ lock.id = conn
     /\ lock' = [lock EXCEPT !.live = FALSE]

\* SAP refuses an object that another session has locked.
MayTouch ==
  /\ there
  /\ \/ lock.owner = NoOne
     \/ lock.live /\ lock.id = conn

\* The handle is good for the session that took the lock.
HoldsLock(c) ==
  /\ args[c].handle
  /\ lock = [owner |-> c, id |-> conn, live |-> TRUE]

unchangedByRequests == <<kind, overlap, status, args, sid>>

\* Mutant of Restore: the session type is set, the id is not.
RestoreTypeOnly(c) ==
  /\ Awaits(c, {"restore"})
  /\ Proceed(c)
  /\ UNCHANGED <<unchangedByRequests, conn, handle, there, lock, unsure>>

\* Mutant of Restore: the lock handle in place of the session.
RestoreHandle(c) ==
  /\ Awaits(c, {"restore"})
  /\ conn' = handle[c]
  /\ Proceed(c)
  /\ UNCHANGED <<unchangedByRequests, handle, there, lock, unsure>>

\* setSessionId; the session type is in module DebugSession.
Restore(c) ==
  /\ Awaits(c, {"restore"})
  /\ conn' = sid[c]
  /\ Proceed(c)
  /\ UNCHANGED <<unchangedByRequests, handle, there, lock, unsure>>

Refuse(c) ==
  /\ Awaits(c, {"refuse"})
  /\ Abandon(c)
  /\ UNCHANGED <<unchangedByRequests, conn, handle, there, lock, unsure>>

\* What a write or an activation contains is left out.
Ask(c) ==
  /\ Awaits(c, {"ask", "activate", "put"})
  /\ \/ /\ Head(todo[c]).do = "put" => HoldsLock(c)
        /\ Head(todo[c]).do = "activate" => MayTouch
        /\ Proceed(c) /\ UNCHANGED lock
     \/ Fail(c) /\ LockAfterFailure
  /\ UNCHANGED <<unchangedByRequests, conn, handle, there, unsure>>

Create(c) ==
  /\ Awaits(c, {"create"})
  /\ \/ /\ ~ there /\ there' = TRUE
        /\ \/ Proceed(c) /\ UNCHANGED lock
           \/ Fail(c) /\ LockAfterFailure
     \/ Fail(c) /\ LockAfterFailure /\ UNCHANGED there
  /\ UNCHANGED <<unchangedByRequests, conn, handle, unsure>>

Delete(c) ==
  /\ Awaits(c, {"delete"})
  /\ \/ /\ MayTouch /\ there' = FALSE
        /\ \/ Proceed(c) /\ UNCHANGED lock
           \/ Fail(c) /\ LockAfterFailure
     \/ Fail(c) /\ LockAfterFailure /\ UNCHANGED there
  /\ UNCHANGED <<unchangedByRequests, conn, handle, unsure>>

\* A caller that takes a new lock has no use for the handle of an older one.
\* The lock may be taken and its answer lost.
Lock(c) ==
  /\ Awaits(c, {"lock"})
  /\ \/ /\ there /\ lock = Free
        /\ lock' = [owner |-> c, id |-> conn, live |-> TRUE]
        /\ handle' = [handle EXCEPT ![c] = FALSE]
        /\ \/ Proceed(c) /\ unsure' = unsure \ {c}
           \/ Fail(c) /\ unsure' = unsure \cup {c}
     \/ Fail(c) /\ LockAfterFailure /\ UNCHANGED <<handle, unsure>>
  /\ UNCHANGED <<unchangedByRequests, conn, there>>

Unlock(c) ==
  /\ Awaits(c, {"unlock"})
  /\ \/ /\ HoldsLock(c) /\ lock' = Free
        /\ \/ Proceed(c) /\ unsure' = unsure \ {c}
           \/ Fail(c) /\ unsure' = unsure \cup {c}
     \/ Fail(c) /\ LockAfterFailure /\ UNCHANGED unsure
  /\ UNCHANGED <<unchangedByRequests, conn, handle, there>>

-----------------------------------------------------------------------------

Work(c) ==
  \/ Restore(c) \/ Refuse(c) \/ Ask(c) \/ Create(c) \/ Delete(c) \/ Lock(c)
  \/ Unlock(c) \/ AnswerLock(c) \/ Answer(c)

Next == \E c \in Callers : GetSession(c) \/ Begin(c) \/ Work(c)

\* A call that has begun goes on: its request is answered or times out.
Fairness == \A c \in Callers : WF_vars(Work(c))

Spec == Init /\ [][Next]_vars /\ Fairness

-----------------------------------------------------------------------------
(* Properties.                                                             *)

\* Every variable has its type: restoreSessionInConnection is given a session id
\* or nothing, never a lock handle.
TypeOK ==
  /\ kind \in Kinds
  /\ overlap \in BOOLEAN
  /\ conn \in Session \cup {NoSession}
  /\ status \in [Callers -> {"idle", "waiting"}]
  /\ args \in [Callers -> Arguments]
  /\ todo \in [Callers -> Seq(Step)]
  /\ failed \in [Callers -> BOOLEAN]
  /\ handle \in [Callers -> BOOLEAN]
  /\ sid \in [Callers -> Session \cup {NoSession}]
  /\ there \in BOOLEAN
  /\ lock \in [owner : Callers \cup {NoOne},
              id : Session \cup {NoSession}, live : BOOLEAN]
  /\ unsure \subseteq Callers

\* A caller whose lock and unlock calls were answered knows what it holds: it
\* has a handle exactly if the lock is its own.  No tool takes a lock and then
\* answers with an error, and none reports an unlock that did not happen.
HandlesMatchLocks ==
  \A c \in Callers :
    status[c] = "idle" /\ c \notin unsure => (handle[c] <=> lock.owner = c)

\* The class tools that lock, write and unlock never restore a session.
KeepsSessions == kind # "CLASS"

\* The next request of a call that was given a session and its state is made
\* in that session.
InOwnSession(c) ==
  Awaits(c, {"lock", "put", "unlock"}) /\ args[c].session /\ args[c].state
    => conn = sid[c]

\* As long as calls do not overlap, a lock is taken, used and released in the
\* session that the caller passes, whatever sessions the calls of others have
\* put on the connection in between.
LocksInOwnSession ==
  ~ overlap /\ KeepsSessions => \A c \in Callers : InOwnSession(c)

\* Is there a tool that makes its unlock request in the session of the lock?
CanRelease(c) ==
  \E r \in Requests[c][kind] :
    LET a == WithKnown(r, handle[c], sid[c])
        p == Program(a)
        At(op) == \E i \in DOMAIN p : p[i].do = op
    IN /\ a.operation = "unlock"
       /\ ~ At("refuse")
       /\ (IF At("restore") THEN sid[c] ELSE conn) = lock.id

HoldsLiveLock(c) ==
  /\ status[c] = "idle" /\ c \notin unsure
  /\ lock.owner = c /\ lock.live

\* Whoever may lock an object of some type may also unlock one with the tool
\* that goes with the lock tool, and send the state along: the low-level tools
\* of a type are offered together, and so are the compact ones.
UnlockBesideLock(requests) ==
  \A c \in Callers, k \in Kinds \ {"CLASS"} :
    \A r \in {q \in requests[c][k] : q.operation = "lock"} :
      \E u \in requests[c][k] :
        /\ u.operation = "unlock" /\ u.state
        /\ u.type = r.type /\ u.surface = r.surface

\* Whoever locked in the session it passes always has a tool to unlock with.
Releasable ==
  KeepsSessions =>
    \A c \in Callers :
      HoldsLiveLock(c) /\ lock.id \in Session /\ lock.id = sid[c]
        => CanRelease(c)

\* "Use this lock_handle and session_id for subsequent update/unlock
\* operations": what a lock tool returns is enough to unlock.
AnswerIsEnough ==
  KeepsSessions => \A c \in Callers : HoldsLiveLock(c) => CanRelease(c)

\* Every call is answered, whatever fails.
EveryCallAnswers ==
  \A c \in Callers : status[c] = "waiting" ~> status[c] = "idle"

=============================================================================
