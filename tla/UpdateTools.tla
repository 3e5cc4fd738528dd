----------------------------- MODULE UpdateTools -----------------------------
(***************************************************************************)
(* Concurrent calls of the Update* tools against ABAP repositories.        *)
(*                                                                         *)
(* Module UpdateHandlers says which requests a handler awaits.  This       *)
(* module runs those programs: Node.js interleaves the calls at every      *)
(* await, so each answered request is one step.  It models                 *)
(*   - the wrappers HighLevelHandlersGroup puts around a handler: the      *)
(*     critical section on the connection, the read-back of the source,    *)
(*     the check of the metadata;                                          *)
(*   - `context`, the field of the handler group every call of every       *)
(*     client overwrites and the wrappers read again after an await;       *)
(*   - the ADT server as the handlers see it: one object per system, its   *)
(*     lock, its saved and its active version and its change timestamp.    *)
(*     It may refuse any request, accept a PUT without writing anything,   *)
(*     and lose a session (with the locks taken in it) when a request      *)
(*     times out.                                                          *)
(***************************************************************************)
EXTENDS UpdateHandlers, Naturals, FiniteSets

CONSTANTS
  Calls,        \* tool calls; each runs once
  Connections,  \* ADT connections of the server process
  Systems,      \* SAP systems; each holds one object
  Sources,      \* versions of the object
  Unsound,      \* versions with a syntax error
  PrefixOf,     \* pairs <<short, long>> of texts, the first a prefix of the other
  Initial,      \* the version every system starts with
  Nobody,       \* no lock owner, no connection
  Client,       \* a caller that locks by itself, with the low-level tools
  ConnOf,       \* the connection of a call
  SystemOf,     \* the system a connection leads to
  Requests      \* what each call may ask for

Arguments ==
  {a \in [tool : Tools, surface : {"high", "compact"}, source : Sources,
          activate : BOOLEAN, ownLock : BOOLEAN] : Possible(a)}

ASSUME ConstantsAssumption ==
  /\ IsFiniteSet(Calls)
  /\ Unsound \subseteq Sources
  /\ Initial \in Sources \ Unsound
  /\ PrefixOf \subseteq Sources \X Sources
  /\ ConnOf \in [Calls -> Connections]
  /\ SystemOf \in [Connections -> Systems]
  /\ DOMAIN Requests = Calls
  /\ \A c \in Calls : Requests[c] \subseteq Arguments
  /\ Nobody \notin Calls \cup {Client} \cup Connections
  /\ Client \notin Calls

VARIABLES
  status,       \* has the call begun, has it answered
  args,         \* its arguments
  todo,         \* the requests it has still to make
  handle,       \* its local variable lockHandle is set
  bound,        \* the connection its handler was given
  before,       \* the change timestamps read before the handler ran, if any
  found,        \* the descriptions read back so far
  result,       \* what it has to answer so far
  verified,     \* what the read-back of its write came to
  context,      \* this.context.connection of the high-level group
  critical,     \* critical sections open on each connection
  lock,         \* the object's lock, on each system
  saved,        \* the version last written, on each system
  active,       \* the version last activated, on each system
  revision,     \* the change timestamp, on each system
  landed,       \* history: the systems a call has written to
  held,         \* history: calls whose own system held their source after
                \*   their write request was accepted
  unlockFailed  \* history: calls one of whose unlock requests failed

written  == <<saved, revision, landed>>
readings == <<before, found>>
frame    == <<status, args, context, critical>>  \* only Begin and Answer change it
reply    == <<result, verified>>
local    == <<status, args, todo, handle, bound, readings, reply>>
server   == <<lock, written, active>>
vars     == <<local, context, critical, server, held, unlockFailed>>

NoArguments == [tool |-> "UpdateClass", surface |-> "compact", source |-> Initial,
                activate |-> FALSE, ownLock |-> TRUE]
Free        == [owner |-> Nobody, conn |-> Nobody, live |-> TRUE]

Init ==
  /\ status   = [c \in Calls |-> "idle"]
  /\ args     = [c \in Calls |-> NoArguments]
  /\ todo     = [c \in Calls |-> << >>]
  /\ handle   = [c \in Calls |-> FALSE]
  /\ bound    = ConnOf
  /\ before   = [c \in Calls |-> {}]
  /\ found    = [c \in Calls |-> {}]
  /\ result   = [c \in Calls |-> "none"]
  /\ verified = [c \in Calls |-> "none"]
  /\ context  = Nobody
  /\ critical = [k \in Connections |-> 0]
  /\ lock     = [s \in Systems |-> Free]
  /\ saved    = [s \in Systems |-> Initial]
  /\ active   = [s \in Systems |-> Initial]
  /\ revision = [s \in Systems |-> 0]
  /\ landed   = [c \in Calls |-> {}]
  /\ held     = {}
  /\ unlockFailed = {}

-----------------------------------------------------------------------------
(* Where a call is.                                                        *)

Home(c) == SystemOf[ConnOf[c]]   \* the system its client addressed
At(c)   == SystemOf[bound[c]]    \* the system its handler talks to

Awaits(c, op) ==
  /\ status[c] = "running"
  /\ todo[c] # << >>
  /\ Head(todo[c]).do = op

Ahead(c, ops) == \E i \in DOMAIN todo[c] : todo[c][i].do \in ops

\* The lock owner whose handle the call presents with its write.
Presented(c) == IF args[c].ownLock THEN c ELSE Client

\* The server knows a handle only in the session that took the lock.
HoldsLock(c) ==
  lock[At(c)] = [owner |-> Presented(c), conn |-> bound[c], live |-> TRUE]

-----------------------------------------------------------------------------
(* How a request ends.                                                     *)

\* Answered, and the handler goes on.
Proceed(c) == todo' = [todo EXCEPT ![c] = Tail(@)]

\* Mutant of Abandon: a handler without its finally.
AbandonLocked(c) ==
  /\ todo' = [todo EXCEPT ![c] = << >>]
  /\ result' = [result EXCEPT ![c] = "error"]
  /\ UNCHANGED verified

\* The error reaches the finally and the catch of the handler.
Abandon(c) ==
  /\ todo' = [todo EXCEPT ![c] = IF handle[c] /\ Ahead(c, {"unlock"})
                                   THEN << May("unlock") >> ELSE << >>]
  /\ result' = [result EXCEPT ![c] = "error"]
  /\ UNCHANGED verified

\* Mutant of Fail: the request is tried again until it is answered.
FailRetrying(c) ==
  IF Head(todo[c]).onError = "ignore"
    THEN Proceed(c) /\ UNCHANGED reply
    ELSE UNCHANGED <<todo, reply>>

Fail(c) ==
  IF Head(todo[c]).onError = "ignore"
    THEN Proceed(c) /\ UNCHANGED reply
    ELSE Abandon(c)

\* A request that fails leaves the session alone, unless it timed out: then
\* the socket is torn down and every lock taken in the session is orphaned.
\* Inside a critical section no request times out.
Severed(k) ==
  [s \in Systems |->
    IF lock[s].conn = k THEN [owner |-> lock[s].owner, conn |-> k, live |-> FALSE]
    ELSE lock[s]]

SessionAfterFailure(k) ==
  \/ lock' = lock
  \/ critical[k] = 0 /\ lock' = Severed(k)

\* A write reaches the object of system s.
Write(c, s) ==
  /\ saved'    = [saved EXCEPT ![s] = args[c].source]
  /\ revision' = [revision EXCEPT ![s] = @ + 1]
  /\ landed'   = [landed EXCEPT ![c] = @ \cup {s}]

NoWrite == UNCHANGED written

\* The calls that are past their write request and whose source is on their
\* own system join `held`.  Every step of a call ends with this.
Witness ==
  held' = held \cup
    {c \in Calls : /\ status'[c] = "running"
                   /\ ~ \E i \in DOMAIN todo'[c] : todo'[c][i].do \in {"put", "publish"}
                   /\ saved'[Home(c)] = args'[c].source}

-----------------------------------------------------------------------------
(* A call begins and answers.                                              *)

\* wrappedHandler stores the context in the group and calls the wrapped
\* handler without an await in between.
Begin(c) ==
  /\ status[c] = "idle"
  /\ \E a \in Requests[c] :
       /\ args' = [args EXCEPT ![c] = a]
       /\ todo' = [todo EXCEPT ![c] = Program(a)]
       /\ IF a.surface = "high"
            THEN /\ context' = ConnOf[c]
                 /\ critical' = [critical EXCEPT ![ConnOf[c]] = @ + 1]
            ELSE UNCHANGED <<context, critical>>
  /\ status' = [status EXCEPT ![c] = "running"]
  /\ UNCHANGED <<handle, bound, readings, reply, server, unlockFailed>>

\* Mutant of Answer: the bare tools leave a section they have not entered.
AnswerLeavesSection(c) ==
  /\ status[c] = "running"
  /\ todo[c] = << >>
  /\ status' = [status EXCEPT ![c] = "returned"]
  /\ result' = [result EXCEPT ![c] = IF @ = "none" THEN "ok" ELSE @]
  /\ critical' = [critical EXCEPT ![ConnOf[c]] = @ - 1]
  /\ UNCHANGED <<args, todo, handle, bound, readings, verified, context, server,
                 unlockFailed>>

\* Mutant of Answer: a flag in place of the count of sections.
AnswerEndsSections(c) ==
  /\ status[c] = "running"
  /\ todo[c] = << >>
  /\ status' = [status EXCEPT ![c] = "returned"]
  /\ result' = [result EXCEPT ![c] = IF @ = "none" THEN "ok" ELSE @]
  /\ critical' = IF args[c].surface = "high"
                   THEN [critical EXCEPT ![ConnOf[c]] = 0] ELSE critical
  /\ UNCHANGED <<args, todo, handle, bound, readings, verified, context, server,
                 unlockFailed>>

Answer(c) ==
  /\ status[c] = "running"
  /\ todo[c] = << >>
  /\ status' = [status EXCEPT ![c] = "returned"]
  /\ result' = [result EXCEPT ![c] = IF @ = "none" THEN "ok" ELSE @]
  /\ critical' = IF args[c].surface = "high"
                   THEN [critical EXCEPT ![ConnOf[c]] = @ - 1] ELSE critical
  /\ UNCHANGED <<args, todo, handle, bound, readings, verified, context, server,
                 unlockFailed>>

-----------------------------------------------------------------------------
(* Requests that change nothing on the server.                             *)

Ask(c) ==
  /\ Awaits(c, "ask")
  /\ \/ Proceed(c) /\ UNCHANGED <<reply, lock>>
     \/ Fail(c) /\ SessionAfterFailure(bound[c])
  /\ NoWrite
  /\ UNCHANGED <<frame, handle, bound, readings, active, unlockFailed>>

\* isInclude: an answer means the name is an include's, and is refused; any
\* error means it is not.
Probe(c) ==
  /\ Awaits(c, "probe")
  /\ \/ Abandon(c) /\ UNCHANGED lock
     \/ Proceed(c) /\ SessionAfterFailure(bound[c]) /\ UNCHANGED reply
  /\ NoWrite
  /\ UNCHANGED <<frame, handle, bound, readings, active, unlockFailed>>

\* What a check looks at: the source to be written, or the version saved.
Checked(c) ==
  IF Head(todo[c]).do = "checkNew" THEN args[c].source ELSE saved[At(c)]

\* "Already checked" counts as passed.
Check(c) ==
  /\ Awaits(c, "checkNew") \/ Awaits(c, "checkSaved")
  /\ \/ Checked(c) \notin Unsound /\ Proceed(c) /\ UNCHANGED <<reply, lock>>
     \/ Fail(c) /\ SessionAfterFailure(bound[c])
  /\ NoWrite
  /\ UNCHANGED <<frame, handle, bound, readings, active, unlockFailed>>

-----------------------------------------------------------------------------
(* The lock, the write, the unlock.                                        *)

Lock(c) ==
  /\ Awaits(c, "lock")
  /\ \/ /\ lock[At(c)] = Free
        /\ lock' = [lock EXCEPT ![At(c)] =
                      [owner |-> c, conn |-> bound[c], live |-> TRUE]]
        /\ handle' = [handle EXCEPT ![c] = TRUE]
        /\ Proceed(c) /\ UNCHANGED reply
     \/ Fail(c) /\ SessionAfterFailure(bound[c]) /\ UNCHANGED handle
  /\ NoWrite
  /\ UNCHANGED <<frame, bound, readings, active, unlockFailed>>

\* The server takes the PUT of whoever presents the handle of a live lock.  It
\* may take it and leave the object as it was, or write it and lose the answer.
Put(c) ==
  /\ Awaits(c, "put")
  /\ \/ HoldsLock(c) /\ Write(c, At(c)) /\ Proceed(c) /\ UNCHANGED <<reply, lock>>
     \/ HoldsLock(c) /\ NoWrite /\ Proceed(c) /\ UNCHANGED <<reply, lock>>
     \/ /\ HoldsLock(c)
        /\ Write(c, At(c)) /\ Fail(c) /\ SessionAfterFailure(bound[c])
     \/ NoWrite /\ Fail(c) /\ SessionAfterFailure(bound[c])
  /\ UNCHANGED <<frame, handle, bound, readings, active, unlockFailed>>

\* One request that needs no lock.
Publish(c) ==
  /\ Awaits(c, "publish")
  /\ \/ (Write(c, At(c)) \/ NoWrite) /\ Proceed(c) /\ UNCHANGED <<reply, lock>>
     \/ (Write(c, At(c)) \/ NoWrite) /\ Fail(c) /\ SessionAfterFailure(bound[c])
  /\ UNCHANGED <<frame, handle, bound, readings, active, unlockFailed>>

Unlock(c) ==
  /\ Awaits(c, "unlock")
  /\ handle' = [handle EXCEPT ![c] = FALSE]
  /\ \/ /\ HoldsLock(c)
        /\ lock' = [lock EXCEPT ![At(c)] = Free]
        /\ Proceed(c) /\ UNCHANGED <<reply, unlockFailed>>
     \/ /\ Fail(c) /\ SessionAfterFailure(bound[c])
        /\ unlockFailed' = unlockFailed \cup {c}
  /\ NoWrite
  /\ UNCHANGED <<frame, bound, readings, active>>

-----------------------------------------------------------------------------
(* Activation.                                                             *)

\* The server refuses to activate an unsound version and an object locked in
\* another session.
CanActivate(c) ==
  /\ saved[At(c)] \notin Unsound
  /\ \/ lock[At(c)].owner = Nobody
     \/ lock[At(c)].live /\ lock[At(c)].conn = bound[c]

Activated(c) == active' = [active EXCEPT ![At(c)] = saved[At(c)]]

Activate(c) ==
  /\ Awaits(c, "activate")
  /\ \/ CanActivate(c) /\ Activated(c) /\ Proceed(c) /\ UNCHANGED <<reply, lock>>
     \/ Fail(c) /\ SessionAfterFailure(bound[c]) /\ UNCHANGED active
  /\ NoWrite
  /\ UNCHANGED <<frame, handle, bound, readings, unlockFailed>>

\* A run of the group activation: the handler reads the error messages of the
\* results and answers success = false, without isError.
ActivateGroup(c) ==
  /\ Awaits(c, "activateGroup")
  /\ \/ CanActivate(c) /\ Activated(c) /\ Proceed(c) /\ UNCHANGED <<reply, lock>>
     \/ /\ ~ CanActivate(c) /\ Proceed(c)
        /\ result' = [result EXCEPT ![c] = "incomplete"]
        /\ UNCHANGED <<verified, lock, active>>
     \/ Fail(c) /\ SessionAfterFailure(bound[c]) /\ UNCHANGED active
  /\ NoWrite
  /\ UNCHANGED <<frame, handle, bound, readings, unlockFailed>>

-----------------------------------------------------------------------------
(* Reading back.                                                           *)

Verdict(c, verdict) ==
  /\ verified' = [verified EXCEPT ![c] = verdict]
  /\ Proceed(c) /\ UNCHANGED result

\* Mutant of Unconfirmed: a difference is noted on an answer that is no error.
UnconfirmedNoted(c) ==
  /\ verified' = [verified EXCEPT ![c] = "differs"]
  /\ Proceed(c) /\ UNCHANGED result

\* Positive evidence that the write did not land: the call is an error, and
\* nothing of its program is left to do.
Unconfirmed(c) ==
  /\ result'   = [result EXCEPT ![c] = "error"]
  /\ verified' = [verified EXCEPT ![c] = "differs"]
  /\ todo'     = [todo EXCEPT ![c] = << >>]

\* verifySourceWritten inside a handler: what cannot be read is an error too.
ReadBack(c) ==
  /\ Awaits(c, "readBack")
  /\ \/ saved[At(c)] = args[c].source /\ Verdict(c, "yes") /\ UNCHANGED lock
     \/ saved[At(c)] # args[c].source /\ Unconfirmed(c) /\ UNCHANGED lock
     \/ Fail(c) /\ SessionAfterFailure(bound[c])
  /\ NoWrite
  /\ UNCHANGED <<frame, handle, bound, readings, active, unlockFailed>>

\* Mutant of Verify: a source that can be read counts as confirmed.
VerifyReadable(c) ==
  /\ Awaits(c, "verify")
  /\ \/ Verdict(c, "yes") /\ UNCHANGED lock
     \/ Verdict(c, "no") /\ SessionAfterFailure(context)
  /\ NoWrite
  /\ UNCHANGED <<frame, handle, bound, readings, active, unlockFailed>>

\* withWriteVerification asks for the context only now, after the handler: the
\* connection is that of whoever began last.  What cannot be read is reported
\* as unverified.
Verify(c) ==
  /\ Awaits(c, "verify")
  /\ LET seen == saved[SystemOf[context]] IN
       \/ seen = args[c].source /\ Verdict(c, "yes") /\ UNCHANGED lock
       \/ seen # args[c].source /\ Unconfirmed(c) /\ UNCHANGED lock
       \/ Verdict(c, "no") /\ SessionAfterFailure(context)
  /\ NoWrite
  /\ UNCHANGED <<frame, handle, bound, readings, active, unlockFailed>>

\* withMetadataVerification awaits the timestamp and only then calls the
\* handler, which takes this.context as it is by then.
Stamp(c) ==
  /\ Awaits(c, "stamp")
  /\ \/ before' = [before EXCEPT ![c] = {revision[Home(c)]}] /\ UNCHANGED lock
     \/ SessionAfterFailure(ConnOf[c]) /\ UNCHANGED before
  /\ bound' = [bound EXCEPT ![c] = context]
  /\ Proceed(c)
  /\ NoWrite
  /\ UNCHANGED <<frame, handle, found, reply, active, unlockFailed>>

\* It kept the context it read first, so it looks where its client meant.
VerifyStamp(c) ==
  /\ Awaits(c, "verifyStamp")
  /\ \/ /\ before[c] # {} /\ UNCHANGED lock
        /\ IF revision[Home(c)] \in before[c] THEN Unconfirmed(c)
                                             ELSE Verdict(c, "yes")
     \/ before[c] = {} /\ Verdict(c, "no") /\ UNCHANGED lock
     \/ Verdict(c, "no") /\ SessionAfterFailure(ConnOf[c])
  /\ NoWrite
  /\ UNCHANGED <<frame, handle, bound, readings, active, unlockFailed>>

\* readField: a version that cannot be read is left out.
FindActive(c) ==
  /\ Awaits(c, "findActive")
  /\ \/ found' = [found EXCEPT ![c] = {active[Home(c)]}] /\ UNCHANGED lock
     \/ SessionAfterFailure(ConnOf[c]) /\ UNCHANGED found
  /\ Proceed(c)
  /\ NoWrite
  /\ UNCHANGED <<frame, handle, bound, before, reply, active, unlockFailed>>

\* Equal to what was asked for, or cut at the length of the field.
Matches(seen, wanted) == seen = wanted \/ <<seen, wanted>> \in PrefixOf

Judge(c, observed) ==
  IF observed = {} THEN Verdict(c, "no")
  ELSE IF \E seen \in observed : Matches(seen, args[c].source)
    THEN Verdict(c, "yes")
    ELSE Unconfirmed(c)

\* The inactive version, or the only one, is read last.
VerifyField(c) ==
  /\ Awaits(c, "verifyField")
  /\ \/ Judge(c, found[c] \cup {saved[Home(c)]}) /\ UNCHANGED lock
     \/ Judge(c, found[c]) /\ SessionAfterFailure(ConnOf[c])
  /\ NoWrite
  /\ UNCHANGED <<frame, handle, bound, readings, active, unlockFailed>>

-----------------------------------------------------------------------------
(* A caller that works with the low-level Lock and Unlock tools, to pass   *)
(* its handle to UpdateBehaviorDefinition or UpdateMetadataExtension.      *)

ClientLock(k) ==
  /\ lock[SystemOf[k]] = Free
  /\ lock' = [lock EXCEPT ![SystemOf[k]] =
                [owner |-> Client, conn |-> k, live |-> TRUE]]

ClientUnlock(s) ==
  /\ lock[s].owner = Client /\ lock[s].live
  /\ lock' = [lock EXCEPT ![s] = Free]

\* Only a caller with something to pass it to locks by itself.
MayPassHandle(c) ==
  \/ status[c] = "idle" /\ \E a \in Requests[c] : ~ a.ownLock
  \/ status[c] = "running" /\ ~ args[c].ownLock

ClientStep ==
  /\ \/ /\ \E c \in Calls : MayPassHandle(c)
        /\ \E k \in Connections : ClientLock(k)
     \/ \E s \in Systems : ClientUnlock(s)
  /\ UNCHANGED <<local, context, critical, written, active, unlockFailed>>

-----------------------------------------------------------------------------

Request(c) ==
  \/ Ask(c) \/ Probe(c) \/ Check(c) \/ Lock(c) \/ Put(c) \/ Publish(c)
  \/ Unlock(c) \/ Activate(c) \/ ActivateGroup(c) \/ ReadBack(c) \/ Verify(c)
  \/ Stamp(c) \/ VerifyStamp(c) \/ FindActive(c) \/ VerifyField(c)

CallStep(c) == (Begin(c) \/ Request(c) \/ Answer(c)) /\ Witness

Next == (\E c \in Calls : CallStep(c)) \/ (ClientStep /\ Witness)

\* Every request is answered or times out, and the event loop runs the
\* continuation: a call that has begun keeps moving.
Fairness == \A c \in Calls : WF_vars((Request(c) \/ Answer(c)) /\ Witness)

Spec == Init /\ [][Next]_vars /\ Fairness

-----------------------------------------------------------------------------
(* Properties.                                                             *)

LockStates ==
  [owner : Calls \cup {Client, Nobody}, conn : Connections \cup {Nobody},
   live : BOOLEAN]

\* Every variable has its type.
TypeOK ==
  /\ status \in [Calls -> {"idle", "running", "returned"}]
  /\ args \in [Calls -> Arguments]
  /\ todo \in [Calls -> Seq(Step)]
  /\ handle \in [Calls -> BOOLEAN]
  /\ bound \in [Calls -> Connections]
  /\ before \in [Calls -> SUBSET Nat]
  /\ found \in [Calls -> SUBSET Sources]
  /\ result \in [Calls -> {"none", "ok", "incomplete", "error"}]
  /\ verified \in [Calls -> {"none", "yes", "no", "differs"}]
  /\ context \in Connections \cup {Nobody}
  /\ critical \in [Connections -> Nat]
  /\ lock \in [Systems -> LockStates]
  /\ saved \in [Systems -> Sources]
  /\ active \in [Systems -> Sources]
  /\ revision \in [Systems -> Nat]
  /\ landed \in [Calls -> SUBSET Systems]
  /\ held \subseteq Calls
  /\ unlockFailed \subseteq Calls

\* A call that has answered leaves the object unlocked, unless an unlock
\* request of its own failed: no early return, failed check, refused PUT or
\* failed activation skips the finally of the handlers.
NoOrphanLock ==
  \A c \in Calls, s \in Systems :
    status[c] = "returned" /\ lock[s].owner = c => c \in unlockFailed

\* A timeout orphans no lock of a call made through the high-level tools while
\* that call runs, whatever other calls do on the same connection: the critical
\* sections of overlapping calls are counted (criticalSection.ts).
CriticalSectionHolds ==
  \A c \in Calls, s \in Systems :
    /\ lock[s].owner = c /\ ~ lock[s].live
    /\ status[c] = "running" /\ args[c].surface = "high"
    => c \in unlockFailed

\* A high-level tool that compares the source answers with success only if the
\* system held that source at some moment after the write request was accepted,
\* or says that it could not look (writeVerification.ts).
Truthful ==
  \A c \in Calls :
    /\ status[c] = "returned"
    /\ args[c].surface = "high" /\ args[c].tool \in SOURCE_WRITE_TOOLS
    /\ result[c] = "ok" /\ verified[c] # "no"
    => c \in held

\* A tool that checks the new source before the PUT never leaves a source with
\* syntax errors on the server when it was asked to activate it.
RefusedSourceNotWritten ==
  \A c \in Calls :
    /\ args[c].tool \in {"UpdateClass", "UpdateDdl", "UpdateTable",
                        "UpdateStructure", "UpdateInterface", "UpdateProgram"}
    /\ args[c].activate /\ args[c].source \in Unsound
    => landed[c] = {}

\* A live lock is released by a request of the call that took it, or by the
\* caller that took it: a handler that was given a lock_handle keeps its hands
\* off the lock, and no handler releases the lock of an overlapping call.
OnlyOwnerReleases ==
  [][\A s \in Systems :
       lock[s].live /\ lock[s].owner # Nobody /\ lock'[s].owner # lock[s].owner
         => \/ lock[s].owner = Client /\ todo' = todo
            \/ \E c \in Calls : lock[s].owner = c /\ todo'[c] # todo[c]]_vars

\* A call writes only to the system its client addressed, although all clients
\* of the server share the handler groups and their context field.
WritesStayHome == \A c \in Calls : landed[c] \subseteq {Home(c)}

\* A call that has begun answers.
EveryCallAnswers ==
  \A c \in Calls : status[c] = "running" ~> status[c] = "returned"

-----------------------------------------------------------------------------
(* The promise to the caller, and what implements it.                      *)

Outcome(c) ==
  IF status[c] # "returned" THEN "none"
  ELSE IF result[c] = "error" THEN "error"
  ELSE IF /\ args[c].surface = "high"
          /\ args[c].tool \in SOURCE_WRITE_TOOLS
          /\ verified[c] = "yes"
    THEN "confirmed" ELSE "unconfirmed"

Contract ==
  INSTANCE UpdateContract WITH
    value  <- saved,
    phase  <- status,
    wants  <- [c \in Calls |-> args[c].source],
    wrote  <- [c \in Calls |-> landed[c] # {}],
    seen   <- held,
    answer <- [c \in Calls |-> Outcome(c)],
    HomeOf <- [c \in Calls |-> Home(c)]

\* The calls as they are interleaved keep the promise of UpdateContract.
KeepsContract == Contract!Spec

=============================================================================
