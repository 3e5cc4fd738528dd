# mcp-abap-adt-fira: verification models

TLA+ models of the MCP server in `src/`: an MCP server, written in TypeScript,
through which clients (AI assistants, mostly) read and write ABAP objects of
SAP systems over ADT, SAP's HTTP interface for development tools. Paths below
are relative to the repository.

One Node.js process serves any number of clients. It has no threads: control
passes from one call to another at every `await`, and nowhere else. The models
take one step per awaited answer, with everything the code does up to its next
`await`.

## 1. The system

| Part | State | Operations | Used by |
| --- | --- | --- | --- |
| Streamable HTTP server, `server/StreamableHttpServer.ts`, `BaseMcpServer.ts` | `authLocks` (promise per destination); a server object per request | route a request, authenticate, dispatch to a tool | clients |
| Auth brokers, `lib/auth/brokerFactory.ts` | a broker per destination, behind it token and key stores | create, get config, get token | all servers |
| System context, `lib/systemContext.ts` | one variable of the process | resolve, get, reset | `createAdtClient`, every handler |
| SSE server, `server/SseServer.ts` | a map of sessions | GET opens, POST uses, close deletes | clients |
| Stdio server, `BaseMcpServer.getConnection` | one cached connection | create on the first call | one client |
| Handler groups, `lib/handlers/groups/*` | `context`, one field per group, overwritten by every call | wrap a handler, call it | all servers |
| High-level tools, `handlers/*/high` | none; a lock handle while they run | lock, check, write, unlock, activate | clients |
| Compact tools, `handlers/compact` | none | route to the same handlers, without wrappers | clients |
| Low-level tools, `handlers/*/low` | none | one request each; the caller keeps handles | clients |
| Write verification, `lib/writeVerification.ts`, `metadataVerification.ts` | none | read back after (and before) a handler | high-level group |
| Critical section, `lib/criticalSection.ts` | a count on the connection | begin, end | high-level group |
| Breakpoints, `lib/adt/debuggerBreakpoints.ts` | the registry of the process | set, delete, delete all, list | debugger tools |
| Debugger session, `handlers/debugger` | the session type of the connection | listen, attach, step, stop | clients |
| Source search, `lib/search-source` | none; a pool of readers while it runs | scan with caps and a deadline | clients |
| Landscape, `lib/landscape`, `lib/adt/secondarySystem.ts` | connections by system name; environment files | compare, set up a system | clients |
| Read-only tools, configuration, logging | none, or caches | one request and a conversion | clients |

The ADT server behind all this keeps, per object, a lock (valid in the session
that took it), a saved and an active version and a change timestamp.

What is hard to get right here:

* **Shared fields across `await`.** `context` of a handler group, the system
  context, the registry of breakpoints, `authLocks`, the session type of a
  connection are each written by one call and read by another.
* **Failure in the middle.** A write is a chain of lock, check, PUT, unlock,
  activate, and any link may fail or time out. A timeout tears down the
  session and orphans its locks.
* **Lies of the server.** SAP may accept a PUT and write nothing
  (`README.md:58-62`), which is why writes are read back.
* **Several systems in one process**, which parts of the code were not written
  for.

What makes each part correct, and the hazard behind it, is in
`PROJECT.json` under `hazards`, with the property that covers it.

## 2. Modules

### HandlerPrograms, UpdateHandlers: what a handler awaits

`HandlerPrograms` is the notation: a handler is a sequence of requests. In
`UpdateHandlers` there is one definition per `Update*` handler: the requests it awaits, each with what its
failure does (`abort`: the error reaches the handler's `catch`;
`ignore`: an inner `catch` logs it). `Handler` dispatches on the tool,
`Program` adds what the wrappers await before and after it. The module has no
variables, so that the proofs can argue about every program at once.

Nine tools leave the chain to one `update()` call of the client library, which
is not in the repository. Their steps are those that the tools' descriptions
and results name (`handleUpdateLocal*.ts:18`, `handleUpdateBehaviorImplementation.ts:7`).
A second attempt to unlock after a failed unlock is left out.

### UpdateTools: the handlers at work

| In the model | In the code |
| --- | --- |
| `Begin` | `registerHandlers`: the context is stored in the group, the wrapped handler is called and runs to its first `await`; `withCriticalSection` begins |
| `Ask`, `Probe`, `Check`, `Lock`, `Put`, `Publish`, `Unlock`, `Activate`, `ActivateGroup`, `ReadBack` | the answers to the handler's requests |
| `Verify` | `withWriteVerification`, with the context of whoever began last |
| `Stamp`, `VerifyStamp`, `FindActive`, `VerifyField` | `withMetadataVerification` and `readField` |
| `Answer` | the handler has returned; `withCriticalSection` ends |
| `ClientLock`, `ClientUnlock` | a caller that uses the low-level Lock and Unlock tools, to pass its handle on |
| `Abandon`, `Fail` | the `finally` and `catch` of a handler |
| `SessionAfterFailure`, `Severed` | a request that timed out takes the session, and every lock in it, along |

`landed`, `held` and `unlockFailed` are history variables, for the properties
only. The object's content is a member of a small set `Sources`; `Unsound`
says which have syntax errors; `PrefixOf` which description is another one cut
at the length of its field.

Assumptions about SAP and the client library, which is external:

* A lock is exclusive, and its handle is good only in the session that took it.
* A request may be refused at any time; a PUT may be accepted without effect,
  or take effect and lose its answer.
* A request times out only outside critical sections: inside, the timeout is
  raised to `SAP_TIMEOUT_CRITICAL` (`criticalSection.ts:1-20`). A LOCK whose
  answer is lost is not modelled.
* Activation throws when it fails (`CHANGELOG.md:63`).
* "Already checked" is given only for sound versions.
* An update without a `description` is reported as unverified, like a
  description that cannot be read.

What a handler refuses before its first request is left out.

### UpdateContract: what the caller is promised

The abstract specification: a call takes effect at most once, on its own
system, while it runs, and answers "confirmed" only if the system held what
was sent at some moment of the call. `UpdateTools` implements it through the
refinement mapping at its end (`KeepsContract`).

### ObjectHandlers: what a create or delete tool awaits

The same for the `Create*` and `Delete*` handlers. Two more things may follow
a failure: `look` (the handler reads the object, and answers with success if
it is there: `CreateClass`, `CreatePackage`) and `assume` (it answers with
success without a look: `CreateFunctionGroup`). Three handlers keep the
variable `lockHandle` after they have unlocked ("release"), so that their
`catch` unlocks a second time.

`AdtClass.create()`, `delete()` and `update()` are the client library's; the
steps of the first are those of the comment at `handleCreateClass.ts:97-98`.
`CreateTransport` and `CreateUnitTest`, which make a thing with a number of
its own every time, and `DeleteUnitTest`, which only refuses, are single
requests or none: they are in `LowLevelHandlers`.

### ObjectTools: create and delete at work

Calls for one object, which is there or not, has an active version or not, and
may be locked. `kind` fixes which tools work on it: a class, for instance, is
the object of `CreateClass`, `DeleteClass`, `CreateCdsUnitTest`, and of the
tools for its local includes.

| In the model | In the code |
| --- | --- |
| `Begin`, `Answer` | the wrapped handler is called and answers; `withCriticalSection` begins and ends |
| `Ask` | validate, read or check is answered |
| `Create`, `Delete` | the request that makes or removes the object |
| `Lock`, `Put`, `Unlock`, `Activate` | the handler's requests between creation and answer |
| `Find` | the read after a creation that failed |
| `Fail`, `Abandon`, `Look`, `Assume` | the `catch` of a handler |
| `SessionAfterFailure` | as in `UpdateTools` |

`did`, `saw`, `shown` and `unlockFailed` are history variables. SAP is assumed
to behave as above, and moreover: a request on an object locked in another
session is refused (423); a creation makes no active version; a request that
failed may have been carried out all the same, which is how a package or
function group can be there after an error. What a write contains is left out.

### ObjectContract: what the caller is promised

A call that answers "done" has made, or removed, the object itself, in one
step while it ran; "found" means that it was there while the call ran; "unsure"
and "error" promise nothing. `ObjectTools` implements it (`KeepsContract`).
"unsure" is the answer that `CreateFunctionGroup` assumes: the tool says
success for a group that may never have existed, and the contract does not
count it as "done".

`ReportsActivation` is about the regular end of a create handler. Two more
answers of the code report an activation, and it says nothing of either:
`CreateFunctionGroup` answers `activated` as asked on an error it takes for
success (`handleCreateFunctionGroup.ts:330-343`), having looked at nothing, and
`CreateClass` answers `activated: true` for a class that was there already
(`handleCreateClass.ts:147-163`), having read its active version, which the
model does not tell from any other read.

### HttpServer: requests up to their handler

| In the model | In the code |
| --- | --- |
| `Arrive` | the routing by `x-mcp-destination`, `x-sap-*` headers, default destination |
| `CreateBroker` | `getOrCreateAuthBroker` |
| `Acquire`, `StartAuth`, `Resume` | the lock per destination, `createRequestHandler:206-224` |
| `ReadConfig`, `GetToken`, `ResolveSystem` | the awaits of `setConnectionContext` |
| `Settle` | the promise is settled and its `finally` has run, together with what waited for it |
| `Dispatch` | the transport calls the handler, which makes its client from the cached system context |

A promise stands for the request that made it. Left out: which of two brokers
a request holds (only whether its destination has one), `SAP_MASTER_SYSTEM`
and the other environment variables that settle the system context at the
first call (the model is the cloud case, where the system is asked), and
`metadata.masterSystem`, which no handler reads.

### SseServer: sessions, and the choice of a transport

| In the model | In the code |
| --- | --- |
| `transport` | the branch of `launcher.ts:356-392`; never changes |
| `Arrive`, `CreateBroker`, `NoBroker` | the routing of `handleGet`; where no broker can be made, SSE goes on without a connection |
| `StartSession`, `Authenticate` | `init`, the same `setConnectionContext`, but with no lock around it |
| `Store`, `Connect` | `sessions.set`, then `server.connect`; a failure takes the session out |
| `Leave` | the client closes the response; the handler of that removes the session, if it is registered by then |
| `Post`, `Handle` | `handlePost`: a session that is not in the map is refused; else its server object handles the message |

It extends `HttpServer`: `ServersSpec` is the server with either transport.
`early` is a history variable: GETs whose client left before the close handler
was registered (`SseServer.ts:345`). Nobody removes their sessions, which is
the one exception in `SessionsAreLive`. Left out: the language of a session,
and what is sent over its stream.

### Breakpoints: a registry against the set SAP holds

| In the model | In the code |
| --- | --- |
| `registry` | `registry`, by position |
| `SetBreakpoint`, `DeleteBreakpoint`, `DeleteAllBreakpoints` | `addBreakpoint`, `deleteBreakpoint`, `deleteAllBreakpoints`, up to the POST |
| `Synchronise` | SAP makes the posted set its own, except for lines it cannot stop at |
| `Answer` | `adoptServerState`, and what the tool reports |
| `Fail`, `Drop` | the POST fails or times out; SAP may still process it, or never does |
| `Restart` | a new process with an empty registry |

Calls overlap freely, with each other and with POSTs that nobody waits for any
more, and go to any of several systems. `acknowledged` is a history variable:
what was reported as set and nobody has asked to remove since. It is emptied by
a restart, for the documented limit that breakpoints of an earlier run are
invisible (`debuggerBreakpoints.ts:86-97`).

"Existing breakpoints are preserved" (`handleDebuggerSetBreakpoint.ts:22`) is
`ReportedStays`, and the code does not keep it: a POST replaces the whole set
with what its call read from the registry before it was sent
(`debuggerBreakpoints.ts:182`). What it does keep is `AcknowledgedKept`: a
reported breakpoint stays unless it is `exposed`. It comes to be exposed in two
ways only: it was reported by a call that was `crossed`, i.e. had another POST
to its system under way at some time, or the answer of another system has
replaced the one registry. A later call that names it and is not crossed takes
it out of `exposed` again. `ListedIsHeld` says in the same way when the list is
what SAP holds: on the system that answered last, with nothing under way to it,
if that call was not crossed and no POST there has failed since.

### LowLevelHandlers: what a low-level or compact tool awaits

One definition per handler of `handlers/*/low`, and per compact tool other
than create, update, delete and get. A handler is a function of what its caller
passed: a session id, the session state, a lock handle, the type. `Restored`
is the `if (session_id && session_state)` with which most begin, `Given` an
early `return_error`. What differs from one handler to the next is kept, as it
is what makes these tools hard to use: the class tools never restore a session,
`UnlockTable` restores one before it asks whether it was given an id, and the
lock tools answer with the id they were passed (`tellGiven`), the id of the
connection (`tellActual`), a fresh one (`tellFresh`) or a handle alone
(`tellHandle`).

### LowLevelTools: callers that hand on handles and sessions

| In the model | In the code |
| --- | --- |
| `conn` | the session id of the one connection of stdio mode |
| `sid`, `handle` | what the caller keeps of the answers and passes on |
| `GetSession` | `handleGetSession`: makes an id up and sends nothing |
| `Begin` | the tool is called; its program follows from the arguments |
| `Restore` | `restoreSessionInConnection`, for all callers |
| `Refuse`, `Ask`, `Create`, `Delete`, `Lock`, `Unlock` | the requests of the handlers |
| `Fail`, `Abandon` | their `catch` blocks |
| `AnswerLock`, `Answer` | the answer, and what the caller does with it |
| `LockAfterFailure` | these tools run outside critical sections: a timeout takes the session along |

The caller is assumed to behave: it passes the handle of the last lock it was
told of, and the session it was last told. It may pass the session state or not,
and may call any tool at any time. A type of object is shared by its tools:
a class, its test classes and its behaviour implementation are one object.
With HTTP transports each request has a connection of its own
(`BaseMcpServer.ts:282-334`), so that a handle taken by one low-level call is
useless in the next; the module is about the mode where they can work.

### DebugSession: who needs the stateful session

| In the model | In the code |
| --- | --- |
| `sessionType` | the type of the connection, set by `setSessionType` |
| `Listen`, `Caught`, `NotCaught`, `Attach` | `handleDebuggerListen`: POST of the listener, its answer, the attach |
| `Captured` | the listener of a client that gave up catches a program |
| `Stop`, `NoListener` | `handleDebuggerStop` and its 404 path |
| `Step`, `Inspect` | `handleDebuggerStep`; stack and variables |
| `Lock`, `Put`, `Unlock`, `Stateless`, `Verify` | `handleUpdateInclude`, `includeSource.ts` |
| `Throw` | its `finally`, with what is still to be undone |
| `Restore` | any low-level tool that was given a session |

Of SAP: one listener per user, as the identity is derived from user, system and
client; it stays registered while it holds a debuggee; what a session has
attached or locked a stateless request does not reach; the answer to any
request may be lost. `UpdateInclude` is here in other respects than in
`UpdateTools`: there its lock, contents and read-back, here its session type.
`lost` and `crossed` are history variables that say why an include may stay
locked; `released` and `last` record answers; `pinned` says that it was
`UpdateInclude` that made the connection stateful.

`NotPinned` has two parts. `SetBack`: `UpdateInclude` leaves the connection
stateful no longer than it works, however it fails and whatever overlaps.
`AnsweredStateless`: without overlap, the connection is stateless after an
`UpdateInclude`, and after a Stop that was answered for a listener that ran.
A Stop that fails is in neither part: `handleDebuggerStop.ts:78-98` leaves the
session type as it is, on an error as on a 404, though a request whose answer
was lost may have removed the listener.

### SearchSource: a pool of readers

| In the model | In the code |
| --- | --- |
| `Resolve`, `Resolved` | `resolvePackagePatterns`, a request per mask |
| `Enumerate` | `enumerateScanTargets`, a request per package |
| `Start` | the sort, `max_objects`, and `min(concurrency, targets)` pumps |
| `Elapse` | the deadline passes, at any moment |
| `Take` | the loop of a pump: deadline, index, end |
| `List`, `Scan`, `CutOff`, `Miss` | a unit arrives: in time, too late, or not at all (`safe`) |
| `Finish` | hits, or an entry in `no_hits` |
| `End` | `Promise.all` and the sort |

Only the number of matching lines of a unit is kept, and a hit says in which
unit it is by its place, of which the answer tells the name (`Before` compares
names, as the code does). `Sorted` is `Array.prototype.sort`: an entry takes the
place given by how many entries are not after it, and entries that compare equal
stay in their order. A package has finitely many objects. `unread` is a history
variable: targets of which something could not be read, which the answer does
not tell.

## 3. Runs

Run a configuration with `tlc -config <name>.cfg <module>`. The
deadlock check is off where calls, once answered, are not called again, and in
`search_source`, where the search ends: the system may then stop. `low_level`,
`debug_session` and `breakpoints` go on for ever and are checked for deadlock.

| Run | Instance | Shows |
| --- | --- | --- |
| `update_tools` | 2 calls, 1 connection, 1 system, 4 versions; call 1 any tool on either surface, call 2 one of three kinds; 430 364 states | types; no lock left behind; critical sections count; no false success; refused sources stay unwritten; only owners release; the contract; every call answers |
| `shared_context` (violation) | 2 clients, 2 systems, `UpdateServiceBinding` | a publication on the system of another client |
| `object_tools` | 2 calls, 1 connection; any create or delete tool on either surface, beside any other for the same object, which is there or not at first; 406 520 states | types; no lock left behind; the regular end of a create with activation means active; the contract; every call answers |
| `http_server` | 4 requests, 2 destinations; over HTTP one is a ping by any route, over SSE two are GETs and two POSTs; 277 792 states | types; no stale lock; sessions in the map are live; every request is answered |
| `system_context` (violation) | 2 requests, 2 destinations | a handler with the system context of another system |
| `breakpoints` | 2 calls, 3 positions (SAP refuses one), 2 systems; calls overlap; 1 226 655 states | types; reported breakpoints stay that no crossed call and no other system exposes; when the list is what SAP holds |
| `breakpoints_overlap` (violation) | the same with 1 system | a breakpoint that was reported as set is removed by the POST of a call that overlapped |
| `low_level` | 2 callers, 4 session ids, every type: caller 1 may use every tool on either surface with or without state, caller 2 locks, writes and unlocks; calls do not overlap, except for structures; 365 253 states | types; handles match locks; requests are made in the session passed; what was locked in the session passed can be released; every call answers |
| `low_level_answers` (violation) | 1 caller that passes on what it is told | a lock that no tool can release |
| `debug_session` | 2 callers, 2 includes, every tool, calls overlapping or not | types; includes released; stop releases listener and debuggee; not pinned; attached means reached; every call answers |
| `debug_session_include` (violation) | the same, calls do not overlap | `UpdateInclude` takes the attached program out of reach |
| `search_source` | 1 to 3 pumps, 2 packages, 4 objects (one a function group of 3 units), caps of 1, 2 hits and 2, 3, 9 objects, with and without a deadline; 227 814 states | types; nothing read twice; complete without a flag; first hits; exact flags; one of the two lists; the search ends |

**Bounds.** Two calls are enough for the update tools because a call depends
on others only through the lock, the context field, the count of critical
sections and the object, and one other call can change each of them at every
await of the first; the second call is chosen to be one with every wrapper,
one without, one under its caller's lock. A publication of a service binding,
which takes no lock, runs beside each of these as the first call; two of them
run beside each other in `shared_context`. Each call runs
once. Of the versions, one is unsound, one is a prefix of another, and one is
what was there before. `http_server` has three requests for one destination:
one that authenticates, and two that wait for it and then race; over SSE two
GETs share brokers and the system context and nothing else, and a POST races
with the end of its own session only. In `breakpoints` two calls are
enough for two POSTs to cross in every order, also with one that nobody waits
for, and two systems for one to replace the registry of another; the theorems
have any number of either. `breakpoints`,
`low_level` and `debug_session` have no bound on the length of a behaviour:
calls are made again, for ever.

In `low_level` two callers are enough: one disturbs the other through the
session id of the connection and the lock of the object, and a third could set
nothing that the second cannot. The second is restricted to lock, update and
unlock of four types, one for each way a lock tool names the session
(`PROGRAM` and `STRUCTURE`: the id passed; `PACKAGE`:
the connection's; `CLASS`: none). Four ids are the connection's first, one per
caller from `GetSession`, and one a tool makes up. `Cloud` is false: on a cloud
system the tools for programs refuse, and the others are the same. In `debug_session` two
includes let one be locked while another is updated. In `search_source` the
function group is the only type with more than one unit, and its units bring a
hit, none, and a hit; caps of 1 and 2 bind within a unit, between units, exactly
at the last hit, and not at all.

In `object_tools` two calls are enough for the same reason: a call depends on
another through the object, its lock and the count of critical sections, and a
second call can change all three between any two of its steps. On one
connection the handle of one call does not protect the object from the other,
which two connections would hide.

`update_tools` has one system: with two, the read-back may look at the system of
another client, and `Truthful` and `KeepsContract` need not hold. With one they
hold for all tools. That calls write only to the system their client addressed
(`WritesStayHome`) is refuted for service bindings by the run `shared_context`
and proved for everything else (`WrittenAtHome`).
`LocksInOwnSession` and `Releasable` except
classes, whose tools restore no session; `Complete` and `FirstHits` except
targets of which something could not be read.

**Fairness.** `UpdateTools`, `ObjectTools`, `HttpServer`, `SseServer`, `LowLevelTools` and
`DebugSession` assume weak fairness of every call that has begun: each awaited
request is answered or fails, at the latest by its timeout (the long poll of
`DebuggerListen` has one of its own), and the event loop then runs the
continuation. `SearchSource` assumes it of the search as a whole and of its
pumps together, not of the deadline. No call is assumed to begin,
and no client of an SSE session to stay or to leave. An OAuth login that the user never completes is assumed to
end with the token provider's timeout.

### Disagreements between code and documentation

Each violation run is described under `findings` in `PROJECT.json` with the
line it contradicts. They have three causes: values that outlive an `await`
although any client may overwrite them (`context`, the session type, the
registry of breakpoints), process-wide variables in a process with several systems (system context), and
answers that leave out what the next call needs (the session of a lock).

## 4. Proofs

TLC checks the instances above; the theorems below hold for every number of
calls, connections, systems, versions, requests, destinations and positions.
They assume the named `ASSUME`s of the modules, which say only that constants
are of the right kind and which TLC evaluates in every run.

**UpdateHandlersProofs.** `OrderlyProgram`: every program has its steps in an
order in which the invariants below can be kept: at most one lock; after it,
and before anything that needs no lock, an unlock; a write under the lock
unless the caller passed a handle. The lemmas on `Only`, `Section` and
concatenation (`UsesConcat`, `SteadySection`, ...) make it a matter of a line
per handler.

**UpdateToolsProofs.** `Invariance`: `Spec => []IInv`, with `IInv` the
conjunction of

* `TypeOK`;
* `Counted`: `critical[k]` is the number of running high-level calls whose
  client is on connection `k` (so that it is not 0 while one runs);
* `HasContext`: somebody's context is in the field once a high-level call runs;
* `Ordered`: what a call has left to do is the rest of an orderly program, and
  a handle is held exactly while an unlock is ahead;
* `OwnerKnown`: a lock whose owner is a call was taken by it and not yet given
  back, unless an unlock request failed;
* `CriticalSectionHolds`.

None of the three safety properties is inductive alone: `NoOrphanLock` needs
`Ordered` and `OwnerKnown` (a call with nothing left to do has no unlock
ahead, hence no lock), `CriticalSectionHolds` needs `Counted` (a timeout
severs only where the count is 0). `TypeCorrect`, `LocksReleased`,
`LocksSurviveTimeouts` and, as an action property, `OwnersRelease` follow.

Further invariants are proved on top of it:

* `Shielded` gives `RefusedStaysUnwritten`: while the program of a call that is
  to activate a source with errors is not at an end, a check that must pass
  still comes before every write (`GuardedProgram`, for the six tools);
* `StaysHome` gives `WrittenAtHome`, under the hypothesis `BoundEarly` (nobody
  publishes a service binding through the high-level group): only that tool
  reads the group's context before it writes, so a program without a timestamp
  in front keeps its own connection;
* `Honest` gives `AnswersTruthfully` and `ContractKept`, under the hypothesis
  `OneHome` (all connections lead to one system), without which
  `withWriteVerification` may compare with the wrong system. It says that a
  call has written only if no write is ahead, and that one whose source is
  compared has the comparison ahead, or has failed, or has said what it came
  to; `ProperProgram` shows that every program of every tool writes once and
  compares afterwards. `ContractKept` is the refinement: every step of
  `UpdateTools` is a step of `UpdateContract` or a stutter (safety only).

**ObjectToolsProofs.** `Invariance`: `Spec => []IInv`, with `IInv` the
conjunction of

* `TypeOK`;
* `Counted`: as in `UpdateTools`;
* `OwnerKnown`: a call that owns the lock still holds a handle and has an
  unlock ahead, or an unlock of its own failed;
* `InOrder`, for every call: what it has left to do is the rest of an orderly
  program, in which a lock is followed by an unlock, no error makes a call that
  holds a handle forget to unlock (`Guarded`), and the task is either done or
  ahead as long as no request has failed (`Underway`);
* `Meant`, for every call: "ok" is answered only when the task is done and,
  where that was asked for, the object was seen active; "found" only when the
  object was there.

`NoOrphanLock` alone is not inductive: a call that has nothing left to do must
be known to hold no lock, which is `OwnerKnown`, and that needs `InOrder`.
`ActivationReported` follows from `Meant`, which needs `Underway`; it is about
"ok", the regular end of a handler, and not about a success that is assumed or
an object that is found.

`ContractKept` proves the refinement: every step of `ObjectTools` is a step of
`ObjectContract` or leaves its variables alone, for any number of calls;
`Meant` is what makes "done" allowed when the call answers. It proves safety
only, as `ObjectContract` states no fairness.
`CreateComplete`, `DeleteComplete` and `ProgramComplete` establish `InOrder` for
every handler when a call begins.

**HttpServerProofs.** `NoRequestWaitsForThePast`: `TypeOK` and `NoStaleLock`.
Only the authentication registered last is looked up; the `finally` of an
earlier one must not remove it, and its own removes it in the step it settles.
For `SseServer`, `EverySessionIsLive` and `EitherTransport` extend the invariant
by who has a session at all (`OnlyGets`), that SSE registers no promise
(`NoLocks`), and that who left and is not known to have left did so early
(`LeftEarly`). One more theorem holds with either transport.
`NobodyWaitsInACircle` is the safety behind `EveryRequestAnswered`: whoever waits
has found a promise (`WaitsForPromise`), and a promise that is pending belongs to
a request at work on its authentication (`PendingIsAtWork`), which waits for no
other.

**BreakpointsProofs.** `BreakpointsKept`, `TypeCorrect` and `ListIsHeld` have no
hypothesis: any calls, positions and systems, overlapping as they may. The
invariant adds that of two POSTs under way to one system both calls are crossed
(`Crossing`); that what is posted (`Keeping`), echoed (`Echoed`) and recorded
(`Recorded`) contains what was reported and is not exposed (`Kept`); that the
echo of a call that was not crossed is what SAP holds (`Echoed`); and that on
the system that answered last the registry lags behind only while an answer is
on its way (`Adopted`). `AcknowledgedKept` alone is not inductive: a POST that
was sent long ago must be known to carry what it is about to make SAP's set.

**LowLevelToolsProofs.** `EveryProgramFits`: every handler, of any type and on
either surface, is a refusal, or one of the few bodies its operation may have,
after a restore where one is needed. From it, `IInv`: `TypeOK`, what a call
still has to do is the rest of such a program, and what its caller knows of the
lock agrees with it at every step between request and answer. A body in which
anything that can fail follows a lock would break the second. `OwnSession` needs
that a restore is the first step, and that nobody else's call comes between it
and the request as long as calls do not overlap. `LocksReleasable` needs two more
facts: whoever has the lock has a lock tool for the object that its system does
not refuse (`Lockers`, an invariant on top of `IInv`; the low-level tools for
programs are refused on cloud systems), and, tool by tool, the unlock tool that
goes with it restores the session and unlocks when it is given handle, session
and state (`UnlockServed`). Its hypothesis, `UnlockBesideLock`, is about the
caller: it may use the unlock tool that is offered beside the lock tool, and has
a state to send. TLC evaluates it for the requests of `low_level`, as an `ASSUME`
of `MCLowLevelTools`. `DisciplineIsEnough` is about what the lock tools say,
"use this lock_handle and session_id": it is true as long as calls do not overlap
and whoever locks passes a session with its state (`Disciplined`), because the
session that such a caller passes is that of its lock at every step
(`SessionKept`). The run `low_level_answers` drops the second condition and shows
what becomes of a caller that has no state because none is returned to it.

**SearchSourceProofs.** For any number of pumps, packages, objects, units and
hits, every safety property of `SearchSource`. `IInv` is the conjunction of

* `Types`: `TypeOK`, and that no list has an entry twice;
* `Listing`: before the reading, `found` is what the packages asked so far
  contain, and nothing is collected;
* `Listed`: from then on, the targets are all of `Wanted` unless `byMax`;
* `Apart`: pumps that read have targets of their own, all below `next`;
* `Stops`: a pump stops in time only if there is nothing left to take, and
  `next` runs past the targets by no more than one for each stopped pump;
* `Reading`: what a pump holds of its target are the first hits, up to the cap
  (`First`), unless something of it could not be read;
* `Answers`: a target below `next` that nobody reads is answered for, in one of
  the two lists and not in both, and none of the others is (`NotYet`);
* `InPlace`: the sorts of the end.

`EachOnce` needs `Apart` and `Answers`; `Complete` needs that in the end every
target is answered for, which is `Stops`: the last pump to stop has seen the
index past the end. `FirstHits` needs `Reading` over `Kept`, the hits of all
units of an object one after the other (`FlattenSeq`), cut at the cap.
Three things had to be proved about the operators first: that `Sorted` is a
permutation although equal entries exist (its places are ranks; the lemmas go
from `Arranged` to `SortedHits`), that a flattened sequence grows by one unit's
hits when a unit is added (`FlattenOneMore`), and induction over the naturals in
the form of a set of naturals (`NatInd`), which is derived from a theorem of the
library on finite sets, as the library's own induction theorem takes an operator.

**DebugSessionProofs.** `IncludesReleased` needs, for every call of
`UpdateInclude`, that what is left to do still unlocks as long as it holds the
lock, however it got there; `StoppedIsReleased` that a program is captured only
while a listener is registered (`HeldByListener`), so that removing the listener
removes both, also beside callers that still wait or attach. `LeftStateless`
needs `Pinning`: as long as `UpdateInclude` was the last to make the connection
stateful, some call of it has still to write, to unlock or to set it back. Its
second part and `AttachedMeansReached` need `Calm`: as long as calls do not overlap only one of
them works, and the session type follows where it is: stateful while it waits
or attaches, stateless again before the call reads back or answers.
`AttachedStaysReached` has the hypothesis `DebuggerAlone`: calls do not overlap
and nobody updates an include. Then only a Stop sets the connection stateless,
and by that step it has removed the listener and the debuggee with it
(`Within`). The run `debug_session_include` updates an include between two calls
of the debugger and loses the debuggee.

**Only model-checked:** the liveness properties (`EveryCallAnswers`,
`EveryRequestAnswered`, `SearchEnds`), which need fairness. Every invariant and
action property of a passing run is stated by a theorem; those that the code
keeps only under a condition (`OneHome`, `UnlockBesideLock`) have it as a
hypothesis of the theorem, and the instance of the run satisfies it. Of what four of the violation runs refute, a theorem says
under which condition the code keeps it (`BoundEarly` for `shared_context`,
`Disciplined`, `DebuggerAlone`) or what of it remains true (`BreakpointsKept`).
For the system context there is no such theorem: the code keeps it where all
destinations lead to one system, and there it says nothing.

## 5. Not modelled

See `PROJECT.json`, `components`, for every part and the reason. In short:

* Read-only tools and parsers are one request and a conversion; configuration,
  logging, TLS and file transfer keep no protocol state; the client libraries
  (`@mcp-abap-adt/*`) are external and appear as the outcomes of requests.
* The race of two first calls in stdio mode, and which of two brokers a request
  holds: every property here holds with either.
* The secondary systems of the comparison tools: connections that only read.

## 6. Plan

In this order:

1. `UpdateHandlers`, `UpdateTools`, `UpdateContract` and their proofs: done.
2. `HttpServer`, `Breakpoints` and their proofs: done.
3. `ObjectHandlers`, `ObjectTools`, `ObjectContract` and their proofs: done.
4. `DebugSession` and its proofs: done.
5. `LowLevelHandlers`, `LowLevelTools` and their proofs: done.
6. `SearchSource` and its proofs: done.
7. `SseServer` and its proofs: done.
8. The stores behind a broker.
9. The secondary systems and `SetupSystem`.

Theorems: every invariant and action property is stated by one; those of the
modules that are still to come are proved with them.
Bounds: two to three actors, one or two objects and systems each, no run above
a few minutes.
