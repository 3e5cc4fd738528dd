--------------------------- MODULE HttpServerProofs ---------------------------
(***************************************************************************)
(* Theorems about HttpServer, for every set of requests and destinations,   *)
(* and about SseServer: the same promises whichever of the two transports   *)
(* the process has, and the sessions of the SSE server.                    *)
(***************************************************************************)
EXTENDS SseServer, TLAPS

\* A request that has not arrived authenticates nothing, and one that needs a
\* broker has a destination.
Routed ==
  \A r \in Requests :
    /\ phase[r] = "idle" => auth[r] = "none"
    /\ phase[r] \in {"creating", "ready", "waiting", "config", "token", "system"}
         => dest[r] \in Destinations

IInv == TypeOK /\ Routed /\ NoStaleLock

\* Starting an authentication keeps the invariant.
LEMMA StartAuthInvariant ==
  ASSUME IInv, NEW r \in Requests, phase[r] \in {"ready", "waiting"}, StartAuth(r),
         waitsFor' \in [Requests -> Requests \cup {None}],
         UNCHANGED <<dest, brokers, cached, used>>
  PROVE  IInv'
<1>1. TypeOK' /\ Routed'
  BY DEF IInv, TypeOK, Routed, StartAuth, Goto, Phases
<1>2. NoStaleLock'
  BY HttpAssumption DEF IInv, TypeOK, Routed, NoStaleLock, StartAuth
<1> QED BY <1>1, <1>2 DEF IInv

\* So does the end of one, which takes its own promise out and no other.
LEMMA SettleInvariant ==
  ASSUME IInv, NEW r \in Requests, phase[r] \in {"config", "token", "system"},
         NEW outcome \in {"resolved", "rejected"}, Settle(r, outcome),
         cached' \in Systems \cup {Unset, Unknown},
         UNCHANGED <<dest, waitsFor, brokers, used>>
  PROVE  IInv'
<1>1. TypeOK' /\ Routed'
  BY DEF IInv, TypeOK, Routed, Settle, Goto, Phases
<1>2. NoStaleLock'
  BY HttpAssumption DEF IInv, TypeOK, NoStaleLock, Settle
<1> QED BY <1>1, <1>2 DEF IInv

\* And so does a step that touches no authentication.
LEMMA OtherInvariant ==
  ASSUME IInv, NEW r \in Requests,
         NEW p \in Phases \ {"idle"}, Goto(r, p),
         p \in {"ready", "waiting", "token", "system"} => dest'[r] \in Destinations,
         p \notin {"creating", "config"},
         waitsFor' \in [Requests -> Requests \cup {None}],
         brokers' \subseteq Destinations,
         used' \in [Requests -> Systems \cup {Unset, Unknown}],
         UNCHANGED <<dest, auth, authLocks, cached>>
  PROVE  IInv'
<1>1. TypeOK'
  BY DEF IInv, TypeOK, Goto, Phases
<1>2. Routed' /\ NoStaleLock'
  BY DEF IInv, TypeOK, Routed, NoStaleLock, Goto, Phases
<1> QED BY <1>1, <1>2 DEF IInv

\* A request that arrives has made no promise yet.
LEMMA ArriveInvariant ==
  ASSUME IInv, NEW r \in Requests, Arrive(r)
  PROVE  IInv'
<1>1. PICK d \in RoutesOf[r], p \in {"dispatch", "failed", "ready", "creating"} :
        /\ dest' = [dest EXCEPT ![r] = d] /\ Goto(r, p)
        /\ p \in {"ready", "creating"} => d \in Destinations
  BY DEF Arrive, IInv, TypeOK
<1>2. /\ phase[r] = "idle" /\ d \in Destinations \cup {Headers, None}
      /\ UNCHANGED <<waitsFor, auth, authLocks, brokers, cached, used>>
  BY HttpAssumption DEF Arrive
<1>3. TypeOK' /\ Routed'
  BY <1>1, <1>2 DEF IInv, TypeOK, Routed, Goto, Phases
<1>4. NoStaleLock'
  BY <1>1, <1>2 DEF IInv, TypeOK, Routed, NoStaleLock
<1> QED BY <1>3, <1>4 DEF IInv

\* Every step keeps the invariant.
LEMMA StepInvariant ==
  ASSUME IInv, [Next]_vars
  PROVE  IInv'
<1>1. CASE UNCHANGED vars
  BY <1>1 DEF IInv, TypeOK, Routed, NoStaleLock, vars
<1> SUFFICES ASSUME NEW r \in Requests, Arrive(r) \/ Continue(r)
             PROVE  IInv'
  BY <1>1 DEF Next
<1> USE DEF Phases
<1>2. /\ waitsFor \in [Requests -> Requests \cup {None}]
      /\ brokers \subseteq Destinations
      /\ cached \in Systems \cup {Unset, Unknown}
      /\ used \in [Requests -> Systems \cup {Unset, Unknown}]
      /\ phase[r] \in {"creating", "ready", "waiting", "config", "token", "system"}
           => dest[r] \in Destinations
  BY DEF IInv, TypeOK, Routed
<1>3. CASE Arrive(r)
  BY <1>3, ArriveInvariant
<1>4. CASE CreateBroker(r)
  BY <1>2, <1>4, OtherInvariant DEF CreateBroker
<1>5. CASE Acquire(r)
  <2>1. CASE r \in Pings
    BY <1>2, <1>5, <2>1, OtherInvariant DEF Acquire
  <2>2. CASE r \notin Pings /\ authLocks[dest[r]] = None
    BY <1>2, <1>5, <2>2, StartAuthInvariant DEF Acquire
  <2>3. CASE r \notin Pings /\ authLocks[dest[r]] # None
    <3>1. authLocks[dest[r]] \in Requests
      BY <1>2, <1>5, <2>3 DEF Acquire, IInv, TypeOK
    <3>2. waitsFor' \in [Requests -> Requests \cup {None}]
      BY <1>2, <1>5, <2>3, <3>1 DEF Acquire
    <3> QED BY <1>2, <1>5, <2>3, <3>2, OtherInvariant DEF Acquire
  <2> QED BY <2>1, <2>2, <2>3
<1>6. CASE Resume(r)
  BY <1>2, <1>6, StartAuthInvariant, OtherInvariant DEF Resume
<1>7. CASE ReadConfig(r)
  BY <1>2, <1>7, SettleInvariant, OtherInvariant DEF ReadConfig
<1>8. CASE GetToken(r)
  BY <1>2, <1>8, SettleInvariant, OtherInvariant DEF GetToken
<1>9. CASE ResolveSystem(r)
  <2>1. cached' \in Systems \cup {Unset, Unknown}
    BY <1>2, <1>9, HttpAssumption DEF ResolveSystem
  <2> QED BY <1>9, <2>1, SettleInvariant DEF ResolveSystem
<1>10. CASE Dispatch(r)
  <2>1. used' \in [Requests -> Systems \cup {Unset, Unknown}]
    BY <1>2, <1>10 DEF Dispatch, IInv, TypeOK
  <2> QED BY <1>2, <1>10, <2>1, OtherInvariant DEF Dispatch
<1> QED BY <1>3, <1>4, <1>5, <1>6, <1>7, <1>8, <1>9, <1>10 DEF Continue

\* Whatever the order in which requests arrive and authentications end, no
\* request waits for an authentication that is over, or for another destination.
THEOREM NoRequestWaitsForThePast == Spec => [](TypeOK /\ NoStaleLock)
<1>1. Init => IInv
  BY HttpAssumption DEF Init, IInv, TypeOK, Routed, NoStaleLock, Phases
<1>2. IInv /\ [Next]_vars => IInv'
  BY StepInvariant
<1>3. IInv => TypeOK /\ NoStaleLock
  BY DEF IInv
<1> QED BY <1>1, <1>2, <1>3, PTL DEF Spec

\* Whatever arrives, fails or waits, the variables keep their types: no promise
\* is registered for a request without a destination.
THEOREM TypeCorrect == Spec => []TypeOK
BY NoRequestWaitsForThePast, PTL

-----------------------------------------------------------------------------
(* The SSE server.                                                         *)

SessionTypes ==
  /\ sessions \subseteq Requests /\ gone \subseteq Requests
  /\ early \subseteq Requests
  /\ session \in [Requests -> {"none", "connecting", "open", "closed"}]

\* Only a GET has a session, and where the transport is not SSE nobody has.
OnlyGets ==
  /\ \A r \in Requests : session[r] # "none" => r \in Gets /\ transport = "sse"
  /\ sessions \subseteq Gets

\* Where the transport is SSE, no promise is registered.
NoLocks == transport = "sse" => \A d \in Destinations : authLocks[d] = None

\* Who has left and is not known to have left did so early.
LeftEarly ==
  \A r \in Requests : r \in gone /\ session[r] # "closed" => r \in early

SInv ==
  IInv /\ SessionTypes /\ OnlyGets /\ NoLocks /\ LeftEarly /\ SessionsAreLive

\* A step that leaves the sessions alone keeps them if the request it is of has
\* none that is connecting or open.
LEMMA SessionsUntouched ==
  ASSUME SInv, IInv', UNCHANGED <<sse, transport>>,
         NEW r \in Requests, session[r] \notin {"connecting", "open"},
         NEW p \in Phases, Goto(r, p),
         transport = "sse" => authLocks' = authLocks
  PROVE  SInv'
<1>1. SessionTypes' /\ OnlyGets' /\ NoLocks' /\ LeftEarly'
  BY DEF SInv, SessionTypes, OnlyGets, NoLocks, LeftEarly, sse
<1>2. SessionsAreLive'
  BY DEF SInv, IInv, TypeOK, SessionsAreLive, Goto, sse
<1> QED BY <1>1, <1>2 DEF SInv

\* A request whose authentication is under way has no session yet.
LEMMA NotYet ==
  ASSUME SInv, NEW r \in Requests, phase[r] \notin {"dispatch", "ok"}
  PROVE  session[r] \notin {"connecting", "open"}
BY DEF SInv, SessionsAreLive

\* Without promises, the end of an authentication changes no lock.
LEMMA SettleWithoutLocks ==
  ASSUME SInv, transport = "sse", NEW r \in Requests, NEW outcome,
         Settle(r, outcome)
  PROVE  authLocks' = authLocks
BY HttpAssumption DEF SInv, IInv, TypeOK, NoLocks, Settle

\* Every step of a request of HttpServer keeps what is said of the sessions.
LEMMA HttpStep ==
  ASSUME SInv, transport = "http", Next, UNCHANGED <<transport, sse>>
  PROVE  SInv'
<1>1. IInv'
  BY StepInvariant DEF SInv
<1>2. SessionTypes' /\ OnlyGets' /\ NoLocks' /\ LeftEarly'
  BY DEF SInv, SessionTypes, OnlyGets, NoLocks, LeftEarly, sse
<1>3. SessionsAreLive'
  BY DEF SInv, SessionTypes, OnlyGets, SessionsAreLive, sse
<1> QED BY <1>1, <1>2, <1>3 DEF SInv

\* So do the steps of a GET up to its session.
LEMMA AuthenticateStep ==
  ASSUME SInv, transport = "sse", UNCHANGED <<transport, sse>>,
         NEW r \in Requests,
         \/ Arrive(r) \/ CreateBroker(r)
         \/ ReadConfig(r) \/ GetToken(r) \/ ResolveSystem(r)
  PROVE  SInv'
<1>1. IInv'
  BY StepInvariant DEF SInv, Next, Continue
<1>2. phase[r] \notin {"dispatch", "ok"}
  BY DEF Arrive, CreateBroker, ReadConfig, GetToken, ResolveSystem
<1>3. session[r] \notin {"connecting", "open"}
  BY <1>2, NotYet
<1>4. authLocks' = authLocks
  BY SettleWithoutLocks
  DEF Arrive, CreateBroker, ReadConfig, GetToken, ResolveSystem
<1>5. \E p \in Phases : Goto(r, p)
  BY DEF Arrive, CreateBroker, ReadConfig, GetToken, ResolveSystem,
     Settle, Phases
<1> QED BY <1>1, <1>3, <1>4, <1>5, SessionsUntouched

\* A session without a connection.
LEMMA NoBrokerStep ==
  ASSUME SInv, transport = "sse", transport' = transport, NEW r \in Requests,
         NoBroker(r)
  PROVE  SInv'
<1>1. TypeOK' /\ Routed'
  BY DEF SInv, IInv, TypeOK, Routed, NoBroker, Goto, Phases
<1>2. NoStaleLock'
  BY DEF SInv, NoLocks, NoStaleLock, NoBroker
<1> QED
  BY <1>1, <1>2, NotYet, SessionsUntouched
  DEF IInv, NoBroker, Phases, sse

\* An authentication that nobody else waits for.
LEMMA StartSessionStep ==
  ASSUME SInv, transport = "sse", transport' = transport, NEW r \in Requests,
         StartSession(r)
  PROVE  SInv'
<1>1. TypeOK' /\ Routed'
  BY DEF SInv, IInv, TypeOK, Routed, StartSession, Goto, Phases
<1>2. NoStaleLock'
  BY DEF SInv, NoLocks, NoStaleLock, StartSession
<1> QED
  BY <1>1, <1>2, NotYet, SessionsUntouched
  DEF IInv, StartSession, Phases, sse

\* A session is stored before it is connected.
LEMMA StoreStep ==
  ASSUME SInv, transport = "sse", transport' = transport, NEW r \in Requests,
         Store(r)
  PROVE  SInv'
<1>1. IInv'
  BY StepInvariant DEF SInv, Store
<1>2. SessionTypes' /\ OnlyGets' /\ NoLocks' /\ LeftEarly'
  BY DEF SInv, SessionTypes, OnlyGets, NoLocks, LeftEarly, Store, vars
<1>3. SessionsAreLive'
  BY DEF SInv, SessionTypes, LeftEarly, SessionsAreLive, Store, vars
<1> QED BY <1>1, <1>2, <1>3 DEF SInv

\* What is not connected is taken out of the map.
LEMMA ConnectStep ==
  ASSUME SInv, transport = "sse", transport' = transport, NEW r \in Requests,
         Connect(r)
  PROVE  SInv'
<1>1. /\ phase[r] = "dispatch" /\ r \in sessions
      /\ UNCHANGED unchangedByConnect
  BY DEF SInv, SessionsAreLive, Connect
<1>2. PICK p \in {"ok", "failed"} : Goto(r, p)
  BY DEF Connect
<1>3. TypeOK' /\ Routed' /\ NoStaleLock'
  BY <1>1, <1>2
  DEF SInv, IInv, TypeOK, Routed, NoStaleLock, Goto, Phases, unchangedByConnect
<1>4. SessionTypes' /\ OnlyGets' /\ NoLocks' /\ LeftEarly'
  BY DEF SInv, SessionTypes, OnlyGets, NoLocks, LeftEarly, Connect,
         unchangedByConnect
<1>5. SessionsAreLive'
  BY <1>1 DEF SInv, IInv, TypeOK, SessionTypes, SessionsAreLive, Connect, Goto,
              Phases, unchangedByConnect
<1> QED BY <1>3, <1>4, <1>5 DEF SInv, IInv

\* A client that leaves closes its session, if the handler of that is there.
LEMMA LeaveStep ==
  ASSUME SInv, transport = "sse", transport' = transport, NEW r \in Requests,
         Leave(r)
  PROVE  SInv'
<1>1. IInv'
  BY StepInvariant DEF SInv, Leave
<1>2. SessionTypes' /\ OnlyGets' /\ NoLocks' /\ LeftEarly'
  BY DEF SInv, SessionTypes, OnlyGets, NoLocks, LeftEarly, Leave, vars
<1>3. SessionsAreLive'
  BY DEF SInv, SessionTypes, SessionsAreLive, Leave, vars
<1> QED BY <1>1, <1>2, <1>3 DEF SInv

\* A POST has no session of its own and works in that of a GET.
LEMMA PostStep ==
  ASSUME SInv, transport = "sse", transport' = transport, NEW r \in Requests,
         Post(r)
  PROVE  SInv'
<1>1. PICK p \in {"dispatch", "failed"} : Goto(r, p)
  BY DEF Post
<1>2. /\ session[r] \notin {"connecting", "open"}
      /\ phase[r] = "idle" /\ auth[r] = "none"
      /\ dest' \in [Requests -> Destinations \cup {Headers, None}]
      /\ \A q \in Requests : q # r => dest'[q] = dest[q]
      /\ UNCHANGED <<waitsFor, auth, authLocks, brokers, cached, used, session,
                    sessions, gone, early>>
  <2>1. dest' \in [Requests -> Destinations \cup {Headers, None}]
    BY ServersAssumption DEF Post, SInv, IInv, TypeOK
  <2>2. \A q \in Requests : q # r => dest'[q] = dest[q]
    BY DEF Post, SInv, IInv, TypeOK
  <2> QED BY <2>1, <2>2 DEF Post, SInv, IInv, TypeOK, Routed, OnlyGets
<1>3. TypeOK' /\ Routed' /\ NoStaleLock'
  <2>1. TypeOK' /\ Routed'
    BY <1>1, <1>2 DEF SInv, IInv, TypeOK, Routed, Goto, Phases
  <2>2. NoStaleLock'
    BY <1>2 DEF SInv, NoLocks, NoStaleLock
  <2> QED BY <2>1, <2>2
<1>4. SessionTypes' /\ OnlyGets' /\ NoLocks' /\ LeftEarly'
  BY <1>2 DEF SInv, SessionTypes, OnlyGets, NoLocks, LeftEarly
<1>5. SessionsAreLive'
  BY <1>1, <1>2 DEF SInv, IInv, TypeOK, SessionsAreLive, Goto
<1> QED BY <1>3, <1>4, <1>5 DEF SInv, IInv

\* And the handling of its message touches no session.
LEMMA HandleStep ==
  ASSUME SInv, transport = "sse", transport' = transport, NEW r \in Requests,
         Handle(r)
  PROVE  SInv'
<1>1. IInv'
  BY StepInvariant DEF SInv, Handle, Next, Continue
<1>2. session[r] \notin {"connecting", "open"} /\ authLocks' = authLocks
  BY DEF SInv, OnlyGets, Handle, Dispatch
<1>3. \E p \in Phases : Goto(r, p)
  BY DEF Handle, Dispatch, Phases
<1> QED BY <1>1, <1>2, <1>3, SessionsUntouched DEF Handle

\* Every step of either transport keeps the invariant.
LEMMA ServersStepInvariant ==
  ASSUME SInv, [ServersNext]_serversVars
  PROVE  SInv'
<1>1. CASE UNCHANGED serversVars
  <2>1. IInv'
    BY <1>1, StepInvariant DEF SInv, serversVars
  <2> QED BY <1>1, <2>1 DEF SInv, SessionTypes, OnlyGets, NoLocks, LeftEarly,
             SessionsAreLive, serversVars, vars, sse
<1>2. CASE transport = "http" /\ Next /\ UNCHANGED <<transport, sse>>
  BY <1>2, HttpStep
<1>3. ASSUME transport = "sse", transport' = transport,
             NEW r \in Requests, SseStep(r)
      PROVE  SInv'
  <2>1. CASE (Arrive(r) \/ CreateBroker(r)) /\ UNCHANGED sse
    BY <1>3, <2>1, AuthenticateStep
  <2>2. CASE Authenticate(r)
    BY <1>3, <2>2, AuthenticateStep DEF Authenticate
  <2>3. CASE NoBroker(r) \/ StartSession(r)
    BY <1>3, <2>3, NoBrokerStep, StartSessionStep
  <2>4. CASE Store(r) \/ Connect(r) \/ Leave(r)
    BY <1>3, <2>4, StoreStep, ConnectStep, LeaveStep
  <2>5. CASE Post(r) \/ Handle(r)
    BY <1>3, <2>5, PostStep, HandleStep
  <2> QED BY <1>3, <2>1, <2>2, <2>3, <2>4, <2>5 DEF SseStep, SseContinue
<1> QED BY <1>1, <1>2, <1>3 DEF ServersNext

\* The invariant of the two transports.
LEMMA ServersInvariant == ServersSpec => []SInv
<1>1. ServersInit => SInv
  BY HttpAssumption
  DEF ServersInit, SInv, SessionTypes, OnlyGets, NoLocks, LeftEarly,
      SessionsAreLive, Init, IInv, TypeOK, Routed, NoStaleLock, Phases
<1>2. SInv /\ [ServersNext]_serversVars => SInv'
  BY ServersStepInvariant
<1> QED BY <1>1, <1>2, PTL DEF ServersSpec

\* Whatever the clients do, and whatever fails: every session whose client is
\* there is in the map, and what is in the map is a session whose client is
\* there, or one whose client left before anybody listened for that.
THEOREM EverySessionIsLive == ServersSpec => []SessionsAreLive
<1>1. SInv => SessionsAreLive
  BY DEF SInv
<1> QED BY <1>1, ServersInvariant, PTL

\* The promises of HttpServer hold with either transport: the types, and that
\* no request waits for an authentication that is over.
THEOREM EitherTransport == ServersSpec => [](TypeOK /\ NoStaleLock)
<1>1. SInv => TypeOK /\ NoStaleLock
  BY DEF SInv, IInv
<1> QED BY <1>1, ServersInvariant, PTL

-----------------------------------------------------------------------------
(* Waiting.                                                                *)

\* An authentication under way is that of a request at work on it.
PendingIsAtWork ==
  \A r \in Requests :
    auth[r] = "pending" => phase[r] \in {"config", "token", "system"}

\* Whoever waits, waits for a request that has started to authenticate, and
\* while that is pending the other one waits for nobody: no request waits for
\* itself, nor does a chain of requests wait for each other.
NoCircularWait ==
  \A r \in Requests :
    phase[r] = "waiting" =>
      /\ waitsFor[r] \in Requests /\ auth[waitsFor[r]] # "none"
      /\ auth[waitsFor[r]] = "pending" =>
           phase[waitsFor[r]] \in {"config", "token", "system"}

\* Who waits has found a promise.
WaitsForPromise ==
  \A r \in Requests :
    phase[r] = "waiting" => waitsFor[r] \in Requests /\ auth[waitsFor[r]] # "none"

\* A step of HttpServer keeps both.
LEMMA WaitingStep ==
  ASSUME IInv, PendingIsAtWork, WaitsForPromise,
         NEW r \in Requests, Arrive(r) \/ Continue(r)
  PROVE  PendingIsAtWork' /\ WaitsForPromise'
<1> USE DEF Phases
<1>1. CASE Arrive(r)
  <2>1. PICK p \in {"dispatch", "failed", "ready", "creating"} : Goto(r, p)
    BY <1>1 DEF Arrive
  <2>2. auth' = auth /\ waitsFor' = waitsFor /\ auth[r] = "none"
    BY <1>1 DEF Arrive, IInv, Routed
  <2> QED BY <2>1, <2>2 DEF IInv, TypeOK, PendingIsAtWork, WaitsForPromise, Goto
<1>2. CASE CreateBroker(r) \/ Dispatch(r)
  <2>1. PICK p \in {"ready", "ok", "failed"} : Goto(r, p)
    BY <1>2 DEF CreateBroker, Dispatch
  <2>2. /\ auth' = auth /\ waitsFor' = waitsFor
        /\ phase[r] \notin {"config", "token", "system"}
    BY <1>2 DEF CreateBroker, Dispatch
  <2> QED BY <2>1, <2>2 DEF IInv, TypeOK, PendingIsAtWork, WaitsForPromise, Goto
<1>3. ASSUME Goto(r, "config"), auth' = [auth EXCEPT ![r] = "pending"],
             waitsFor' = waitsFor
      PROVE  PendingIsAtWork' /\ WaitsForPromise'
  BY <1>3 DEF IInv, TypeOK, PendingIsAtWork, WaitsForPromise, Goto
<1>4. ASSUME NEW p \in {"dispatch", "failed"}, Goto(r, p), waitsFor' = waitsFor,
             NEW outcome \in {"resolved", "rejected"},
             auth' = [auth EXCEPT ![r] = outcome]
      PROVE  PendingIsAtWork' /\ WaitsForPromise'
  BY <1>4 DEF IInv, TypeOK, PendingIsAtWork, WaitsForPromise, Goto
<1>5. ASSUME NEW p \in {"token", "system"}, Goto(r, p), waitsFor' = waitsFor,
             auth' = auth
      PROVE  PendingIsAtWork' /\ WaitsForPromise'
  BY <1>5 DEF IInv, TypeOK, PendingIsAtWork, WaitsForPromise, Goto
<1>6. CASE Acquire(r)
  <2>1. CASE r \in Pings
    BY <1>6, <2>1
    DEF Acquire, IInv, TypeOK, PendingIsAtWork, WaitsForPromise, Goto
  <2>2. CASE r \notin Pings /\ authLocks[dest[r]] = None
    BY <1>3, <1>6, <2>2 DEF Acquire, StartAuth
  <2>3. CASE r \notin Pings /\ authLocks[dest[r]] # None
    <3>1. /\ authLocks[dest[r]] \in Requests
          /\ auth[authLocks[dest[r]]] = "pending"
      BY <1>6, <2>3 DEF Acquire, IInv, TypeOK, Routed, NoStaleLock
    <3>2. /\ waitsFor' = [waitsFor EXCEPT ![r] = authLocks[dest[r]]]
          /\ Goto(r, "waiting") /\ auth' = auth /\ phase[r] = "ready"
      BY <1>6, <2>3 DEF Acquire
    <3> QED
      BY <3>1, <3>2 DEF IInv, TypeOK, PendingIsAtWork, WaitsForPromise, Goto
  <2> QED BY <2>1, <2>2, <2>3
<1>7. CASE Resume(r)
  <2>1. CASE StartAuth(r)
    BY <1>3, <1>7, <2>1 DEF Resume, StartAuth
  <2>2. CASE Goto(r, "failed") /\ auth' = auth
    BY <1>7, <2>2
    DEF Resume, IInv, TypeOK, PendingIsAtWork, WaitsForPromise, Goto
  <2> QED BY <1>7, <2>1, <2>2 DEF Resume
<1>8. CASE ReadConfig(r) \/ GetToken(r) \/ ResolveSystem(r)
  BY <1>4, <1>5, <1>8 DEF ReadConfig, GetToken, ResolveSystem, Settle
<1> QED BY <1>1, <1>2, <1>6, <1>7, <1>8 DEF Continue

\* So does a step of the SSE server, where nobody waits.
LEMMA WaitingSseStep ==
  ASSUME SInv, PendingIsAtWork, WaitsForPromise, transport = "sse",
         NEW r \in Requests, SseStep(r)
  PROVE  PendingIsAtWork' /\ WaitsForPromise'
<1> USE DEF Phases
<1>1. CASE Arrive(r) \/ CreateBroker(r) \/ Authenticate(r) \/ Handle(r)
  BY <1>1, WaitingStep DEF SInv, Continue, Authenticate, Handle
<1>2. CASE StartSession(r)
  BY <1>2 DEF SInv, IInv, TypeOK, PendingIsAtWork, WaitsForPromise, StartSession,
              Goto
<1>3. CASE Store(r) \/ Leave(r)
  BY <1>3 DEF PendingIsAtWork, WaitsForPromise, Store, Leave, vars
<1>4. CASE NoBroker(r) \/ Connect(r) \/ Post(r)
  <2>1. PICK p \in {"dispatch", "ok", "failed"} : Goto(r, p)
    BY <1>4 DEF NoBroker, Connect, Post
  <2>2. phase[r] \in {"creating", "dispatch", "idle"}
    BY <1>4 DEF SInv, SessionsAreLive, NoBroker, Connect, Post
  <2>3. auth' = auth /\ waitsFor' = waitsFor
    BY <1>4 DEF NoBroker, Connect, Post, unchangedByConnect
  <2> QED
    BY <2>1, <2>2, <2>3
    DEF SInv, IInv, TypeOK, PendingIsAtWork, WaitsForPromise, Goto
<1> QED BY <1>1, <1>2, <1>3, <1>4 DEF SseStep, SseContinue

\* With either transport no request waits for itself or for one that waits, and
\* none for an authentication that nobody works on: the promise a request found
\* in authLocks is settled by one that needs nothing from any other request.
THEOREM NobodyWaitsInACircle == ServersSpec => []NoCircularWait
<1>1. ServersInit => PendingIsAtWork /\ WaitsForPromise
  BY DEF ServersInit, Init, PendingIsAtWork, WaitsForPromise
<1>2. /\ SInv /\ PendingIsAtWork /\ WaitsForPromise /\ [ServersNext]_serversVars
      => (PendingIsAtWork /\ WaitsForPromise)'
  <2> SUFFICES ASSUME SInv, PendingIsAtWork, WaitsForPromise,
                      [ServersNext]_serversVars
               PROVE  PendingIsAtWork' /\ WaitsForPromise'
    OBVIOUS
  <2>1. IInv
    BY DEF SInv
  <2>2. CASE UNCHANGED serversVars
    BY <2>2 DEF PendingIsAtWork, WaitsForPromise, serversVars, vars
  <2>3. CASE Next
    BY <2>1, <2>3, WaitingStep DEF Next
  <2>4. CASE transport = "sse" /\ \E r \in Requests : SseStep(r)
    BY <2>4, WaitingSseStep
  <2> QED BY <2>2, <2>3, <2>4 DEF ServersNext
<1>3. PendingIsAtWork /\ WaitsForPromise => NoCircularWait
  BY DEF PendingIsAtWork, WaitsForPromise, NoCircularWait
<1> QED BY <1>1, <1>2, <1>3, ServersInvariant, PTL DEF ServersSpec

=============================================================================
