----------------------------- MODULE HttpServer -----------------------------
(***************************************************************************)
(* The requests of a StreamableHttpServer, up to the handler they are      *)
(* dispatched to.                                                          *)
(*                                                                         *)
(* Every HTTP request gets a server object of its own.  What the requests  *)
(* share, and what they leave in another order at every await, is          *)
(*   - the auth brokers, one per destination, created by whoever comes     *)
(*     first (AuthBrokerFactory);                                          *)
(*   - authLocks, by destination the promise of the last authentication    *)
(*     that was started;                                                   *)
(*   - the system context, one variable of the process (systemContext.ts). *)
(* A promise stands for the request that made it.                          *)
(***************************************************************************)
EXTENDS FiniteSets

CONSTANTS
  Requests,      \* HTTP requests
  Pings,         \* those of them that are an MCP ping
  Destinations,  \* destinations a request may name
  Systems,       \* SAP systems
  SystemOf,      \* the system behind a destination
  RoutesOf,      \* what a request may name: destinations, Headers, None
  Headers,       \* its connection is in x-sap-* headers
  None,          \* no destination, no promise
  Unset,         \* nobody has asked for the system context yet
  Unknown        \* a system context without a master system

ASSUME HttpAssumption ==
  /\ Pings \subseteq Requests
  /\ SystemOf \in [Destinations -> Systems]
  /\ RoutesOf \in [Requests -> SUBSET (Destinations \cup {Headers, None})]
  /\ Headers \notin Destinations /\ None \notin Destinations \cup Requests
  /\ Headers # None /\ Unset # Unknown
  /\ Unset \notin Systems /\ Unknown \notin Systems

VARIABLES
  phase,      \* what a request waits for
  dest,       \* its destination, Headers or None
  waitsFor,   \* the promise it found in authLocks
  auth,       \* the state of the promise it made
  authLocks,  \* the promise registered for each destination
  brokers,    \* destinations that have a broker
  cached,     \* the system context of the process
  used        \* the system context the request's handler worked with

vars == <<phase, dest, waitsFor, auth, authLocks, brokers, cached, used>>

Phases == {"idle", "creating", "ready", "waiting", "config", "token", "system",
           "dispatch", "ok", "failed"}

Init ==
  /\ phase = [r \in Requests |-> "idle"]
  /\ dest = [r \in Requests |-> None]
  /\ waitsFor = [r \in Requests |-> None]
  /\ auth = [r \in Requests |-> "none"]
  /\ authLocks = [d \in Destinations |-> None]
  /\ brokers = {}
  /\ cached = Unset
  /\ used = [r \in Requests |-> Unset]

Goto(r, p) == phase' = [phase EXCEPT ![r] = p]

-----------------------------------------------------------------------------

\* Mutant of Arrive: a request without a destination is not refused.
ArriveUnrefused(r) ==
  /\ phase[r] = "idle"
  /\ \E d \in RoutesOf[r] :
       /\ dest' = [dest EXCEPT ![r] = d]
       /\ Goto(r, CASE d = Headers -> "dispatch" [] d \in brokers -> "ready"
                    [] OTHER -> "creating")
  /\ UNCHANGED <<waitsFor, auth, authLocks, brokers, cached, used>>

\* The header, then the connection headers, then the default destination
\* decide; a request with none of them is refused.
Arrive(r) ==
  /\ phase[r] = "idle"
  /\ \E d \in RoutesOf[r] :
       /\ dest' = [dest EXCEPT ![r] = d]
       /\ \/ d = Headers /\ Goto(r, "dispatch")
          \/ d = None /\ Goto(r, "failed")
          \/ d \in brokers /\ Goto(r, "ready")
          \/ d \in Destinations \ brokers /\ Goto(r, "creating")
  /\ UNCHANGED <<waitsFor, auth, authLocks, brokers, cached, used>>

\* getOrCreateAuthBroker: nothing keeps two requests from creating one each;
\* the one that is done last stays.
CreateBroker(r) ==
  /\ phase[r] = "creating"
  /\ \/ brokers' = brokers \cup {dest[r]} /\ Goto(r, "ready")
     \/ UNCHANGED brokers /\ Goto(r, "failed")
  /\ UNCHANGED <<dest, waitsFor, auth, authLocks, cached, used>>

\* setConnectionContext is called and its promise registered, over whatever is
\* registered by then.
StartAuth(r) ==
  /\ Goto(r, "config")
  /\ auth' = [auth EXCEPT ![r] = "pending"]
  /\ authLocks' = [authLocks EXCEPT ![dest[r]] = r]

Acquire(r) ==
  /\ phase[r] = "ready"
  /\ \/ /\ r \in Pings /\ Goto(r, "dispatch")
        /\ UNCHANGED <<dest, waitsFor, auth, authLocks>>
     \/ /\ r \notin Pings /\ authLocks[dest[r]] = None
        /\ StartAuth(r) /\ UNCHANGED waitsFor
     \/ /\ r \notin Pings /\ authLocks[dest[r]] # None
        /\ waitsFor' = [waitsFor EXCEPT ![r] = authLocks[dest[r]]]
        /\ Goto(r, "waiting") /\ UNCHANGED <<auth, authLocks>>
  /\ UNCHANGED <<dest, brokers, cached, used>>

\* Mutant of Resume: the rejection of the promise is swallowed.
ResumeResolved(r) ==
  /\ phase[r] = "waiting"
  /\ auth[waitsFor[r]] = "resolved" /\ StartAuth(r)
  /\ UNCHANGED <<dest, waitsFor, brokers, cached, used>>

\* The promise it waited for is settled: it does not look at authLocks again.
Resume(r) ==
  /\ phase[r] = "waiting"
  /\ \/ auth[waitsFor[r]] = "resolved" /\ StartAuth(r)
     \/ /\ auth[waitsFor[r]] = "rejected"
        /\ Goto(r, "failed") /\ UNCHANGED <<auth, authLocks>>
  /\ UNCHANGED <<dest, waitsFor, brokers, cached, used>>

\* Mutant of Settle: the promise stays registered.
SettleRegistered(r, outcome) ==
  /\ auth' = [auth EXCEPT ![r] = outcome]
  /\ UNCHANGED authLocks
  /\ Goto(r, IF outcome = "resolved" THEN "dispatch" ELSE "failed")

\* The promise is taken out of authLocks by its own finally, and by no other.
Settle(r, outcome) ==
  /\ auth' = [auth EXCEPT ![r] = outcome]
  /\ authLocks' = [d \in Destinations |->
                     IF d = dest[r] /\ authLocks[d] = r THEN None
                     ELSE authLocks[d]]
  /\ Goto(r, IF outcome = "resolved" THEN "dispatch" ELSE "failed")

\* authBroker.getConnectionConfig
ReadConfig(r) ==
  /\ phase[r] = "config"
  /\ \/ Goto(r, "token") /\ UNCHANGED <<auth, authLocks>>
     \/ Settle(r, "rejected")
  /\ UNCHANGED <<dest, waitsFor, brokers, cached, used>>

\* authBroker.getToken: an error is one only if there is no older token.
\* resolveSystemContext asks the system only if nobody has before.
GetToken(r) ==
  /\ phase[r] = "token"
  /\ \/ cached = Unset /\ Goto(r, "system") /\ UNCHANGED <<auth, authLocks>>
     \/ cached # Unset /\ Settle(r, "resolved")
     \/ Settle(r, "rejected")
  /\ UNCHANGED <<dest, waitsFor, brokers, cached, used>>

\* getSystemInformation: what is not answered is kept as unknown; if not even a
\* connection can be made, nothing is kept, and the request goes on without.
ResolveSystem(r) ==
  /\ phase[r] = "system"
  /\ cached' \in {SystemOf[dest[r]], Unknown, cached}
  /\ Settle(r, "resolved")
  /\ UNCHANGED <<dest, waitsFor, brokers, used>>

\* The transport hands the body to the handler, which makes its client from the
\* system context of the process; or it fails.
Dispatch(r) ==
  /\ phase[r] = "dispatch"
  /\ \/ r \notin Pings /\ used' = [used EXCEPT ![r] = cached] /\ Goto(r, "ok")
     \/ r \in Pings /\ UNCHANGED used /\ Goto(r, "ok")
     \/ UNCHANGED used /\ Goto(r, "failed")
  /\ UNCHANGED <<dest, waitsFor, auth, authLocks, brokers, cached>>

-----------------------------------------------------------------------------

Continue(r) ==
  \/ CreateBroker(r) \/ Acquire(r) \/ Resume(r) \/ ReadConfig(r) \/ GetToken(r)
  \/ ResolveSystem(r) \/ Dispatch(r)

Next == \E r \in Requests : Arrive(r) \/ Continue(r)

\* Every await of a request that has arrived comes to an end.
Fairness == \A r \in Requests : WF_vars(Continue(r))

Spec == Init /\ [][Next]_vars /\ Fairness

-----------------------------------------------------------------------------
(* Properties.                                                             *)

\* Every variable has its type.
TypeOK ==
  /\ phase \in [Requests -> Phases]
  /\ dest \in [Requests -> Destinations \cup {Headers, None}]
  /\ waitsFor \in [Requests -> Requests \cup {None}]
  /\ auth \in [Requests -> {"none", "pending", "resolved", "rejected"}]
  /\ authLocks \in [Destinations -> Requests \cup {None}]
  /\ brokers \subseteq Destinations
  /\ cached \in Systems \cup {Unset, Unknown}
  /\ used \in [Requests -> Systems \cup {Unset, Unknown}]

\* An authentication that has ended fails no request that comes later: what
\* authLocks holds for a destination is an authentication of that destination
\* still under way, whatever the order in which overlapping ones end.
NoStaleLock ==
  \A d \in Destinations :
    authLocks[d] # None => auth[authLocks[d]] = "pending" /\ dest[authLocks[d]] = d

\* A request that has arrived is answered: nobody waits for a promise that is
\* never settled, or for each other.
EveryRequestAnswered ==
  \A r \in Requests : phase[r] # "idle" ~> phase[r] \in {"ok", "failed"}

\* A handler works with the system context of the system it is connected to.
OwnSystemContext ==
  \A r \in Requests :
    dest[r] \in Destinations => used[r] \in {SystemOf[dest[r]], Unset, Unknown}

=============================================================================
