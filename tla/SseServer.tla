------------------------------ MODULE SseServer ------------------------------
(***************************************************************************)
(* The SSE server, and the choice between the two HTTP transports.  A GET  *)
(* authenticates as in HttpServer, but with no lock, and opens a session,  *)
(* which stands in a map until its response is closed; a POST names a      *)
(* session and is handled by the server object of that session.            *)
(*                                                                         *)
(* The handler of the "close" event is registered last.  The event comes   *)
(* once: who leaves before that leaves its session in the map.             *)
(***************************************************************************)
EXTENDS HttpServer

CONSTANTS
  Transports,  \* those the process may be started with
  Gets         \* requests that are a GET, over SSE; the others are a POST

ASSUME ServersAssumption ==
  Transports \subseteq {"http", "sse"} /\ Gets \subseteq Requests

VARIABLES
  transport,  \* of the process; never changes
  session,    \* the session of each GET
  sessions,   \* the map, by the GET that made the session
  on,         \* the session that a POST names
  gone,       \* GETs whose client has closed the response
  early       \* history: those that did before a close handler was there

sse == <<session, sessions, on, gone, early>>
serversVars == <<vars, transport, sse>>

ServersInit ==
  /\ Init
  /\ transport \in Transports
  /\ session = [r \in Requests |-> "none"]
  /\ sessions = {}
  /\ on = [r \in Requests |-> None]
  /\ gone = {} /\ early = {}

-----------------------------------------------------------------------------
(* GET.                                                                    *)

\* getOrCreateAuthBroker returns undefined when the creation fails, and the
\* session is opened without a connection.
NoBroker(r) ==
  /\ phase[r] = "creating"
  /\ dest' = [dest EXCEPT ![r] = None]
  /\ Goto(r, "dispatch")
  /\ UNCHANGED <<waitsFor, auth, authLocks, brokers, cached, used, sse>>

\* setConnectionContext, with no lock around it.
StartSession(r) ==
  /\ phase[r] = "ready"
  /\ auth' = [auth EXCEPT ![r] = "pending"]
  /\ Goto(r, "config")
  /\ UNCHANGED <<dest, waitsFor, authLocks, brokers, cached, used, sse>>

Authenticate(r) ==
  (ReadConfig(r) \/ GetToken(r) \/ ResolveSystem(r)) /\ UNCHANGED sse

Store(r) ==
  /\ r \in Gets /\ phase[r] = "dispatch" /\ session[r] = "none"
  /\ session' = [session EXCEPT ![r] = "connecting"]
  /\ sessions' = sessions \cup {r}
  /\ UNCHANGED <<vars, on, gone, early>>

unchangedByConnect ==
  <<dest, waitsFor, auth, authLocks, brokers, cached, used, on, gone, early>>

\* Mutant of Connect: a session that fails to connect stays in the map.
ConnectKept(r) ==
  /\ session[r] = "connecting"
  /\ \/ session' = [session EXCEPT ![r] = "open"] /\ Goto(r, "ok")
     \/ session' = [session EXCEPT ![r] = "closed"] /\ Goto(r, "failed")
  /\ UNCHANGED <<unchangedByConnect, sessions>>

\* server.connect(transport); then the close handler is registered.
Connect(r) ==
  /\ session[r] = "connecting"
  /\ \/ /\ session' = [session EXCEPT ![r] = "open"] /\ Goto(r, "ok")
        /\ UNCHANGED sessions
     \/ /\ session' = [session EXCEPT ![r] = "closed"] /\ Goto(r, "failed")
        /\ sessions' = sessions \ {r}
  /\ UNCHANGED unchangedByConnect

\* The client of a GET closes the response, at any time.
Leave(r) ==
  /\ r \in Gets \ gone /\ phase[r] \notin {"idle", "failed"}
  /\ gone' = gone \cup {r}
  /\ \/ /\ session[r] = "open"
        /\ session' = [session EXCEPT ![r] = "closed"]
        /\ sessions' = sessions \ {r}
        /\ UNCHANGED early
     \/ /\ session[r] # "open"
        /\ early' = early \cup {r}
        /\ UNCHANGED <<session, sessions>>
  /\ UNCHANGED <<vars, on>>

-----------------------------------------------------------------------------
(* POST.                                                                   *)

\* A session id is known once the session was connected; one that is not in
\* the map is refused.
Post(r) ==
  /\ r \notin Gets /\ phase[r] = "idle"
  /\ \E q \in Gets :
       /\ session[q] \in {"open", "closed"}
       /\ on' = [on EXCEPT ![r] = q]
       /\ \/ /\ q \in sessions /\ Goto(r, "dispatch")
             /\ dest' = [dest EXCEPT ![r] = dest[q]]
          \/ q \notin sessions /\ Goto(r, "failed") /\ UNCHANGED dest
  /\ UNCHANGED <<waitsFor, auth, authLocks, brokers, cached, used, session,
                 sessions, gone, early>>

\* A tool call in a session without a connection is answered with an error.
Handle(r) ==
  /\ r \notin Gets /\ Dispatch(r)
  /\ dest[r] = None /\ r \notin Pings => phase'[r] = "failed"
  /\ UNCHANGED sse

-----------------------------------------------------------------------------

SseContinue(r) ==
  \/ CreateBroker(r) /\ UNCHANGED sse
  \/ NoBroker(r) \/ StartSession(r) \/ Authenticate(r) \/ Store(r)
  \/ Connect(r) \/ Handle(r)

SseStep(r) ==
  \/ r \in Gets /\ Arrive(r) /\ UNCHANGED sse
  \/ SseContinue(r) \/ Leave(r) \/ Post(r)

HttpProceeds(r) == transport = "http" /\ Continue(r) /\ UNCHANGED <<transport, sse>>
SseProceeds(r)  == transport = "sse" /\ SseContinue(r) /\ UNCHANGED transport

ServersNext ==
  \/ transport = "http" /\ Next /\ UNCHANGED <<transport, sse>>
  \/ /\ transport = "sse" /\ UNCHANGED transport
     /\ \E r \in Requests : SseStep(r)

\* As in HttpServer.  No client is assumed to leave, or to stay.
ServersFairness ==
  \A r \in Requests :
    WF_serversVars(HttpProceeds(r)) /\ WF_serversVars(SseProceeds(r))

ServersSpec == ServersInit /\ [][ServersNext]_serversVars /\ ServersFairness

-----------------------------------------------------------------------------
(* Properties.                                                             *)

\* Every session whose client is there can be found by a POST, and every
\* session in the map is being connected or open, and its client is there:
\* unless the client left before the close handler was registered.
SessionsAreLive ==
  \A r \in Requests :
    /\ session[r] \in {"connecting", "open"} => r \in sessions
    /\ r \in sessions =>
         /\ session[r] \in {"connecting", "open"}
         /\ phase[r] = (IF session[r] = "open" THEN "ok" ELSE "dispatch")
         /\ r \in gone => r \in early

=============================================================================
