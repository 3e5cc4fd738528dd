--------------------------- MODULE UpdateContract ---------------------------
(***************************************************************************)
(* What an Update* tool promises to its caller, whatever the other callers *)
(* do: a call takes effect at most once, on the system its client          *)
(* addressed, while it runs; and it answers "confirmed" only if the system *)
(* really held what the caller sent, at some moment while the call ran.    *)
(***************************************************************************)
CONSTANTS
  Calls,    \* tool calls
  Systems,  \* SAP systems; each holds one object
  Sources,  \* versions of the object
  Initial,  \* the version every system starts with
  HomeOf    \* the system a call is addressed to

VARIABLES
  value,    \* the version each system holds
  phase,    \* has a call begun, has it answered
  wants,    \* the version it is to write
  wrote,    \* has it taken effect
  seen,     \* calls whose version was there while they ran
  answer    \* what it answered

vars == <<value, phase, wants, wrote, seen, answer>>

Init ==
  /\ value  = [s \in Systems |-> Initial]
  /\ phase  = [c \in Calls |-> "idle"]
  /\ wants  = [c \in Calls |-> Initial]
  /\ wrote  = [c \in Calls |-> FALSE]
  /\ seen   = {}
  /\ answer = [c \in Calls |-> "none"]

Invoke(c) ==
  /\ phase[c] = "idle"
  /\ phase' = [phase EXCEPT ![c] = "running"]
  /\ \E source \in Sources : wants' = [wants EXCEPT ![c] = source]
  /\ UNCHANGED <<value, wrote, answer>>

TakeEffect(c) ==
  /\ phase[c] = "running" /\ ~ wrote[c]
  /\ value' = [value EXCEPT ![HomeOf[c]] = wants[c]]
  /\ wrote' = [wrote EXCEPT ![c] = TRUE]
  /\ UNCHANGED <<phase, wants, answer>>

Respond(c) ==
  /\ phase[c] = "running"
  /\ phase' = [phase EXCEPT ![c] = "returned"]
  /\ \/ c \in seen /\ answer' = [answer EXCEPT ![c] = "confirmed"]
     \/ answer' = [answer EXCEPT ![c] = "unconfirmed"]
     \/ answer' = [answer EXCEPT ![c] = "error"]
  /\ UNCHANGED <<value, wants, wrote>>

\* A running call may come to see its version whenever its system holds it.
Observe ==
  /\ seen \subseteq seen'
  /\ \A c \in seen' \ seen :
       c \in Calls /\ phase'[c] = "running" /\ value'[HomeOf[c]] = wants'[c]

Next ==
  /\ \/ \E c \in Calls : Invoke(c) \/ TakeEffect(c) \/ Respond(c)
     \/ UNCHANGED <<value, phase, wants, wrote, answer>>
  /\ Observe

Spec == Init /\ [][Next]_vars

=============================================================================
