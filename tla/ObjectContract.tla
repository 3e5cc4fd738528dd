--------------------------- MODULE ObjectContract ---------------------------
(***************************************************************************)
(* What the Create* and Delete* tools promise about one object, whatever   *)
(* other calls do: a call that answers "done" has itself brought the       *)
(* object into being, or out of it, in one step while it ran, so that of   *)
(* two calls that both created the object another one deleted it in        *)
(* between; "found" means that the object was there while the call ran.    *)
(***************************************************************************)
CONSTANT Calls  \* tool calls

VARIABLES
  there,   \* does the object exist
  phase,   \* has a call begun, has it answered
  wants,   \* what it is to do: "make", "remove" or "keep" the object
  did,     \* calls that have done it
  saw,     \* calls during which the object was there
  answer   \* what a call answered

vars == <<there, phase, wants, did, saw, answer>>

Init ==
  /\ there \in BOOLEAN
  /\ phase = [c \in Calls |-> "idle"]
  /\ wants = [c \in Calls |-> "keep"]
  /\ did = {} /\ saw = {}
  /\ answer = [c \in Calls |-> "none"]

Invoke(c) ==
  /\ phase[c] = "idle"
  /\ phase' = [phase EXCEPT ![c] = "running"]
  /\ \E w \in {"make", "remove", "keep"} : wants' = [wants EXCEPT ![c] = w]
  /\ UNCHANGED <<there, did, answer>>

TakeEffect(c) ==
  /\ phase[c] = "running" /\ c \notin did
  /\ \/ wants[c] = "make" /\ ~ there
     \/ wants[c] = "remove" /\ there
  /\ there' = ~ there
  /\ did' = did \cup {c}
  /\ UNCHANGED <<phase, wants, answer>>

\* A call may always answer that it failed, or that it does not know.
Respond(c) ==
  /\ phase[c] = "running"
  /\ phase' = [phase EXCEPT ![c] = "returned"]
  /\ \E r \in {"done", "found", "unsure", "error"} :
       /\ r = "done" => c \in did \/ wants[c] = "keep"
       /\ r = "found" => c \in saw
       /\ answer' = [answer EXCEPT ![c] = r]
  /\ UNCHANGED <<there, wants, did>>

Observe ==
  /\ saw \subseteq saw'
  /\ \A c \in saw' \ saw : c \in Calls /\ phase'[c] = "running" /\ there'

Next ==
  /\ \/ \E c \in Calls : Invoke(c) \/ TakeEffect(c) \/ Respond(c)
     \/ UNCHANGED <<there, phase, wants, did, answer>>
  /\ Observe

Spec == Init /\ [][Next]_vars

=============================================================================
