-------------------------- MODULE DebugSessionProofs --------------------------
(***************************************************************************)
(* Theorems about DebugSession, for every set of callers and includes.     *)
(***************************************************************************)
EXTENDS DebugSession, TLAPS

\* What a handler that has failed has still to do.
Failing == {<<"unlock", "stateless">>, <<"stateless">>}

\* What the handler of a tool may have still to do.
Stages(tool) ==
  CASE tool = "nothing" -> {<< >>}
    [] tool = "Listen" -> {Listening, <<"await", "attach">>, <<"attach">>}
    [] tool = "Stop" -> {Stopping, <<"stateless">>}
    [] tool = "Step" -> {Stepping}
    [] tool = "Inspect" -> {Inspecting}
    [] tool = "Restore" -> {Restoring}
    [] tool = "UpdateInclude" ->
         {Updating, <<"put", "unlock", "stateless", "verify">>,
          <<"unlock", "stateless", "verify">>, <<"stateless", "verify">>,
          <<"verify">>} \cup Failing

\* The calls are where their handlers can be.
WellFormed ==
  /\ doing \in [Callers -> Tools \cup {"nothing"}]
  /\ on \in [Callers -> Includes \cup {NoInclude}]
  /\ todo \in [Callers -> Seq(Steps)]
  /\ failed \in [Callers -> BOOLEAN]
  /\ last \in Answers
  /\ \A c \in Callers :
       /\ todo[c] \in Stages(doing[c])
       /\ doing[c] = "UpdateInclude" <=> on[c] \in Includes
       /\ doing[c] = "UpdateInclude" /\ todo[c] \in Failing => failed[c]

\* A lock that nothing explains but a section at work is within its reach.
LocksReached ==
  \A i \in Includes :
    lock[i] # NoOne /\ i \notin lost \cup crossed => sessionType = "stateful"

\* Without a listener no debuggee is held.
HeldByListener ==
  /\ ~ listener => debuggee = "running"
  /\ released => ~ listener

IInv ==
  TypeOK /\ WellFormed /\ IncludeReleased /\ LocksReached /\ HeldByListener

-----------------------------------------------------------------------------
(* Calls stay well formed.                                                 *)

\* Every stage of a handler is a sequence of steps.
LEMMA StagesAreSteps ==
  ASSUME NEW tool \in Tools \cup {"nothing"}, NEW t \in Stages(tool)
  PROVE  t \in Seq(Steps)
<1>1. \/ t \in {<< >>, Stepping, Inspecting, Restoring, Stopping, Listening}
      \/ t \in {<<"await", "attach">>, <<"attach">>, <<"stateless">>,
               <<"verify">>, <<"unlock", "stateless">>,
               <<"stateless", "verify">>}
      \/ t = <<"unlock", "stateless", "verify">>
      \/ t = <<"put", "unlock", "stateless", "verify">>
      \/ t = Updating
  BY DEF Tools, Stages, Failing
<1>2. {<< >>, Stepping, Inspecting, Restoring, Stopping} \subseteq Seq(Steps)
  BY DEF Steps, Stopping, Stepping, Inspecting, Restoring
<1>3. Listening \in Seq(Steps) /\ <<"await", "attach">> \in Seq(Steps)
  BY DEF Steps, Listening
<1>4. {<<"attach">>, <<"stateless">>, <<"verify">>} \subseteq Seq(Steps)
  BY DEF Steps
<1>5. /\ <<"unlock", "stateless">> \in Seq(Steps)
      /\ <<"stateless", "verify">> \in Seq(Steps)
  BY DEF Steps
<1>6. <<"unlock", "stateless", "verify">> \in Seq(Steps)
  BY DEF Steps
<1>7. <<"put", "unlock", "stateless", "verify">> \in Seq(Steps)
  BY DEF Steps
<1>8. Updating \in Seq(Steps)
  BY DEF Steps, Updating
<1> QED BY <1>1, <1>2, <1>3, <1>4, <1>5, <1>6, <1>7, <1>8

\* A handler that returns leaves no stage behind.
LEMMA TellFormed ==
  ASSUME WellFormed, NEW c \in Callers, NEW answer \in Answers, Tell(c, answer)
  PROVE  WellFormed'
<1>1. << >> \in Stages("nothing") /\ << >> \in Seq(Steps)
  BY DEF Stages
<1> QED BY <1>1, ConstantsAssumption DEF WellFormed, Tell

\* A handler that goes on with stage t is where it can be, if t is a stage.
LEMMA StageFormed ==
  ASSUME WellFormed, NEW c \in Callers, NEW t \in Stages(doing[c]),
         todo' = [todo EXCEPT ![c] = t],
         failed' \in [Callers -> BOOLEAN],
         \A d \in Callers : d # c => failed'[d] = failed[d],
         doing[c] = "UpdateInclude" /\ t \in Failing => failed'[c],
         UNCHANGED <<doing, on, last>>
  PROVE  WellFormed'
<1>1. t \in Seq(Steps)
  BY StagesAreSteps DEF WellFormed
<1> QED BY <1>1 DEF WellFormed

\* What is left of a handler that awaits a step of UpdateInclude.
LEMMA UpdateStage ==
  ASSUME WellFormed, NEW c \in Callers, NEW step \in {"lock", "put", "unlock", "verify"},
         Awaits(c, step)
  PROVE  /\ doing[c] = "UpdateInclude"
         /\ on[c] \in Includes
         /\ step = "lock" => todo[c] = Updating
         /\ step = "put" => todo[c] = <<"put", "unlock", "stateless", "verify">>
         /\ step = "unlock" => todo[c] \in {<<"unlock", "stateless", "verify">>,
                                            <<"unlock", "stateless">>}
         /\ step = "verify" => todo[c] = <<"verify">>
<1>1. todo[c] \in Stages(doing[c]) /\ doing[c] \in Tools \cup {"nothing"}
  BY DEF WellFormed
<1>2. todo[c] # << >> /\ Head(todo[c]) = step
  BY DEF Awaits
<1>3. doing[c] = "UpdateInclude"
  BY <1>1, <1>2 DEF Tools, Stages, Listening, Stopping, Stepping, Inspecting,
                    Restoring
<1> QED
  BY <1>1, <1>2, <1>3 DEF WellFormed, Stages, Updating, Failing

\* What is left of any other handler.
LEMMA OtherStage ==
  ASSUME WellFormed, NEW c \in Callers,
         NEW step \in {"listen", "await", "attach", "stop", "stateless"},
         Awaits(c, step)
  PROVE  /\ step = "listen" => doing[c] = "Listen" /\ todo[c] = Listening
         /\ step = "await" => doing[c] = "Listen" /\ todo[c] = <<"await", "attach">>
         /\ step = "stop" => doing[c] = "Stop" /\ todo[c] = Stopping
         /\ step = "stateless" =>
              \/ doing[c] = "Stop"
              \/ /\ doing[c] = "UpdateInclude"
                 /\ \/ failed[c]
                    \/ todo[c] = <<"stateless", "verify">>
<1>1. todo[c] \in Stages(doing[c]) /\ doing[c] \in Tools \cup {"nothing"}
  BY DEF WellFormed
<1>2. todo[c] # << >> /\ Head(todo[c]) = step
  BY DEF Awaits
<1> QED
  BY <1>1, <1>2 DEF WellFormed, Tools, Stages, Listening, Stopping, Stepping,
                    Inspecting, Restoring, Updating, Failing

-----------------------------------------------------------------------------
(* Every step keeps the invariant.                                         *)

\* A step of a call that is in no section of UpdateInclude, and that touches no
\* lock, keeps what is said of locks if it leaves the connection stateful.
LEMMA LocksKept ==
  ASSUME IInv, NEW c \in Callers,
         ~ Awaits(c, "put"), ~ Awaits(c, "unlock"),
         \A d \in Callers : d # c => /\ doing'[d] = doing[d]
                                    /\ on'[d] = on[d]
                                    /\ todo'[d] = todo[d],
         sessionType' \in {sessionType, "stateful"},
         UNCHANGED <<lock, lost, crossed>>
  PROVE  IncludeReleased' /\ LocksReached'
<1>1. LocksReached'
  BY DEF IInv, LocksReached
<1>2. ASSUME NEW i \in Includes, lock[i] # NoOne, i \notin lost \cup crossed
      PROVE  WillUnlock(lock[i], i)'
  <2>1. WillUnlock(lock[i], i) /\ lock[i] \in Callers
    BY <1>2 DEF IInv, TypeOK, IncludeReleased
  <2> QED BY <2>1 DEF WillUnlock, Awaits
<1> QED BY <1>1, <1>2 DEF IncludeReleased

\* The tools that listen, stop, step, inspect and restore.
LEMMA DebuggerStep ==
  ASSUME IInv, NEW c \in Callers,
         \/ Listen(c) \/ Caught(c) \/ NotCaught(c) \/ Attach(c)
         \/ Stop(c) \/ NoListener(c) \/ Step(c) \/ Inspect(c) \/ Restore(c)
  PROVE  IInv'
<1>1. ~ Awaits(c, "put") /\ ~ Awaits(c, "unlock")
  BY DEF Awaits, Listen, Caught, NotCaught, Attach, Stop, NoListener, Step,
         Inspect, Restore
<1>2. /\ sessionType' \in {sessionType, "stateful"}
      /\ UNCHANGED <<overlap, lock, lost, crossed>>
  BY DEF Listen, Caught, NotCaught, Attach, Stop, NoListener, Step, Inspect,
         Restore, sap
<1>3. \/ Proceed(c)
      \/ \E answer \in Answers : Tell(c, answer)
  BY DEF Listen, Caught, NotCaught, Attach, Stop, NoListener, Step, Inspect,
         Restore, Answers
<1>4. \A d \in Callers : d # c => /\ doing'[d] = doing[d]
                                 /\ on'[d] = on[d]
                                 /\ todo'[d] = todo[d]
  BY <1>3 DEF Proceed, Tell, IInv, WellFormed
<1>5. WellFormed'
  <2>1. CASE \E answer \in Answers : Tell(c, answer)
    BY <2>1, TellFormed DEF IInv
  <2>2. CASE Proceed(c) /\ ~ \E answer \in Answers : Tell(c, answer)
    <3>1. \/ Listen(c) \/ Caught(c) \/ Stop(c)
      BY <2>2 DEF Caught, NotCaught, Attach, NoListener, Step, Inspect, Restore,
                  Answers
    <3>2. \/ Awaits(c, "listen") \/ Awaits(c, "await") \/ Awaits(c, "stop")
      BY <3>1 DEF Listen, Caught, Stop
    <3>3. \/ doing[c] = "Listen" /\ todo[c] = Listening
          \/ doing[c] = "Listen" /\ todo[c] = <<"await", "attach">>
          \/ doing[c] = "Stop" /\ todo[c] = Stopping
      BY <3>2, OtherStage DEF IInv
    <3>4. Tail(todo[c]) \in Stages(doing[c])
      <4>1. /\ Tail(Listening) = <<"await", "attach">>
            /\ Tail(<<"await", "attach">>) = <<"attach">>
            /\ Tail(Stopping) = <<"stateless">>
        BY DEF Listening, Stopping
      <4> QED BY <3>3, <4>1 DEF Stages
    <3>5. doing[c] # "UpdateInclude"
      BY <3>3
    <3> QED
      BY <2>2, <3>4, <3>5, StageFormed DEF IInv, Proceed, WellFormed
  <2> QED BY <1>3, <2>1, <2>2
<1>6. IncludeReleased' /\ LocksReached'
  BY <1>1, <1>2, <1>4, LocksKept
<1>7. HeldByListener'
  <2>0. listener \in BOOLEAN
    BY DEF IInv, TypeOK
  <2>1. CASE Listen(c) \/ Caught(c)
    BY <2>1 DEF IInv, HeldByListener, Listen, Caught
  <2>2. CASE NotCaught(c)
    BY <2>0, <2>2 DEF IInv, HeldByListener, NotCaught
  <2>3. CASE Attach(c)
    BY <2>3 DEF IInv, HeldByListener, Attach
  <2>4. CASE Stop(c)
    BY <2>4 DEF IInv, HeldByListener, Stop
  <2>5. CASE NoListener(c) \/ Inspect(c) \/ Restore(c)
    BY <2>5 DEF IInv, HeldByListener, NoListener, Inspect, Restore, sap
  <2>6. CASE Step(c)
    <3>1. CASE UNCHANGED <<listener, debuggee>>
      BY <2>6, <3>1 DEF IInv, HeldByListener, Step
    <3>2. CASE debuggee' = "running" /\ listener' \in {listener, FALSE}
      <4>1. UNCHANGED released
        BY <2>6 DEF Step
      <4>2. CASE listener' = listener
        BY <3>2, <4>1, <4>2 DEF IInv, HeldByListener
      <4>3. CASE listener' = FALSE
        BY <3>2, <4>3 DEF HeldByListener
      <4> QED BY <3>2, <4>2, <4>3
    <3> QED BY <2>6, <3>1, <3>2 DEF Step
  <2> QED BY <2>1, <2>2, <2>3, <2>4, <2>5, <2>6
<1>8. TypeOK'
  <2>1. /\ listener' \in BOOLEAN /\ released' \in BOOLEAN
        /\ debuggee' \in {"running", "stopped", "attached"}
    BY DEF IInv, TypeOK, Listen, Caught, NotCaught, Attach, Stop, NoListener,
           Step, Inspect, Restore, sap
  <2>2. pinned' \in BOOLEAN
    BY DEF IInv, TypeOK, Listen, Caught, NotCaught, Attach, Stop, NoListener,
           Step, Inspect, Restore
  <2> QED BY <1>2, <1>5, <2>1, <2>2 DEF IInv, TypeOK, WellFormed
<1> QED BY <1>5, <1>6, <1>7, <1>8 DEF IInv

\* UpdateInclude takes its lock.
LEMMA LockStep ==
  ASSUME IInv, NEW c \in Callers, Lock(c)
  PROVE  IInv'
<1> DEFINE i == on[c]
<1>1. doing[c] = "UpdateInclude" /\ i \in Includes /\ todo[c] = Updating
  BY UpdateStage DEF IInv, Lock
<1>2. /\ Tail(Updating) = <<"put", "unlock", "stateless", "verify">>
      /\ Head(Tail(Updating)) = "put"
      /\ Finally(c) = <<"stateless">>
  BY <1>1 DEF Updating, Finally, Awaits
<1>3. Tail(Updating) \in Stages(doing[c]) \ Failing
  BY <1>1, <1>2 DEF Stages, Failing
<1>4. <<"stateless">> \in Stages(doing[c])
  BY <1>1 DEF Stages, Failing
<1>5. WellFormed'
  <2>1. CASE Proceed(c)
    BY <1>1, <1>3, <2>1, StageFormed DEF IInv, Proceed, WellFormed
  <2>2. CASE Throw(c)
    BY <1>2, <1>4, <2>2, StageFormed DEF IInv, Throw, WellFormed
  <2> QED BY <2>1, <2>2 DEF Lock
<1>6. LocksReached' /\ HeldByListener'
  BY DEF IInv, HeldByListener, LocksReached, Lock
<1>7. TypeOK'
  <2>0. /\ lock \in [Includes -> Callers \cup {NoOne}]
        /\ lost \subseteq Includes /\ crossed \subseteq Includes
    BY DEF IInv, TypeOK
  <2>1. /\ lock' \in [Includes -> Callers \cup {NoOne}]
        /\ lost' \subseteq Includes /\ crossed' \subseteq Includes
    BY <1>1, <2>0 DEF Lock
  <2>2. pinned' = TRUE
    BY DEF Lock
  <2> QED BY <1>5, <2>1, <2>2 DEF IInv, TypeOK, WellFormed, Lock
<1>8. IncludeReleased'
  <2> SUFFICES ASSUME NEW j \in Includes, lock'[j] # NoOne,
                      j \notin lost' \cup crossed'
               PROVE  WillUnlock(lock[j], j)'
    BY DEF IncludeReleased
  <2>1. CASE j = i /\ lock[i] = NoOne
    <3>1. Proceed(c) /\ lock'[i] = c
      BY <1>1, <2>1 DEF Lock, IInv, TypeOK
    <3>2. todo'[c] = <<"put", "unlock", "stateless", "verify">>
      BY <1>1, <1>2, <3>1 DEF Proceed, IInv, TypeOK
    <3>3. Awaits(c, "put")'
      BY <3>2 DEF Awaits
    <3>4. doing'[c] = "UpdateInclude" /\ on'[c] = i
      BY <1>1, <3>1 DEF Proceed
    <3> QED BY <2>1, <3>1, <3>3, <3>4 DEF WillUnlock
  <2>2. CASE j # i \/ lock[i] # NoOne
    <3>1. lock'[j] = lock[j] /\ j \notin lost \cup crossed
      BY <2>2 DEF Lock, IInv, TypeOK
    <3>2. WillUnlock(lock[j], j) /\ lock[j] \in Callers
      BY <3>1 DEF IInv, IncludeReleased, TypeOK
    <3>3. lock[j] # c
      BY <3>2 DEF Lock, WillUnlock, Awaits
    <3>4. /\ todo'[lock[j]] = todo[lock[j]]
          /\ doing' = doing /\ on' = on
      BY <3>2, <3>3 DEF Lock, Proceed, Throw, IInv, TypeOK
    <3> QED BY <3>1, <3>2, <3>4 DEF WillUnlock, Awaits
  <2> QED BY <2>1, <2>2
<1> QED BY <1>5, <1>6, <1>7, <1>8 DEF IInv

\* It writes, and goes on to unlock whatever happens.
LEMMA PutStep ==
  ASSUME IInv, NEW c \in Callers, Put(c)
  PROVE  IInv'
<1> DEFINE next == <<"unlock", "stateless", "verify">>
           last2 == <<"unlock", "stateless">>
<1>1. /\ doing[c] = "UpdateInclude"
      /\ todo[c] = <<"put", "unlock", "stateless", "verify">>
  BY UpdateStage DEF IInv, Put
<1>2. Tail(todo[c]) = next /\ Finally(c) = last2
  BY <1>1 DEF Put, Finally
<1>3. next \in Stages(doing[c]) \ Failing /\ last2 \in Stages(doing[c])
  BY <1>1 DEF Stages, Failing
<1>4. WellFormed'
  <2>1. CASE Proceed(c)
    BY <1>1, <1>2, <1>3, <2>1, StageFormed DEF IInv, Proceed, WellFormed
  <2>2. CASE Throw(c)
    BY <1>2, <1>3, <2>2, StageFormed DEF IInv, Throw, WellFormed
  <2> QED BY <2>1, <2>2 DEF Put
<1>5. /\ doing' = doing /\ on' = on
      /\ todo'[c] \in {next, last2}
      /\ \A d \in Callers : d # c => todo'[d] = todo[d]
  BY <1>2 DEF Put, Proceed, Throw, IInv, TypeOK
<1>6. Awaits(c, "unlock")'
  BY <1>5 DEF Awaits
<1>7. IncludeReleased'
  <2>1. lock' = lock /\ lost' = lost /\ crossed' = crossed
    BY DEF Put, sap
  <2>2. \A d \in Callers, i \in Includes : WillUnlock(d, i) => WillUnlock(d, i)'
    BY <1>5, <1>6 DEF WillUnlock, Awaits
  <2>3. \A i \in Includes : lock[i] # NoOne => lock[i] \in Callers
    BY DEF IInv, TypeOK
  <2> QED BY <2>1, <2>2, <2>3 DEF IInv, IncludeReleased
<1>8. LocksReached' /\ HeldByListener' /\ TypeOK'
  BY <1>4 DEF IInv, TypeOK, WellFormed, HeldByListener, LocksReached, Put, sap
<1> QED BY <1>4, <1>7, <1>8 DEF IInv

\* It unlocks, or fails for a reason that is on record.
LEMMA UnlockStep ==
  ASSUME IInv, NEW c \in Callers, Unlock(c)
  PROVE  IInv'
<1> DEFINE i == on[c]
<1>1. /\ doing[c] = "UpdateInclude" /\ i \in Includes
      /\ todo[c] \in {<<"unlock", "stateless", "verify">>,
                      <<"unlock", "stateless">>}
  BY UpdateStage DEF IInv, Unlock
<1>2. /\ Tail(<<"unlock", "stateless", "verify">>) = <<"stateless", "verify">>
      /\ Tail(<<"unlock", "stateless">>) = <<"stateless">>
  OBVIOUS
<1>3. /\ Tail(todo[c]) \in Stages(doing[c])
      /\ Tail(todo[c]) \in Failing => failed[c]
  <2>1. CASE todo[c] = <<"unlock", "stateless", "verify">>
    BY <1>1, <1>2, <2>1 DEF Stages, Failing
  <2>2. CASE todo[c] = <<"unlock", "stateless">>
    <3>1. todo[c] \in Failing
      BY <2>2 DEF Failing
    <3> QED BY <1>1, <1>2, <2>2, <3>1 DEF IInv, WellFormed, Stages, Failing
  <2> QED BY <1>1, <2>1, <2>2
<1>4. WellFormed'
  BY <1>3, StageFormed DEF IInv, WellFormed, Unlock, Proceed
<1>5. /\ doing' = doing /\ on' = on
      /\ \A d \in Callers : d # c => todo'[d] = todo[d]
  BY DEF Unlock, Proceed, IInv, TypeOK
<1>6. IncludeReleased'
  <2> SUFFICES ASSUME NEW j \in Includes, lock'[j] # NoOne,
                      j \notin lost' \cup crossed'
               PROVE  WillUnlock(lock[j], j)'
    BY DEF IncludeReleased
  <2>1. lock'[j] = lock[j] /\ j \notin lost \cup crossed
    BY <1>1 DEF Unlock, IInv, TypeOK
  <2>2. WillUnlock(lock[j], j) /\ lock[j] \in Callers /\ sessionType = "stateful"
    BY <2>1 DEF IInv, IncludeReleased, LocksReached, TypeOK
  <2>3. lock[j] # c
    BY <1>1, <2>1, <2>2 DEF Unlock, Holds, WillUnlock, IInv, TypeOK
  <2> QED BY <1>5, <2>1, <2>2, <2>3 DEF WillUnlock, Awaits
<1>7. LocksReached'
  BY <1>1 DEF IInv, TypeOK, LocksReached, Unlock
<1>8. HeldByListener' /\ TypeOK'
  BY <1>1, <1>4 DEF IInv, TypeOK, WellFormed, HeldByListener, Unlock
<1> QED BY <1>4, <1>6, <1>7, <1>8 DEF IInv

\* The last steps: the session type is set back, the source read back.
LEMMA StatelessStep ==
  ASSUME IInv, NEW c \in Callers, Stateless(c)
  PROVE  IInv'
<1>1. \/ \E answer \in Answers : Tell(c, answer)
      \/ /\ Proceed(c) /\ doing[c] # "Stop" /\ ~ failed[c]
  BY DEF Stateless, Answers
<1>2. WellFormed'
  <2>1. CASE \E answer \in Answers : Tell(c, answer)
    BY <2>1, TellFormed DEF IInv
  <2>2. CASE Proceed(c) /\ doing[c] # "Stop" /\ ~ failed[c]
    <3>1. doing[c] = "UpdateInclude" /\ todo[c] = <<"stateless", "verify">>
      BY <2>2, OtherStage DEF Stateless, IInv
    <3>2. /\ Tail(todo[c]) = <<"verify">>
          /\ <<"verify">> \in Stages(doing[c]) \ Failing
      BY <3>1 DEF Stages, Failing
    <3> QED BY <2>2, <3>2, StageFormed DEF IInv, WellFormed, Proceed
  <2> QED BY <1>1, <2>1, <2>2
<1>3. \A d \in Callers : d # c => /\ doing'[d] = doing[d]
                                 /\ on'[d] = on[d]
                                 /\ todo'[d] = todo[d]
  BY <1>1 DEF Proceed, Tell, IInv, TypeOK
<1>4. ASSUME NEW i \in Includes, lock[i] # NoOne PROVE i \in lost' \cup crossed'
  <2>1. CASE lock[i] # c
    BY <1>4, <2>1 DEF Stateless
  <2>2. CASE lock[i] = c
    <3>1. ~ WillUnlock(c, i)
      BY DEF Stateless, WillUnlock, Awaits
    <3> QED BY <1>4, <2>2, <3>1 DEF IInv, IncludeReleased, Stateless
  <2> QED BY <2>1, <2>2
<1>5. IncludeReleased' /\ LocksReached'
  BY <1>4 DEF Stateless, sap, IncludeReleased, LocksReached
<1>6. HeldByListener' /\ TypeOK'
  BY <1>2 DEF IInv, TypeOK, WellFormed, HeldByListener, Stateless, sap
<1> QED BY <1>2, <1>5, <1>6 DEF IInv

\* It reads the source back, and answers.
LEMMA VerifyStep ==
  ASSUME IInv, NEW c \in Callers, Verify(c)
  PROVE  IInv'
<1>1. Tell(c, "updated") /\ "updated" \in Answers
  BY DEF Verify, Answers
<1>2. WellFormed'
  BY <1>1, TellFormed DEF IInv
<1>3. ~ Awaits(c, "put") /\ ~ Awaits(c, "unlock")
  BY DEF Verify, Awaits
<1>4. \A d \in Callers : d # c => /\ doing'[d] = doing[d]
                                 /\ on'[d] = on[d]
                                 /\ todo'[d] = todo[d]
  BY <1>1 DEF Tell, IInv, TypeOK
<1>5. IncludeReleased' /\ LocksReached'
  BY <1>3, <1>4, LocksKept DEF Verify, sap
<1>6. HeldByListener' /\ TypeOK'
  BY <1>2 DEF IInv, TypeOK, WellFormed, HeldByListener, Verify, sap
<1> QED BY <1>2, <1>5, <1>6 DEF IInv

\* A caller calls a tool.
LEMMA BeginStep ==
  ASSUME IInv, NEW c \in Callers, Begin(c)
  PROVE  IInv'
<1>1. PICK tool \in Tools :
        /\ doing' = [doing EXCEPT ![c] = tool]
        /\ todo' = [todo EXCEPT ![c] = Handler(tool)]
        /\ \/ /\ tool = "UpdateInclude"
              /\ \E i \in Includes : on' = [on EXCEPT ![c] = i]
           \/ tool # "UpdateInclude" /\ on' = on
  BY DEF Begin
<1>2. /\ Handler(tool) \in Stages(tool)
      /\ Handler(tool) \notin Failing
      /\ Handler(tool) # << >> /\ Head(Handler(tool)) \notin {"put", "unlock"}
  BY DEF Tools, Handler, Stages, Failing, Listening, Stopping, Stepping,
         Inspecting, Restoring, Updating
<1>3. Handler(tool) \in Seq(Steps)
  BY <1>2, StagesAreSteps
<1>4. WellFormed'
  <2>1. doing[c] = "nothing" /\ on[c] \notin Includes
    BY DEF IInv, WellFormed, Begin
  <2>2. /\ on' \in [Callers -> Includes \cup {NoInclude}]
        /\ tool = "UpdateInclude" <=> on'[c] \in Includes
        /\ \A d \in Callers \ {c} : on'[d] = on[d]
    BY <1>1, <2>1 DEF IInv, WellFormed
  <2> QED BY <1>1, <1>2, <1>3, <2>2 DEF IInv, WellFormed, Begin
<1>5. ~ Awaits(c, "put") /\ ~ Awaits(c, "unlock")
  <2>1. todo[c] = << >>
    BY DEF Begin, IInv, WellFormed, Stages
  <2> QED BY <2>1 DEF Awaits
<1>6. \A d \in Callers : d # c => /\ doing'[d] = doing[d]
                                 /\ on'[d] = on[d]
                                 /\ todo'[d] = todo[d]
  BY <1>1 DEF IInv, TypeOK
<1>7. IncludeReleased' /\ LocksReached'
  BY <1>5, <1>6, LocksKept DEF Begin, sap
<1>8. HeldByListener' /\ TypeOK'
  BY <1>4 DEF IInv, TypeOK, WellFormed, HeldByListener, Begin, sap
<1> QED BY <1>4, <1>7, <1>8 DEF IInv

\* Every step keeps the invariant.
LEMMA Invariance ==
  ASSUME IInv, [Next]_vars
  PROVE  IInv'
<1>1. CASE UNCHANGED vars
  BY <1>1 DEF IInv, TypeOK, WellFormed, IncludeReleased, LocksReached,
              HeldByListener, WillUnlock, Awaits, vars, calls, sap
<1>2. CASE Captured
  BY <1>2 DEF IInv, TypeOK, WellFormed, IncludeReleased, LocksReached,
              HeldByListener, WillUnlock, Awaits, Captured, calls
<1>3. CASE \E c \in Callers : Begin(c)
  BY <1>3, BeginStep
<1>4. CASE \E c \in Callers : Work(c)
  BY <1>4, DebuggerStep, LockStep, PutStep, UnlockStep, StatelessStep, VerifyStep
     DEF Work
<1> QED BY <1>1, <1>2, <1>3, <1>4 DEF Next

\* It holds at the start.
LEMMA Initially == Init => IInv
<1> SUFFICES ASSUME Init PROVE IInv
  OBVIOUS
<1>1. << >> \in Stages("nothing") /\ << >> \in Seq(Steps)
  BY DEF Stages
<1>2. TypeOK /\ WellFormed
  BY <1>1, ConstantsAssumption DEF Init, TypeOK, WellFormed, Answers
<1>3. IncludeReleased /\ LocksReached /\ HeldByListener
  BY DEF Init, IncludeReleased, LocksReached, HeldByListener
<1> QED BY <1>2, <1>3 DEF IInv

-----------------------------------------------------------------------------
(* Calls that do not overlap.                                              *)

\* What is known of the session type while nobody else can change it.
Calm ==
  ~ overlap =>
    /\ \A c, d \in Callers : c # d => doing[c] = "nothing" \/ doing[d] = "nothing"
    /\ \A c \in Callers :
         /\ Awaits(c, "verify") => sessionType = "stateless"
         /\ Awaits(c, "await") \/ Awaits(c, "attach")
              => sessionType = "stateful"
    /\ AnsweredStateless /\ AttachedIsReached

\* A call that goes on needs the session type only for what it does next.
LEMMA GoesOn ==
  ASSUME IInv, Calm, ~ overlap, overlap' = overlap,
         NEW c \in Callers, doing[c] # "nothing", doing' = doing,
         NEW t \in Seq(Steps), todo' = [todo EXCEPT ![c] = t], t # << >>,
         Head(t) = "verify" => sessionType' = "stateless",
         Head(t) \in {"await", "attach"} => sessionType' = "stateful"
  PROVE  Calm'
<1>1. /\ todo'[c] = t
      /\ \A d \in Callers \ {c} : doing[d] = "nothing" /\ todo'[d] = << >>
  BY DEF IInv, WellFormed, Calm, Stages
<1>2. ~ Quiet'
  BY DEF Quiet
<1> QED BY <1>1, <1>2 DEF Calm, Awaits, AnsweredStateless, AttachedIsReached

\* A call that answers answers to the session type.
LEMMA Returns ==
  ASSUME IInv, Calm, ~ overlap, overlap' = overlap,
         NEW c \in Callers, NEW answer, doing[c] # "nothing", Tell(c, answer),
         answer \in {"stopped", "updated"} => sessionType' = "stateless",
         answer = "attached" => Reached'
  PROVE  Calm'
<1>1. \A d \in Callers : doing'[d] = "nothing" /\ todo'[d] = << >>
  BY DEF IInv, WellFormed, Calm, Stages, Tell
<1>2. last' = answer
  BY DEF Tell
<1> QED BY <1>1, <1>2 DEF Calm, Awaits, AnsweredStateless, AttachedIsReached, Reached

\* Who has something to do has called a tool.
LEMMA Busy ==
  ASSUME WellFormed, NEW c \in Callers, NEW step, Awaits(c, step)
  PROVE  doing[c] # "nothing" /\ Tail(todo[c]) \in Seq(Steps)
<1>1. todo[c] # << >> /\ todo[c] \in Seq(Steps) /\ todo[c] \in Stages(doing[c])
  BY DEF WellFormed, Awaits
<1> QED BY <1>1 DEF Stages

\* What follows a step of a handler that goes on.
After(step) ==
  CASE step = "listen" -> {"await"}
    [] step = "await" -> {"attach"}
    [] step = "stop" -> {"stateless"}
    [] step = "lock" -> {"put"}
    [] step = "put" -> {"unlock"}
    [] step = "unlock" -> {"stateless"}

\* A handler that goes on makes the next request of its stage.
LEMMA Follows ==
  ASSUME WellFormed, NEW c \in Callers,
         NEW step \in {"listen", "await", "stop", "lock", "put", "unlock"},
         Awaits(c, step)
  PROVE  Tail(todo[c]) # << >> /\ Head(Tail(todo[c])) \in After(step)
<1>1. CASE step = "listen"
  <2>1. todo[c] = <<"listen", "await", "attach">>
    BY <1>1, OtherStage DEF Listening
  <2> QED BY <1>1, <2>1 DEF After
<1>2. CASE step = "await"
  <2>1. todo[c] = <<"await", "attach">>
    BY <1>2, OtherStage
  <2> QED BY <1>2, <2>1 DEF After
<1>3. CASE step = "stop"
  <2>1. todo[c] = <<"stop", "stateless">>
    BY <1>3, OtherStage DEF Stopping
  <2> QED BY <1>3, <2>1 DEF After
<1>4. CASE step = "lock"
  <2>1. todo[c] = <<"lock", "put", "unlock", "stateless", "verify">>
    BY <1>4, UpdateStage DEF Updating
  <2> QED BY <1>4, <2>1 DEF After
<1>5. CASE step = "put"
  <2>1. todo[c] = <<"put", "unlock", "stateless", "verify">>
    BY <1>5, UpdateStage
  <2> QED BY <1>5, <2>1 DEF After
<1>6. CASE step = "unlock"
  <2>1. \/ todo[c] = <<"unlock", "stateless", "verify">>
        \/ todo[c] = <<"unlock", "stateless">>
    BY <1>6, UpdateStage
  <2>2. CASE todo[c] = <<"unlock", "stateless", "verify">>
    BY <1>6, <2>2 DEF After
  <2>3. CASE todo[c] = <<"unlock", "stateless">>
    BY <1>6, <2>3 DEF After
  <2> QED BY <2>1, <2>2, <2>3
<1> QED BY <1>1, <1>2, <1>3, <1>4, <1>5, <1>6

\* So a handler that goes on keeps the promises, if it sets the session type
\* before it listens and leaves it while it waits.
LEMMA Proceeds ==
  ASSUME IInv, Calm, ~ overlap, overlap' = overlap, NEW c \in Callers,
         NEW step \in {"listen", "await", "stop", "lock", "put", "unlock"},
         Awaits(c, step), Proceed(c),
         step = "listen" => sessionType' = "stateful",
         step = "await" => sessionType' = sessionType
  PROVE  Calm'
<1>1. doing[c] # "nothing" /\ Tail(todo[c]) \in Seq(Steps)
  BY Busy DEF IInv
<1>2. /\ Tail(todo[c]) # << >>
      /\ Head(Tail(todo[c])) \in After(step)
  BY Follows DEF IInv
<1>3. Head(Tail(todo[c])) # "verify"
  BY <1>2 DEF After
<1>4. Head(Tail(todo[c])) \in {"await", "attach"} => sessionType' = "stateful"
  BY <1>2 DEF After, Calm
<1>5. doing' = doing /\ todo' = [todo EXCEPT ![c] = Tail(todo[c])]
  BY DEF Proceed
<1> QED BY <1>1, <1>2, <1>3, <1>4, <1>5, GoesOn

\* And one that fails goes to its finally block.
LEMMA Throws ==
  ASSUME IInv, Calm, ~ overlap, overlap' = overlap, NEW c \in Callers,
         NEW step, Awaits(c, step), Throw(c)
  PROVE  Calm'
<1>1. doing[c] # "nothing" /\ doing' = doing
      /\ todo' = [todo EXCEPT ![c] = Finally(c)]
  BY Busy DEF IInv, Throw
<1>2. CASE Finally(c) = <<"unlock", "stateless">>
  <2>1. /\ <<"unlock", "stateless">> \in Seq(Steps)
        /\ Head(<<"unlock", "stateless">>) = "unlock"
    BY DEF Steps
  <2> QED BY <1>1, <1>2, <2>1, GoesOn
<1>3. CASE Finally(c) = <<"stateless">>
  <2>1. <<"stateless">> \in Seq(Steps) /\ Head(<<"stateless">>) = "stateless"
    BY DEF Steps
  <2> QED BY <1>1, <1>3, <2>1, GoesOn
<1> QED BY <1>2, <1>3 DEF Finally

\* Every step of a call keeps it.
LEMMA WorkCalm ==
  ASSUME IInv, Calm, ~ overlap, NEW c \in Callers, Work(c)
  PROVE  Calm'
<1>1. CASE Listen(c)
  BY <1>1, Proceeds DEF Listen
<1>2. CASE Caught(c)
  <2>1. CASE Proceed(c)
    BY <1>2, <2>1, Proceeds DEF Caught
  <2>2. CASE Tell(c, "other")
    BY <1>2, <2>2, Busy, Returns DEF Caught, IInv
  <2> QED BY <1>2, <2>1, <2>2 DEF Caught
<1>3. CASE NotCaught(c) \/ NoListener(c) \/ Step(c) \/ Inspect(c) \/ Restore(c)
  <2>1. /\ overlap' = overlap /\ Tell(c, "other")
        /\ \E step \in Steps : Awaits(c, step)
    BY <1>3 DEF NotCaught, NoListener, Step, Inspect, Restore, Steps
  <2> QED BY <2>1, Busy, Returns DEF IInv
<1>4. CASE Attach(c)
  <2>1. /\ sessionType = "stateful" /\ sessionType' = sessionType
        /\ overlap' = overlap /\ doing[c] # "nothing"
    BY <1>4, Busy DEF Attach, Calm, IInv
  <2>2. CASE debuggee = "stopped" /\ Tell(c, "attached")
    <3>1. debuggee' = "attached"
      BY <1>4, <2>1, <2>2 DEF Attach, Tell
    <3> QED BY <2>1, <2>2, <3>1, Returns DEF Reached
  <2>3. CASE Tell(c, "other")
    BY <2>1, <2>3, Returns
  <2> QED BY <1>4, <2>2, <2>3 DEF Attach
<1>5. CASE Stop(c)
  <2>1. CASE Proceed(c)
    BY <1>5, <2>1, Proceeds DEF Stop
  <2>2. CASE Tell(c, "other")
    BY <1>5, <2>2, Busy, Returns DEF Stop, IInv
  <2> QED BY <1>5, <2>1, <2>2 DEF Stop
<1>6. CASE Lock(c)
  BY <1>6, Proceeds, Throws DEF Lock
<1>7. CASE Put(c)
  BY <1>7, Proceeds, Throws DEF Put
<1>8. CASE Unlock(c)
  BY <1>8, Proceeds DEF Unlock
<1>9. CASE Stateless(c)
  <2>1. /\ overlap' = overlap /\ sessionType' = "stateless"
        /\ doing[c] # "nothing"
    BY <1>9, Busy DEF Stateless, IInv
  <2>2. CASE Tell(c, "stopped") \/ Tell(c, "updated")
    BY <2>1, <2>2, Returns
  <2>3. CASE doing[c] # "Stop" /\ ~ failed[c] /\ Proceed(c)
    <3>1. todo[c] = <<"stateless", "verify">>
      BY <1>9, <2>3, OtherStage DEF Stateless, IInv
    <3>2. /\ Tail(todo[c]) = <<"verify">> /\ <<"verify">> \in Seq(Steps)
          /\ <<"verify">> # << >> /\ Head(<<"verify">>) = "verify"
      BY <3>1 DEF Steps
    <3>3. doing' = doing /\ todo' = [todo EXCEPT ![c] = <<"verify">>]
      BY <2>3, <3>2 DEF Proceed
    <3> QED BY <2>1, <3>2, <3>3, GoesOn
  <2> QED BY <1>9, <2>2, <2>3 DEF Stateless
<1>10. CASE Verify(c)
  <2>1. /\ overlap' = overlap /\ doing[c] # "nothing"
        /\ sessionType' = sessionType /\ sessionType = "stateless"
    BY <1>10, Busy DEF Verify, Calm, IInv
  <2> QED BY <1>10, <2>1, Returns DEF Verify
<1> QED BY <1>1, <1>2, <1>3, <1>4, <1>5, <1>6, <1>7, <1>8, <1>9, <1>10 DEF Work

\* And so does every other step.
LEMMA CalmStep ==
  ASSUME IInv, Calm, [Next]_vars
  PROVE  Calm'
<1>1. overlap' = overlap
  BY DEF Next, Captured, Begin, Work, Listen, Caught, NotCaught, Attach, Stop,
         NoListener, Step, Inspect, Lock, Put, Unlock, Stateless, Verify,
         Restore, vars
<1> SUFFICES ASSUME ~ overlap PROVE Calm'
  BY <1>1 DEF Calm
<1>2. CASE UNCHANGED vars
  BY <1>2 DEF Calm, AnsweredStateless, AttachedIsReached, Reached, Quiet, Awaits, vars,
              calls, sap
<1>3. CASE Captured
  BY <1>3 DEF Calm, AnsweredStateless, AttachedIsReached, Reached, Quiet, Awaits,
              Captured, calls
<1>4. ASSUME NEW c \in Callers, Begin(c) PROVE Calm'
  <2>1. PICK tool \in Tools : /\ doing' = [doing EXCEPT ![c] = tool]
                              /\ todo' = [todo EXCEPT ![c] = Handler(tool)]
    BY <1>4 DEF Begin
  <2>2. \A d \in Callers : doing[d] = "nothing" /\ todo[d] = << >>
    BY <1>4 DEF Begin, IInv, WellFormed, Stages
  <2>3. Head(Handler(tool)) \notin {"verify", "await", "attach"}
    BY DEF Tools, Handler, Listening, Stopping, Stepping, Inspecting, Restoring,
           Updating
  <2>4. /\ doing'[c] # "nothing" /\ todo'[c] = Handler(tool)
        /\ \A d \in Callers \ {c} : doing'[d] = "nothing" /\ todo'[d] = << >>
    BY <2>1, <2>2 DEF IInv, WellFormed, Tools
  <2>5. ~ Quiet'
    BY <2>4 DEF Quiet
  <2> QED
    BY <2>3, <2>4, <2>5 DEF Calm, AnsweredStateless, AttachedIsReached, Awaits
<1>5. CASE \E c \in Callers : Work(c)
  BY <1>5, WorkCalm
<1> QED BY <1>2, <1>3, <1>4, <1>5 DEF Next

-----------------------------------------------------------------------------
(* UpdateInclude, whatever overlaps with it.                               *)

\* Has c set the connection stateful for its lock, and not yet set it back?
InSection(c) ==
  /\ doing[c] = "UpdateInclude"
  /\ Awaits(c, "put") \/ Awaits(c, "unlock") \/ Awaits(c, "stateless")

Pinning == pinned => \E c \in Callers : InSection(c)

\* A step of the section stays in it, and setting the session type back ends it.
LEMMA SectionStep ==
  ASSUME IInv, NEW c \in Callers, Lock(c) \/ Put(c) \/ Unlock(c)
  PROVE  InSection(c)'
<1>1. PICK step \in {"lock", "put", "unlock"} : Awaits(c, step)
  BY DEF Lock, Put, Unlock
<1>2. doing[c] = "UpdateInclude"
  BY <1>1, UpdateStage DEF IInv
<1>3. /\ Tail(todo[c]) # << >>
      /\ Head(Tail(todo[c])) \in {"put", "unlock", "stateless"}
  BY <1>1, Follows DEF IInv, After
<1>4. CASE Proceed(c)
  <2>1. doing' = doing /\ todo'[c] = Tail(todo[c])
    BY <1>4 DEF Proceed, IInv, WellFormed
  <2> QED BY <1>2, <1>3, <2>1 DEF InSection, Awaits
<1>5. CASE Throw(c)
  <2>1. doing' = doing /\ todo'[c] = Finally(c)
    BY <1>5 DEF Throw, IInv, WellFormed
  <2>2. /\ Finally(c) # << >>
        /\ Head(Finally(c)) \in {"unlock", "stateless"}
    BY DEF Finally
  <2> QED BY <1>2, <2>1, <2>2 DEF InSection, Awaits
<1> QED BY <1>4, <1>5 DEF Lock, Put, Unlock

LEMMA PinningStep ==
  ASSUME IInv, Pinning, [Next]_vars
  PROVE  Pinning'
<1> SUFFICES ASSUME pinned' PROVE \E c \in Callers : InSection(c)'
  BY DEF Pinning
<1>1. CASE UNCHANGED vars
  BY <1>1 DEF Pinning, InSection, Awaits, vars, calls
<1>2. CASE Captured
  BY <1>2 DEF Pinning, InSection, Awaits, Captured, calls
<1>3. ASSUME NEW d \in Callers, Begin(d) PROVE \E c \in Callers : InSection(c)'
  <2>1. PICK c \in Callers : InSection(c)
    BY <1>3 DEF Pinning, Begin
  <2>2. c # d
    BY <1>3, <2>1 DEF Begin, InSection
  <2>3. doing'[c] = doing[c] /\ todo'[c] = todo[c]
    BY <1>3, <2>2 DEF Begin, IInv, WellFormed
  <2> QED BY <2>1, <2>3 DEF InSection, Awaits
<1>4. ASSUME NEW d \in Callers, Lock(d) \/ Put(d) \/ Unlock(d)
      PROVE  \E c \in Callers : InSection(c)'
  BY <1>4, SectionStep
<1>5. ASSUME NEW d \in Callers, Listen(d) \/ Stateless(d) \/ Restore(d)
      PROVE  FALSE
  BY <1>5 DEF Listen, Stateless, Restore
<1>6. ASSUME NEW d \in Callers,
             \/ Caught(d) \/ NotCaught(d) \/ Attach(d) \/ Stop(d)
             \/ NoListener(d) \/ Step(d) \/ Inspect(d) \/ Verify(d)
      PROVE  \E c \in Callers : InSection(c)'
  <2>1. /\ pinned' = pinned
        /\ \E step \in {"await", "attach", "stop", "step", "inspect", "verify"} :
             Awaits(d, step)
        /\ Proceed(d) \/ \E answer : Tell(d, answer)
    BY <1>6 DEF Caught, NotCaught, Attach, Stop, NoListener, Step, Inspect,
                Verify
  <2>2. PICK c \in Callers : InSection(c)
    BY <2>1 DEF Pinning
  <2>3. c # d
    BY <2>1, <2>2 DEF InSection, Awaits
  <2>4. doing'[c] = doing[c] /\ todo'[c] = todo[c]
    BY <2>1, <2>3 DEF Proceed, Tell, IInv, WellFormed
  <2> QED BY <2>2, <2>4 DEF InSection, Awaits
<1> QED BY <1>1, <1>2, <1>3, <1>4, <1>5, <1>6 DEF Next, Work

-----------------------------------------------------------------------------
(* Calls that do not overlap, and none of UpdateInclude.                   *)

\* Nobody updates an include, and calls do not overlap.
DebuggerAlone ==
  ~ overlap /\ \A c \in Callers : doing[c] # "UpdateInclude"

\* What is attached is within reach, also during a call, and a Stop that is to
\* set the connection stateless has released it.
Within ==
  /\ debuggee = "attached" => sessionType = "stateful"
  /\ \A c \in Callers :
       doing[c] = "Stop" /\ Awaits(c, "stateless") => ~ listener

\* The steps of a call keep the debuggee within reach: only a Stop sets the
\* connection stateless, and by then the listener is gone and the debuggee with
\* it.
LEMMA WorkWithin ==
  ASSUME IInv, DebuggerAlone, Within, NEW c \in Callers, Work(c)
  PROVE  debuggee' = "attached" => sessionType' = "stateful"
<1>1. CASE Listen(c) \/ Caught(c) \/ NotCaught(c) \/ Attach(c)
  BY <1>1 DEF Within, Listen, Caught, NotCaught, Attach
<1>2. CASE Stop(c) \/ NoListener(c) \/ Step(c) \/ Inspect(c)
  BY <1>2 DEF Within, Stop, NoListener, Step, Inspect, sap
<1>3. CASE Lock(c) \/ Put(c) \/ Unlock(c) \/ Verify(c) \/ Restore(c)
  BY <1>3 DEF Within, Lock, Put, Unlock, Verify, Restore, sap
<1>4. CASE Stateless(c)
  <2>1. doing[c] = "Stop" /\ Awaits(c, "stateless")
    BY <1>4, OtherStage DEF IInv, DebuggerAlone, Stateless
  <2>2. debuggee = "running" /\ debuggee' = debuggee
    BY <1>4, <2>1 DEF IInv, HeldByListener, Within, Stateless, sap
  <2> QED BY <2>2
<1> QED BY <1>1, <1>2, <1>3, <1>4 DEF Work

\* A call that has made its request to stop goes on without a listener.
LEMMA StopsWithin ==
  ASSUME IInv, Calm, DebuggerAlone, Within, NEW c \in Callers, Work(c),
         NEW d \in Callers, doing'[d] = "Stop", Awaits(d, "stateless")'
  PROVE  ~ listener'
<1>1. doing[c] # "nothing"
  <2>1. \E step \in Steps : Awaits(c, step)
    BY DEF Work, Listen, Caught, NotCaught, Attach, Stop, NoListener, Step,
           Inspect, Lock, Put, Unlock, Stateless, Verify, Restore, Steps
  <2> QED BY <2>1, Busy DEF IInv
<1>2. todo'[d] # << >> /\ Head(todo'[d]) = "stateless"
  BY DEF Awaits
<1>3. CASE d # c
  <2>1. doing[d] = "nothing" /\ todo[d] = << >>
    BY <1>1, <1>3 DEF Calm, DebuggerAlone, IInv, WellFormed, Stages
  <2>2. \/ \E answer : Tell(c, answer)
        \/ Proceed(c) \/ Throw(c)
    BY DEF Work, Listen, Caught, NotCaught, Attach, Stop, NoListener, Step,
           Inspect, Lock, Put, Unlock, Stateless, Verify, Restore
  <2>3. todo'[d] = todo[d]
    BY <1>3, <2>2 DEF Tell, Proceed, Throw, IInv, WellFormed
  <2> QED BY <1>2, <2>1, <2>3
<1>4. CASE d = c
  <2>1. \A answer : ~ Tell(c, answer)
    BY <1>2, <1>4 DEF Tell, IInv, WellFormed
  <2>2. Proceed(c) \/ Throw(c)
    BY <2>1 DEF Work, Listen, Caught, NotCaught, Attach, Stop, NoListener,
                Step, Inspect, Lock, Put, Unlock, Stateless, Verify, Restore
  <2>3. doing[c] = "Stop"
    BY <1>4, <2>2 DEF Proceed, Throw
  <2>4. ~ Awaits(c, "listen") /\ ~ Awaits(c, "await")
    BY <2>3, OtherStage DEF IInv
  <2>5. /\ ~ Awaits(c, "lock") /\ ~ Awaits(c, "put") /\ ~ Awaits(c, "unlock")
        /\ ~ Awaits(c, "verify")
    BY <2>3, UpdateStage DEF IInv
  <2>6. Stop(c) \/ Stateless(c)
    BY <2>1, <2>4, <2>5
    DEF Work, Listen, Caught, NotCaught, Attach, NoListener, Step, Inspect,
        Lock, Put, Unlock, Verify, Restore
  <2>7. Stop(c) /\ ~ Tell(c, "other")
    BY <2>1, <2>3, <2>6 DEF Stateless
  <2> QED BY <2>7 DEF Stop
<1> QED BY <1>3, <1>4

\* So does every other step.
LEMMA WithinStep ==
  ASSUME IInv, Calm, DebuggerAlone, Within, [Next]_vars
  PROVE  Within'
<1>1. CASE UNCHANGED vars
  BY <1>1 DEF Within, Awaits, vars, calls, sap
<1>2. CASE Captured
  BY <1>2 DEF Within, Awaits, Captured, calls
<1>3. ASSUME NEW c \in Callers, Begin(c) PROVE Within'
  <2>1. PICK tool \in Tools : /\ doing' = [doing EXCEPT ![c] = tool]
                              /\ todo' = [todo EXCEPT ![c] = Handler(tool)]
    BY <1>3 DEF Begin
  <2>2. Head(Handler(tool)) # "stateless"
    BY DEF Tools, Handler, Listening, Stopping, Stepping, Inspecting, Restoring,
           Updating
  <2>3. todo'[c] = Handler(tool) /\ \A d \in Callers \ {c} : todo'[d] = << >>
    BY <1>3, <2>1 DEF Begin, DebuggerAlone, IInv, WellFormed, Stages
  <2>4. UNCHANGED <<sessionType, debuggee>>
    BY <1>3 DEF Begin, sap
  <2> QED BY <2>2, <2>3, <2>4 DEF Within, Awaits
<1>4. ASSUME NEW c \in Callers, Work(c) PROVE Within'
  BY <1>4, WorkWithin, StopsWithin DEF Within
<1> QED BY <1>1, <1>2, <1>3, <1>4 DEF Next

-----------------------------------------------------------------------------
(* Theorems.                                                               *)

\* And so it always holds.
LEMMA AlwaysInvariant == Spec => []IInv
BY Initially, Invariance, PTL DEF Spec

\* The model keeps its types.
THEOREM TypesCorrect == Spec => []TypeOK
BY AlwaysInvariant, PTL DEF IInv

\* However many calls overlap, UpdateInclude leaves an include locked only if
\* its lock or unlock request failed, or another call set the connection
\* stateless while it had the lock.
THEOREM IncludesReleased == Spec => []IncludeReleased
BY AlwaysInvariant, PTL DEF IInv

\* However many calls overlap, a DebuggerStop that answers with success leaves
\* no listener and no debuggee, until somebody listens again.
THEOREM StoppedIsReleased == Spec => []StopReleases
<1>1. IInv => StopReleases
  BY DEF IInv, HeldByListener, StopReleases
<1> QED BY <1>1, AlwaysInvariant, PTL

\* Calm always holds too.
LEMMA AlwaysCalm == Spec => []Calm
<1>1. Init => Calm
  BY DEF Init, Calm, AnsweredStateless, AttachedIsReached, Awaits
<1>2. IInv /\ Calm /\ [Next]_vars => Calm'
  BY CalmStep
<1> QED BY <1>1, <1>2, AlwaysInvariant, PTL DEF Spec

\* However it fails and whatever overlaps with it, UpdateInclude leaves the
\* connection stateful no longer than it is at work; and as long as calls do not
\* overlap, the connection is stateless once UpdateInclude has answered, or a
\* DebuggerStop that was answered for a listener that ran.  A Stop that fails is
\* in neither part (handleDebuggerStop).
THEOREM LeftStateless == Spec => []NotPinned
<1>1. Init => Pinning
  BY DEF Init, Pinning
<1>2. IInv /\ Pinning /\ [Next]_vars => Pinning'
  BY PinningStep
<1>3. Pinning => SetBack
  BY DEF Pinning, SetBack, Quiet, InSection
<1>4. Calm => AnsweredStateless
  BY DEF Calm, AnsweredStateless
<1> QED
  BY <1>1, <1>2, <1>3, <1>4, AlwaysInvariant, AlwaysCalm, PTL DEF Spec, NotPinned

\* As long as calls do not overlap, "attached" means within reach.
THEOREM AttachedMeansReached == Spec => []AttachedIsReached
<1>1. Calm => AttachedIsReached
  BY DEF Calm, AttachedIsReached
<1> QED BY <1>1, AlwaysCalm, PTL

\* "The attach, the stack, the variables and every step must arrive on the same
\* one" is true of the debugger tools themselves, of a low-level tool that is
\* given a session, and of a Stop that fails: an attached debuggee goes out of
\* reach only where calls overlap or an include is updated beside it.
THEOREM AttachedStaysReached ==
  Spec /\ []DebuggerAlone => []StaysReached
<1>1. Init => Within
  BY DEF Init, Within, Awaits
<1>2. IInv /\ Calm /\ DebuggerAlone /\ Within /\ [Next]_vars => Within'
  BY WithinStep
<1>3. Within => StaysReached
  BY DEF Within, StaysReached
<1> QED BY <1>1, <1>2, <1>3, AlwaysInvariant, AlwaysCalm, PTL DEF Spec

=============================================================================
