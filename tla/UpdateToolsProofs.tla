-------------------------- MODULE UpdateToolsProofs --------------------------
(***************************************************************************)
(* Theorems about UpdateTools, for every set of calls, connections,        *)
(* systems and versions.                                                   *)
(***************************************************************************)
EXTENDS UpdateTools, UpdateHandlersProofs, FiniteSetTheorems

-----------------------------------------------------------------------------
(* Types.                                                                  *)

TodoType  == todo \in [Calls -> Seq(Step)]
ReplyType == /\ result \in [Calls -> {"none", "ok", "incomplete", "error"}]
             /\ verified \in [Calls -> {"none", "yes", "no", "differs"}]
LockType  == lock \in [Systems -> LockStates]
WriteType == /\ saved \in [Systems -> Sources]
             /\ revision \in [Systems -> Nat]
             /\ landed \in [Calls -> SUBSET Systems]
OtherType == /\ handle \in [Calls -> BOOLEAN]
             /\ bound \in [Calls -> Connections]
             /\ before \in [Calls -> SUBSET Nat]
             /\ found \in [Calls -> SUBSET Sources]
             /\ active \in [Systems -> Sources]
             /\ unlockFailed \subseteq Calls
FrameType == /\ status \in [Calls -> {"idle", "running", "returned"}]
             /\ args \in [Calls -> Arguments]
             /\ context \in Connections \cup {Nobody}
             /\ critical \in [Connections -> Nat]

\* Where a handler and its client work.
LEMMA Places ==
  ASSUME TypeOK, NEW c \in Calls
  PROVE  /\ bound[c] \in Connections /\ At(c) \in Systems
         /\ ConnOf[c] \in Connections /\ Home(c) \in Systems
  BY ConstantsAssumption DEF TypeOK, At, Home

\* A request that is awaited is the first of those that are left.
LEMMA Awaited ==
  ASSUME TypeOK, NEW c \in Calls, NEW op, Awaits(c, op)
  PROVE  /\ status[c] = "running" /\ todo[c] \in Seq(Step) /\ todo[c] # << >>
         /\ Head(todo[c]) \in Step /\ Head(todo[c]).do = op
         /\ Tail(todo[c]) \in Seq(Step)
  BY HeadTailProperties DEF TypeOK, Awaits

\* However a request ends, the program that is left and the reply keep their
\* types.
LEMMA EndTypes ==
  ASSUME TypeOK, NEW c \in Calls, todo[c] # << >>
  PROVE  /\ Proceed(c) => TodoType'
         /\ Abandon(c) => TodoType' /\ ReplyType'
         /\ Fail(c) => TodoType' /\ ReplyType'
         /\ Unconfirmed(c) => TodoType' /\ ReplyType'
         /\ \A v \in {"yes", "no"} : Verdict(c, v) => TodoType' /\ ReplyType'
         /\ UNCHANGED reply => ReplyType'
<1>1. Tail(todo[c]) \in Seq(Step)
  BY HeadTailProperties DEF TypeOK
<1>2. << >> \in Seq(Step) /\ << May("unlock") >> \in Seq(Step)
  BY StepTypes DEF Ops
<1>3. Proceed(c) => TodoType'
  BY <1>1 DEF Proceed, TypeOK, TodoType
<1>4. Abandon(c) => TodoType'
  BY <1>2 DEF Abandon, TypeOK, TodoType
<1>5. Abandon(c) => ReplyType'
  BY DEF Abandon, TypeOK, ReplyType
<1>6. UNCHANGED reply => ReplyType'
  BY DEF TypeOK, ReplyType, reply
<1>7. Fail(c) => TodoType' /\ ReplyType'
  BY <1>3, <1>4, <1>5, <1>6 DEF Fail
<1>8. Unconfirmed(c) => TodoType' /\ ReplyType'
  BY <1>2 DEF Unconfirmed, TypeOK, TodoType, ReplyType
<1>9. \A v \in {"yes", "no"} : Verdict(c, v) => TodoType' /\ ReplyType'
  BY <1>3 DEF Verdict, TypeOK, ReplyType
<1> QED BY <1>3, <1>4, <1>5, <1>6, <1>7, <1>8, <1>9

\* A lost session changes no more than the `live` of some locks.
LEMMA LockTypes ==
  ASSUME TypeOK, NEW k
  PROVE  /\ SessionAfterFailure(k) => LockType'
         /\ UNCHANGED lock => LockType'
<1>1. Severed(k) \in [Systems -> LockStates]
  <2>1. ASSUME NEW s \in Systems, lock[s].conn = k
        PROVE  [owner |-> lock[s].owner, conn |-> k, live |-> FALSE] \in LockStates
    BY <2>1 DEF TypeOK, LockStates
  <2> QED BY <2>1 DEF Severed, TypeOK
<1> QED BY <1>1 DEF SessionAfterFailure, TypeOK, LockType

\* A write, or none, keeps the types of what it touches.
LEMMA WriteTypes ==
  ASSUME TypeOK
  PROVE  /\ \A c \in Calls, s \in Systems : Write(c, s) => WriteType'
         /\ NoWrite => WriteType'
<1>1. \A c \in Calls : args[c].source \in Sources
  BY DEF TypeOK, Arguments
<1>2. ASSUME NEW c \in Calls, NEW s \in Systems, Write(c, s)
      PROVE  WriteType'
  BY <1>1, <1>2 DEF Write, TypeOK, WriteType
<1>3. NoWrite => WriteType'
  BY DEF NoWrite, written, TypeOK, WriteType
<1> QED BY <1>2, <1>3

\* A request keeps the types, if the group has a context when one is read late.
LEMMA RequestTypes ==
  ASSUME TypeOK, NEW c \in Calls, Request(c), Witness,
         Awaits(c, "stamp") => context \in Connections
  PROVE  TypeOK'
<1>1. held' \subseteq Calls
  BY DEF Witness, TypeOK
<1>2. UNCHANGED frame => FrameType'
  BY DEF TypeOK, frame, FrameType
<1>3. UNCHANGED <<handle, bound, readings, active, unlockFailed>> => OtherType'
  BY DEF TypeOK, OtherType, readings
<1>4. At(c) \in Systems /\ Home(c) \in Systems /\ bound[c] \in Connections
  BY Places
<1>5. (\E op : Awaits(c, op)) => todo[c] # << >>
  BY DEF Awaits
<1> SUFFICES /\ TodoType' /\ ReplyType' /\ LockType' /\ WriteType'
             /\ OtherType' /\ FrameType'
  BY <1>1 DEF TypeOK, TodoType, ReplyType, LockType, WriteType, OtherType,
              FrameType
<1> USE <1>1, <1>2, <1>3, <1>4, <1>5, EndTypes, LockTypes, WriteTypes
<1>10. CASE Ask(c)
  BY <1>10 DEF Ask
<1>11. CASE Probe(c)
  BY <1>11 DEF Probe
<1>12. CASE Check(c)
  BY <1>12 DEF Check
<1>13. CASE Lock(c)
  <2>1. handle' \in [Calls -> BOOLEAN]
    BY <1>13 DEF Lock, TypeOK
  <2>2. OtherType'
    BY <1>13, <2>1 DEF Lock, OtherType, TypeOK, readings
  <2>3. [owner |-> c, conn |-> bound[c], live |-> TRUE] \in LockStates
    BY DEF LockStates
  <2>4. LockType'
    BY <1>13, <2>3 DEF Lock, LockType, TypeOK
  <2> QED BY <1>13, <2>2, <2>4 DEF Lock
<1>14. CASE Put(c)
  BY <1>14 DEF Put
<1>15. CASE Publish(c)
  BY <1>15 DEF Publish
<1>16. CASE Unlock(c)
  <2>1. handle' \in [Calls -> BOOLEAN] /\ unlockFailed' \subseteq Calls
    BY <1>16 DEF Unlock, TypeOK
  <2>2. OtherType'
    BY <1>16, <2>1 DEF Unlock, OtherType, TypeOK, readings
  <2>3. Free \in LockStates
    BY DEF LockStates, Free
  <2>4. LockType'
    BY <1>16, <2>3 DEF Unlock, LockType, TypeOK
  <2> QED BY <1>16, <2>2, <2>4 DEF Unlock
<1>17. Activated(c) => active' \in [Systems -> Sources]
  BY DEF Activated, TypeOK
<1>18. CASE Activate(c)
  <2>1. OtherType'
    BY <1>17, <1>18 DEF Activate, OtherType, TypeOK, readings
  <2> QED BY <1>18, <2>1 DEF Activate
<1>19. CASE ActivateGroup(c)
  <2>1. OtherType'
    BY <1>17, <1>19 DEF ActivateGroup, OtherType, TypeOK, readings
  <2>2. ReplyType'
    BY <1>19 DEF ActivateGroup, ReplyType, TypeOK, reply
  <2> QED BY <1>19, <2>1, <2>2 DEF ActivateGroup
<1>20. CASE ReadBack(c)
  BY <1>20 DEF ReadBack
<1>21. CASE Verify(c)
  BY <1>21 DEF Verify
<1>22. CASE Stamp(c)
  <2>1. {revision[Home(c)]} \in SUBSET Nat
    BY DEF TypeOK
  <2>2. before' \in [Calls -> SUBSET Nat]
    BY <1>22, <2>1 DEF Stamp, TypeOK
  <2>3. bound' \in [Calls -> Connections]
    BY <1>22 DEF Stamp, TypeOK
  <2>4. OtherType'
    BY <1>22, <2>2, <2>3 DEF Stamp, TypeOK, OtherType
  <2> QED BY <1>22, <2>4 DEF Stamp
<1>23. CASE VerifyStamp(c)
  BY <1>23 DEF VerifyStamp
<1>24. CASE FindActive(c)
  <2>1. {active[Home(c)]} \in SUBSET Sources
    BY DEF TypeOK
  <2>2. found' \in [Calls -> SUBSET Sources]
    BY <1>24, <2>1 DEF FindActive, TypeOK
  <2>3. OtherType'
    BY <1>24, <2>2 DEF FindActive, TypeOK, OtherType
  <2> QED BY <1>24, <2>3 DEF FindActive
<1>25. CASE VerifyField(c)
  BY <1>25 DEF VerifyField, Judge
<1> QED BY <1>10, <1>11, <1>12, <1>13, <1>14, <1>15, <1>16, <1>18, <1>19, <1>20,
           <1>21, <1>22, <1>23, <1>24, <1>25 DEF Request

\* So does a call that begins or answers, and a caller that locks by itself.
LEMMA OtherStepTypes ==
  ASSUME TypeOK, Witness,
         \/ \E c \in Calls :
              \/ Begin(c)
              \/ Answer(c) /\ (args[c].surface = "high" => critical[ConnOf[c]] > 0)
         \/ ClientStep
  PROVE  TypeOK'
<1>1. held' \subseteq Calls
  BY DEF Witness, TypeOK
<1>2. UNCHANGED server => LockType' /\ WriteType' /\ active' \in [Systems -> Sources]
  BY DEF server, written, TypeOK, LockType, WriteType
<1>3. ASSUME NEW c \in Calls, Begin(c)
      PROVE  TypeOK'
  <2>1. PICK a \in Requests[c] :
          /\ args' = [args EXCEPT ![c] = a]
          /\ todo' = [todo EXCEPT ![c] = Program(a)]
          /\ \/ /\ context' = ConnOf[c]
                /\ critical' = [critical EXCEPT ![ConnOf[c]] = @ + 1]
             \/ UNCHANGED <<context, critical>>
    BY <1>3 DEF Begin
  <2>2. a \in Arguments /\ a.tool \in Tools
    BY ConstantsAssumption DEF Arguments
  <2>3. Program(a) \in Seq(Step)
    BY <2>2, OrderlyProgram DEF Orderly, Steady
  <2>4. args' \in [Calls -> Arguments] /\ TodoType'
    BY <2>1, <2>2, <2>3 DEF TypeOK, TodoType
  <2>5. /\ status' \in [Calls -> {"idle", "running", "returned"}]
        /\ context' \in Connections \cup {Nobody}
        /\ critical' \in [Connections -> Nat]
    BY <1>3, <2>1, Places DEF Begin, TypeOK
  <2>6. /\ UNCHANGED <<handle, bound, readings, reply, server, unlockFailed>>
    BY <1>3 DEF Begin
  <2> QED BY <1>1, <1>2, <2>4, <2>5, <2>6
          DEF TypeOK, TodoType, LockType, WriteType, readings, reply
<1>4. ASSUME NEW c \in Calls, Answer(c),
             args[c].surface = "high" => critical[ConnOf[c]] > 0
      PROVE  TypeOK'
  <2>1. /\ status' \in [Calls -> {"idle", "running", "returned"}]
        /\ result' \in [Calls -> {"none", "ok", "incomplete", "error"}]
        /\ critical' \in [Connections -> Nat]
    <3>1. /\ status' \in [Calls -> {"idle", "running", "returned"}]
          /\ result' \in [Calls -> {"none", "ok", "incomplete", "error"}]
      BY <1>4 DEF Answer, TypeOK
    <3>2. \/ critical' = critical
          \/ /\ critical[ConnOf[c]] > 0
             /\ critical' = [critical EXCEPT ![ConnOf[c]] = @ - 1]
      BY <1>4 DEF Answer
    <3>3. critical \in [Connections -> Nat] /\ ConnOf[c] \in Connections
      BY Places DEF TypeOK
    <3> QED BY <3>1, <3>2, <3>3
  <2>2. UNCHANGED <<args, todo, handle, bound, readings, verified, context, server,
                    unlockFailed>>
    BY <1>4 DEF Answer
  <2> QED BY <1>1, <1>2, <2>1, <2>2
          DEF TypeOK, LockType, WriteType, readings
<1>5. ASSUME ClientStep
      PROVE  TypeOK'
  <2>1. LockType'
    <3>1. CASE \E k \in Connections : ClientLock(k)
      BY <3>1, ConstantsAssumption DEF ClientLock, TypeOK, LockType, LockStates
    <3>2. CASE \E s \in Systems : ClientUnlock(s)
      BY <3>2 DEF ClientUnlock, TypeOK, LockType, LockStates, Free
    <3> QED BY <1>5, <3>1, <3>2 DEF ClientStep
  <2> QED BY <1>1, <1>5, <2>1
          DEF ClientStep, TypeOK, LockType, local, readings, reply, written
<1> QED BY <1>3, <1>4, <1>5

-----------------------------------------------------------------------------
(* The inductive invariant.                                                *)

\* The calls inside a critical section on a connection.
InSection(k) ==
  {c \in Calls : status[c] = "running" /\ args[c].surface = "high" /\ ConnOf[c] = k}

Counted == \A k \in Connections : critical[k] = Cardinality(InSection(k))

\* The group has a context as soon as one of its calls runs.
HasContext ==
  (\E c \in Calls : status[c] = "running" /\ args[c].surface = "high")
    => context \in Connections

\* What a call has still to do is in order, and takes no lock once its handler
\* may be bound to the connection of another client.
Ordered ==
  \A c \in Calls :
    /\ Orderly(todo[c])
    /\ status[c] # "running" => todo[c] = << >>
    /\ args[c].surface # "high" => Steady(todo[c])
    /\ ~ args[c].ownLock => Uses(todo[c], Plain)
    /\ bound[c] = ConnOf[c] \/ (status[c] # "idle" /\ Uses(todo[c], Plain))

\* A call owns no lock but its object's, taken on its connection, and owns it
\* only until the unlock request it has still to make.
OwnerKnown ==
  \A c \in Calls, s \in Systems :
    lock[s].owner = c =>
      /\ status[c] # "idle" /\ s = Home(c) /\ lock[s].conn = ConnOf[c]
      /\ \/ c \in unlockFailed
         \/ status[c] = "running" /\ handle[c] /\ Ahead(c, {"unlock"})

IInv == /\ TypeOK /\ Counted /\ HasContext /\ Ordered /\ OwnerKnown
        /\ CriticalSectionHolds

-----------------------------------------------------------------------------
(* What a request does to a program and to the locks.                      *)

\* What is left of the program of c after a request.
Leaves(c) ==
  \/ todo' = [todo EXCEPT ![c] = Tail(@)]
  \/ /\ todo' = [todo EXCEPT ![c] = << >>]
     /\ Head(todo[c]).do \in Reads \/ ~ (handle[c] /\ Ahead(c, {"unlock"}))
  \/ /\ todo' = [todo EXCEPT ![c] = << May("unlock") >>]
     /\ handle[c] /\ Ahead(c, {"unlock"})

\* No request but a lock or an unlock request touches who owns what.
Keeps(c) ==
  /\ Head(todo[c]).do # "unlock"
  /\ UNCHANGED <<handle, unlockFailed>>
  /\ lock' = lock \/ \E k : critical[k] = 0 /\ lock' = Severed(k)

Takes(c) ==
  /\ Head(todo[c]).do = "lock" /\ lock[At(c)] = Free
  /\ lock' = [lock EXCEPT ![At(c)] = [owner |-> c, conn |-> bound[c], live |-> TRUE]]
  /\ handle' = [handle EXCEPT ![c] = TRUE]
  /\ todo' = [todo EXCEPT ![c] = Tail(@)]
  /\ UNCHANGED unlockFailed

Releases(c) ==
  /\ Head(todo[c]).do = "unlock" /\ HoldsLock(c)
  /\ lock' = [lock EXCEPT ![At(c)] = Free]
  /\ todo' = [todo EXCEPT ![c] = Tail(@)]
  /\ UNCHANGED unlockFailed

FailsToRelease(c) ==
  /\ unlockFailed' = unlockFailed \cup {c}
  /\ lock' = lock \/ \E k : critical[k] = 0 /\ lock' = Severed(k)

\* However a request ends, it leaves a part of the program.
LEMMA Ends ==
  ASSUME NEW c \in Calls
  PROVE  /\ Proceed(c) => Leaves(c)
         /\ Abandon(c) => Leaves(c)
         /\ Fail(c) => Leaves(c)
         /\ \A v : Verdict(c, v) => Leaves(c)
         /\ Unconfirmed(c) /\ Head(todo[c]).do \in Reads => Leaves(c)
  BY DEF Proceed, Abandon, Fail, Verdict, Unconfirmed, Leaves

\* What every request has in common.
LEMMA RequestShape ==
  ASSUME TypeOK, NEW c \in Calls, Request(c)
  PROVE  /\ status[c] = "running" /\ todo[c] # << >>
         /\ UNCHANGED frame
         /\ Leaves(c)
         /\ \/ UNCHANGED bound
            \/ Head(todo[c]).do = "stamp" /\ bound' = [bound EXCEPT ![c] = context]
         /\ handle' = [handle EXCEPT ![c] = handle'[c]]
         /\ Keeps(c) \/ Takes(c) \/ Releases(c) \/ FailsToRelease(c)
<1> USE Ends DEF Awaits, Keeps, SessionAfterFailure, Reads
<1>1. UNCHANGED handle => handle' = [handle EXCEPT ![c] = handle'[c]]
  BY DEF TypeOK
<1> USE <1>1
<1>10. CASE Ask(c)
  BY <1>10 DEF Ask
<1>11. CASE Probe(c)
  BY <1>11 DEF Probe
<1>12. CASE Check(c)
  BY <1>12 DEF Check
<1>13. CASE Lock(c)
  <2>1. handle' = [handle EXCEPT ![c] = handle'[c]]
    BY <1>13 DEF Lock, TypeOK
  <2> QED BY <1>13, <2>1 DEF Lock, Takes, Proceed
<1>14. CASE Put(c)
  BY <1>14 DEF Put
<1>15. CASE Publish(c)
  BY <1>15 DEF Publish
<1>16. CASE Unlock(c)
  <2>1. handle' = [handle EXCEPT ![c] = handle'[c]]
    BY <1>16 DEF Unlock, TypeOK
  <2> QED BY <1>16, <2>1 DEF Unlock, Releases, Proceed,
                             FailsToRelease
<1>17. CASE Activate(c)
  BY <1>17 DEF Activate
<1>18. CASE ActivateGroup(c)
  BY <1>18 DEF ActivateGroup
<1>19. CASE ReadBack(c)
  BY <1>19 DEF ReadBack
<1>20. CASE Verify(c)
  BY <1>20 DEF Verify
<1>21. CASE Stamp(c)
  BY <1>21 DEF Stamp
<1>22. CASE VerifyStamp(c)
  BY <1>22 DEF VerifyStamp
<1>23. CASE FindActive(c)
  BY <1>23 DEF FindActive
<1>24. CASE VerifyField(c)
  BY <1>24 DEF VerifyField, Judge
<1> QED BY <1>10, <1>11, <1>12, <1>13, <1>14, <1>15, <1>16, <1>17, <1>18, <1>19,
           <1>20, <1>21, <1>22, <1>23, <1>24 DEF Request

-----------------------------------------------------------------------------
(* The invariant holds at first and is kept by every step.                 *)

\* An empty program is in order.
LEMMA EmptyProgram == Orderly(<< >>) /\ Steady(<< >>) /\ Uses(<< >>, Plain)
  BY UsesNone, SteadyPlain DEF Orderly

\* A call awaits its lock or unlock request only while it works on its own
\* connection, under a lock of its own.
LEMMA AtHome ==
  ASSUME IInv, NEW c \in Calls, todo[c] # << >>,
         Head(todo[c]).do \in {"lock", "unlock"}
  PROVE  /\ bound[c] = ConnOf[c] /\ At(c) = Home(c)
         /\ Presented(c) = c
         /\ Steady(todo[c])
<1>1. Orderly(todo[c]) /\ todo[c] \in Seq(Step)
  BY DEF IInv, Ordered, TypeOK
<1>2. Head(todo[c]) = todo[c][1] /\ 1 \in 1 .. Len(todo[c])
  BY <1>1, EmptySeq, LenProperties
<1>3. ~ Uses(todo[c], Plain)
  BY <1>2 DEF Uses, Plain
<1>4. bound[c] = ConnOf[c] /\ args[c].ownLock
  BY <1>3 DEF IInv, Ordered
<1>5. Steady(todo[c])
  BY <1>1 DEF Orderly
<1> QED BY <1>4, <1>5 DEF At, Home, Presented

\* At the start no call runs and no lock is taken.
LEMMA InitInvariant ==
  ASSUME Init
  PROVE  IInv
<1>1. NoArguments \in Arguments
  BY ConstantsAssumption
  DEF NoArguments, Arguments, Possible, CompactTools, Tools, SOURCE_WRITE_TOOLS
<1>2. Free \in LockStates
  BY DEF Free, LockStates
<1>3. << >> \in Seq(Step)
  OBVIOUS
<1>4. TypeOK
  BY <1>1, <1>2, <1>3, ConstantsAssumption DEF Init, TypeOK
<1>5. Counted
  <2>1. ASSUME NEW k \in Connections
        PROVE  critical[k] = Cardinality(InSection(k))
    <3>1. InSection(k) = {}
      BY DEF Init, InSection
    <3> QED BY <3>1, FS_EmptySet DEF Init
  <2> QED BY <2>1 DEF Counted
<1>6. HasContext
  BY DEF Init, HasContext
<1>7. Ordered
  BY EmptyProgram DEF Init, Ordered
<1>8. \A s \in Systems : lock[s].owner \notin Calls
  BY ConstantsAssumption DEF Init, Free
<1> QED BY <1>4, <1>5, <1>6, <1>7, <1>8 DEF IInv, OwnerKnown, CriticalSectionHolds

\* The sets of calls in a critical section are finite.
LEMMA SectionsFinite == \A k : IsFiniteSet(InSection(k))
<1>1. \A k : InSection(k) \subseteq Calls
  BY DEF InSection
<1> QED BY <1>1, FS_Subset, ConstantsAssumption

\* A connection with a running high-level call is in a critical section.
LEMMA Inside ==
  ASSUME IInv, NEW c \in Calls, status[c] = "running", args[c].surface = "high"
  PROVE  critical[ConnOf[c]] # 0 /\ critical[ConnOf[c]] \in Nat
<1>1. c \in InSection(ConnOf[c]) /\ ConnOf[c] \in Connections
  BY ConstantsAssumption DEF InSection
<1>2. Cardinality(InSection(ConnOf[c])) # 0
  BY <1>1, SectionsFinite, FS_EmptySet
<1> QED BY <1>1, <1>2 DEF IInv, Counted, TypeOK

\* A call that begins joins the critical section of its connection, and its
\* program is in order.
LEMMA BeginInvariant ==
  ASSUME IInv, NEW c \in Calls, Begin(c), Witness
  PROVE  IInv'
<1>1. PICK a \in Requests[c] :
        /\ args' = [args EXCEPT ![c] = a]
        /\ todo' = [todo EXCEPT ![c] = Program(a)]
        /\ IF a.surface = "high"
             THEN /\ context' = ConnOf[c]
                  /\ critical' = [critical EXCEPT ![ConnOf[c]] = @ + 1]
             ELSE UNCHANGED <<context, critical>>
  BY DEF Begin
<1>2. a \in Arguments /\ a.tool \in Tools /\ Possible(a) /\ ConnOf[c] \in Connections
  BY ConstantsAssumption DEF Arguments
<1>3. /\ status[c] = "idle" /\ status' = [status EXCEPT ![c] = "running"]
      /\ UNCHANGED <<handle, bound, lock, unlockFailed>>
  BY DEF Begin, server
<1>4. /\ TypeOK /\ status \in [Calls -> {"idle", "running", "returned"}]
      /\ args \in [Calls -> Arguments] /\ todo \in [Calls -> Seq(Step)]
      /\ critical \in [Connections -> Nat]
  BY DEF IInv, TypeOK
<1>5. TypeOK'
  BY <1>4, OtherStepTypes
<1>6. Counted'
  <2>1. ASSUME NEW k \in Connections
        PROVE  critical'[k] = Cardinality(InSection(k)')
    <3>1. critical[k] = Cardinality(InSection(k)) /\ IsFiniteSet(InSection(k))
      BY SectionsFinite DEF IInv, Counted
    <3>2. CASE a.surface = "high" /\ k = ConnOf[c]
      <4>1. InSection(k)' = InSection(k) \cup {c}
        BY <1>1, <1>3, <1>4, <3>2 DEF InSection
      <4>2. c \notin InSection(k)
        BY <1>3 DEF InSection
      <4>3. Cardinality(InSection(k) \cup {c}) = Cardinality(InSection(k)) + 1
        BY <3>1, <4>2, FS_AddElement
      <4> QED BY <1>1, <1>4, <3>1, <3>2, <4>1, <4>3
    <3>3. CASE ~ (a.surface = "high" /\ k = ConnOf[c])
      <4>1. InSection(k)' = InSection(k)
        BY <1>1, <1>3, <1>4, <3>3 DEF InSection
      <4>2. critical'[k] = critical[k]
        BY <1>1, <1>4, <3>3
      <4> QED BY <3>1, <4>1, <4>2
    <3> QED BY <3>2, <3>3
  <2> QED BY <2>1 DEF Counted
<1>7. HasContext'
  BY <1>1, <1>2, <1>3, <1>4 DEF IInv, HasContext
<1>8. Ordered'
  <2>1. Orderly(Program(a))
    BY <1>2, OrderlyProgram
  <2>2. a.surface # "high" => Steady(Program(a))
    BY <1>2, SteadyHandler DEF Program
  <2>3. ~ a.ownLock => Uses(Program(a), Plain)
    BY <1>2, PassedHandleProgram
  <2>4. bound'[c] = ConnOf[c]
    BY <1>3 DEF IInv, Ordered
  <2>5. todo'[c] = Program(a) /\ args'[c] = a /\ status'[c] = "running"
    BY <1>1, <1>3, <1>4
  <2>6. ASSUME NEW d \in Calls, d # c
        PROVE  /\ todo'[d] = todo[d] /\ args'[d] = args[d]
               /\ status'[d] = status[d] /\ bound'[d] = bound[d]
    BY <1>1, <1>3, <1>4, <2>6
  <2> QED BY <2>1, <2>2, <2>3, <2>4, <2>5, <2>6 DEF IInv, Ordered
<1>9. \A s \in Systems : lock[s].owner # c
  BY <1>3 DEF IInv, OwnerKnown
<1>10. OwnerKnown'
  BY <1>1, <1>3, <1>4, <1>9 DEF IInv, OwnerKnown, Ahead, Home
<1>11. CriticalSectionHolds'
  BY <1>1, <1>3, <1>4, <1>9 DEF IInv, CriticalSectionHolds
<1> QED BY <1>5, <1>6, <1>7, <1>8, <1>10, <1>11 DEF IInv

\* A call that answers leaves the critical section, and has nothing left to do.
LEMMA AnswerInvariant ==
  ASSUME IInv, NEW c \in Calls, Answer(c), Witness
  PROVE  IInv'
<1>1. /\ status[c] = "running" /\ todo[c] = << >>
      /\ status' = [status EXCEPT ![c] = "returned"]
      /\ critical' = IF args[c].surface = "high"
                       THEN [critical EXCEPT ![ConnOf[c]] = @ - 1] ELSE critical
      /\ UNCHANGED <<args, todo, handle, bound, context, lock, unlockFailed>>
  BY DEF Answer, server
<1>2. /\ TypeOK /\ status \in [Calls -> {"idle", "running", "returned"}]
      /\ critical \in [Connections -> Nat]
      /\ ConnOf[c] \in Connections
  BY ConstantsAssumption DEF IInv, TypeOK
<1>3. args[c].surface = "high" => critical[ConnOf[c]] > 0
  BY <1>1, Inside
<1>4. TypeOK'
  BY <1>2, <1>3, OtherStepTypes
<1>5. Counted'
  <2>1. ASSUME NEW k \in Connections
        PROVE  critical'[k] = Cardinality(InSection(k)')
    <3>1. critical[k] = Cardinality(InSection(k)) /\ IsFiniteSet(InSection(k))
      BY SectionsFinite DEF IInv, Counted
    <3>2. CASE args[c].surface = "high" /\ k = ConnOf[c]
      <4>1. InSection(k)' = InSection(k) \ {c}
        BY <1>1, <1>2, <3>2 DEF InSection
      <4>2. c \in InSection(k)
        BY <1>1, <3>2 DEF InSection
      <4>3. Cardinality(InSection(k) \ {c}) = Cardinality(InSection(k)) - 1
        BY <3>1, <4>2, FS_RemoveElement
      <4> QED BY <1>1, <1>2, <3>1, <3>2, <4>1, <4>3
    <3>3. CASE ~ (args[c].surface = "high" /\ k = ConnOf[c])
      <4>1. InSection(k)' = InSection(k)
        BY <1>1, <1>2, <3>3 DEF InSection
      <4>2. critical'[k] = critical[k]
        BY <1>1, <1>2, <3>3
      <4> QED BY <3>1, <4>1, <4>2
    <3> QED BY <3>2, <3>3
  <2> QED BY <2>1 DEF Counted
<1>6. HasContext'
  BY <1>1, <1>2 DEF IInv, HasContext
<1>7. Ordered'
  BY <1>1, <1>2 DEF IInv, Ordered
<1>8. ~ Ahead(c, {"unlock"})
  BY <1>1 DEF Ahead
<1>9. OwnerKnown'
  BY <1>1, <1>2, <1>8 DEF IInv, OwnerKnown, Ahead, Home
<1>10. CriticalSectionHolds'
  BY <1>1, <1>2 DEF IInv, CriticalSectionHolds
<1> QED BY <1>4, <1>5, <1>6, <1>7, <1>9, <1>10 DEF IInv

\* A caller that locks by itself leaves the calls alone.
LEMMA ClientInvariant ==
  ASSUME IInv, ClientStep, Witness
  PROVE  IInv'
<1>1. /\ UNCHANGED <<status, args, todo, handle, bound, context, critical,
                     unlockFailed>>
      /\ \A s \in Systems : lock'[s] = lock[s] \/ lock'[s].owner \notin Calls
  <2>1. lock \in [Systems -> LockStates]
    BY DEF IInv, TypeOK
  <2>2. CASE \E k \in Connections : ClientLock(k)
    <3>1. PICK k \in Connections : ClientLock(k)
      BY <2>2
    <3> QED BY <2>1, <3>1, ConstantsAssumption DEF ClientStep, ClientLock, local
  <2>3. CASE \E s \in Systems : ClientUnlock(s)
    BY <2>1, <2>3, ConstantsAssumption DEF ClientStep, ClientUnlock, Free, local
  <2> QED BY <2>2, <2>3 DEF ClientStep
<1>2. TypeOK'
  BY OtherStepTypes DEF IInv
<1>3. Counted' /\ HasContext' /\ Ordered'
  BY <1>1 DEF IInv, Counted, InSection, HasContext, Ordered
<1>4. OwnerKnown'
  BY <1>1 DEF IInv, OwnerKnown, Ahead, Home
<1>5. CriticalSectionHolds'
  BY <1>1 DEF IInv, CriticalSectionHolds
<1> QED BY <1>2, <1>3, <1>4, <1>5 DEF IInv

\* Whatever is left of a program in order is in order.
LEMMA LeftInOrder ==
  ASSUME IInv, NEW c \in Calls, todo[c] # << >>, Leaves(c)
  PROVE  /\ \A d \in Calls : d # c => todo'[d] = todo[d]
         /\ Orderly(todo'[c])
         /\ Steady(todo[c]) => Steady(todo'[c])
         /\ Uses(todo[c], Plain) => Uses(todo'[c], Plain)
         /\ Head(todo[c]).do = "stamp" => Uses(todo'[c], Plain)
<1>1. /\ todo \in [Calls -> Seq(Step)] /\ Orderly(todo[c])
  BY DEF IInv, TypeOK, Ordered
<1>2. /\ Head(todo[c]) = todo[c][1] /\ 1 \in 1 .. Len(todo[c])
      /\ Tail(todo[c]) \in Seq(Step) /\ Len(Tail(todo[c])) = Len(todo[c]) - 1
      /\ \A i \in 1 .. Len(Tail(todo[c])) : Tail(todo[c])[i] = todo[c][i + 1]
      /\ Len(todo[c]) \in Nat
  BY <1>1, EmptySeq, LenProperties, HeadTailProperties
<1>3. Steady(todo[c]) => Head(todo[c]).do # "stamp"
  BY <1>2 DEF Steady
<1>4. CASE todo' = [todo EXCEPT ![c] = Tail(@)]
  <2>1. todo'[c] = Tail(todo[c])
    BY <1>1, <1>4
  <2>2. Steady(todo[c]) => Steady(Tail(todo[c]))
    BY SteadyTail
  <2>3. Uses(todo[c], Plain) => Uses(Tail(todo[c]), Plain)
    BY <1>2 DEF Uses
  <2>4. ~ Steady(todo[c]) => Uses(Tail(todo[c]), Plain)
    BY <1>1 DEF Orderly
  <2>5. Uses(Tail(todo[c]), Plain) => Steady(Tail(todo[c]))
    BY SteadyPlain
  <2>6. Orderly(Tail(todo[c]))
    BY <2>2, <2>4, <2>5 DEF Orderly
  <2> QED BY <1>1, <1>3, <1>4, <2>1, <2>2, <2>3, <2>4, <2>6
<1>5. CASE todo' = [todo EXCEPT ![c] = << >>]
  <2>1. todo'[c] = << >>
    BY <1>1, <1>5
  <2> QED BY <1>1, <1>5, <2>1, EmptyProgram
<1>6. CASE /\ todo' = [todo EXCEPT ![c] = << May("unlock") >>]
           /\ handle[c] /\ Ahead(c, {"unlock"})
  <2>1. todo'[c] = << May("unlock") >>
    BY <1>1, <1>6
  <2>2. May("unlock") \in Step /\ May("unlock").do = "unlock"
    BY StepTypes DEF Ops
  <2>3. Steady(<< May("unlock") >>)
    BY <2>2 DEF Steady, Reads
  <2>4. PICK i \in DOMAIN todo[c] : todo[c][i].do = "unlock"
    BY <1>6 DEF Ahead
  <2>5. i \in 1 .. Len(todo[c])
    BY <1>1, <2>4, LenProperties
  <2>6. ~ Uses(todo[c], Plain)
    BY <2>4, <2>5 DEF Uses, Plain
  <2>7. Head(todo[c]).do # "stamp"
    <3>1. CASE Steady(todo[c])
      BY <1>3, <3>1
    <3>2. CASE Uses(Tail(todo[c]), Plain) /\ Head(todo[c]).do = "stamp"
      <4>1. i # 1
        BY <1>2, <2>4, <3>2
      <4>2. i - 1 \in 1 .. Len(Tail(todo[c])) /\ Tail(todo[c])[i - 1] = todo[c][i]
        BY <1>2, <2>5, <4>1
      <4>3. todo[c][i].do \in Plain
        BY <3>2, <4>2 DEF Uses
      <4> QED BY <2>4, <4>3 DEF Plain
    <3> QED BY <1>1, <3>1, <3>2 DEF Orderly
  <2> QED BY <1>1, <1>6, <2>1, <2>3, <2>6, <2>7 DEF Orderly
<1> QED BY <1>4, <1>5, <1>6 DEF Leaves

\* A request other than the unlock request leaves the unlock request of a call
\* that has taken its lock ahead.
LEMMA UnlockStaysAhead ==
  ASSUME IInv, NEW c \in Calls, todo[c] # << >>, Leaves(c),
         Head(todo[c]).do # "unlock", handle[c], Ahead(c, {"unlock"})
  PROVE  Ahead(c, {"unlock"})'
<1>1. /\ todo \in [Calls -> Seq(Step)] /\ Orderly(todo[c])
  BY DEF IInv, TypeOK, Ordered
<1>2. /\ Head(todo[c]) = todo[c][1] /\ 1 \in 1 .. Len(todo[c])
      /\ Tail(todo[c]) \in Seq(Step) /\ Len(Tail(todo[c])) = Len(todo[c]) - 1
      /\ \A i \in 1 .. Len(Tail(todo[c])) : Tail(todo[c])[i] = todo[c][i + 1]
      /\ Len(todo[c]) \in Nat
      /\ DOMAIN Tail(todo[c]) = 1 .. Len(Tail(todo[c]))
  BY <1>1, EmptySeq, LenProperties, HeadTailProperties
<1>3. PICK i \in 1 .. Len(todo[c]) : todo[c][i].do = "unlock"
  BY <1>1, LenProperties DEF Ahead
<1>4. i - 1 \in 1 .. Len(Tail(todo[c])) /\ Tail(todo[c])[i - 1] = todo[c][i]
  BY <1>2, <1>3
<1>5. CASE todo' = [todo EXCEPT ![c] = Tail(@)]
  <2>1. todo'[c] = Tail(todo[c])
    BY <1>1, <1>5
  <2>2. Tail(todo[c])[i - 1].do = "unlock"
    BY <1>3, <1>4
  <2>3. \E j \in DOMAIN Tail(todo[c]) : Tail(todo[c])[j].do \in {"unlock"}
    BY <1>2, <1>4, <2>2
  <2> QED BY <2>1, <2>3 DEF Ahead
<1>6. Head(todo[c]).do \notin Reads
  <2>1. CASE Steady(todo[c])
    <3>1. i \in 1 + 1 .. Len(todo[c])
      BY <1>2, <1>3
    <3> QED BY <1>2, <1>3, <2>1, <3>1 DEF Steady
  <2>2. CASE Head(todo[c]).do = "stamp"
    BY <2>2 DEF Reads
  <2> QED BY <1>1, <2>1, <2>2 DEF Orderly
<1>7. CASE todo' = [todo EXCEPT ![c] = << May("unlock") >>]
  <2>1. todo'[c] = << May("unlock") >> /\ May("unlock").do = "unlock"
    BY <1>1, <1>7 DEF May
  <2>2. 1 \in DOMAIN todo'[c] /\ todo'[c][1].do = "unlock"
    BY <2>1
  <2> QED BY <2>2 DEF Ahead
<1> QED BY <1>5, <1>6, <1>7 DEF Leaves

\* No lock changes its owner, and none of a running high-level call changes.
OwnersStay ==
  \A s \in Systems :
    /\ lock'[s].owner = lock[s].owner /\ lock'[s].conn = lock[s].conn
    /\ \A d \in Calls :
         /\ lock[s].owner = d
         /\ status[d] = "running" /\ args[d].surface = "high"
         => lock'[s] = lock[s]

\* A lost session changes no owner, and orphans no lock of a running call of
\* the high-level tools.
LEMMA SeveredLocks ==
  ASSUME IInv, lock' = lock \/ \E k : critical[k] = 0 /\ lock' = Severed(k)
  PROVE  OwnersStay
<1>1. CASE lock' = lock
  BY <1>1 DEF OwnersStay
<1>2. ASSUME NEW k, critical[k] = 0, lock' = Severed(k), NEW s \in Systems
      PROVE  /\ lock'[s].owner = lock[s].owner /\ lock'[s].conn = lock[s].conn
             /\ \A d \in Calls :
                  /\ lock[s].owner = d
                  /\ status[d] = "running" /\ args[d].surface = "high"
                  => lock'[s] = lock[s]
  <2>1. /\ lock \in [Systems -> LockStates]
        /\ lock'[s] = IF lock[s].conn = k
                        THEN [owner |-> lock[s].owner, conn |-> k, live |-> FALSE]
                        ELSE lock[s]
    BY <1>2 DEF IInv, TypeOK, Severed
  <2>2. ASSUME NEW d \in Calls, lock[s].owner = d, status[d] = "running",
               args[d].surface = "high"
        PROVE  lock[s].conn # k
    BY <1>2, <2>2, Inside DEF IInv, OwnerKnown
  <2> QED BY <2>1, <2>2
<1> QED BY <1>1, <1>2 DEF OwnersStay

\* An answered request keeps the programs in order, the locks with their owners
\* and the unlock requests ahead.
LEMMA RequestInvariant ==
  ASSUME IInv, NEW c \in Calls, Request(c), Witness
  PROVE  IInv'
<1>1. /\ status[c] = "running" /\ todo[c] # << >>
      /\ UNCHANGED <<status, args, context, critical>>
      /\ Leaves(c)
      /\ \/ UNCHANGED bound
         \/ Head(todo[c]).do = "stamp" /\ bound' = [bound EXCEPT ![c] = context]
      /\ handle' = [handle EXCEPT ![c] = handle'[c]]
      /\ Keeps(c) \/ Takes(c) \/ Releases(c) \/ FailsToRelease(c)
  <2>1. TypeOK
    BY DEF IInv
  <2>2. UNCHANGED frame
    BY <2>1, RequestShape
  <2>3. UNCHANGED <<status, args, context, critical>>
    BY <2>2 DEF frame
  <2> QED BY <2>1, <2>3, RequestShape
<1>2. /\ TypeOK /\ todo \in [Calls -> Seq(Step)] /\ handle \in [Calls -> BOOLEAN]
      /\ bound \in [Calls -> Connections] /\ lock \in [Systems -> LockStates]
      /\ unlockFailed \subseteq Calls /\ Orderly(todo[c])
  BY DEF IInv, TypeOK, Ordered
<1>3. TypeOK'
  <2>1. ASSUME Awaits(c, "stamp")
        PROVE  args[c].surface = "high"
    <3>1. Head(todo[c]) = todo[c][1] /\ 1 \in 1 .. Len(todo[c])
      BY <1>1, <1>2, EmptySeq, LenProperties
    <3>2. ~ Steady(todo[c])
      BY <2>1, <3>1 DEF Awaits, Steady
    <3> QED BY <3>2 DEF IInv, Ordered
  <2>2. Awaits(c, "stamp") => context \in Connections
    BY <1>1, <2>1 DEF IInv, HasContext
  <2> QED BY <1>2, <2>2, RequestTypes
<1>4. Counted' /\ HasContext'
  BY <1>1 DEF IInv, Counted, InSection, HasContext
<1>5. /\ \A d \in Calls : d # c => todo'[d] = todo[d]
      /\ Orderly(todo'[c])
      /\ Steady(todo[c]) => Steady(todo'[c])
      /\ Uses(todo[c], Plain) => Uses(todo'[c], Plain)
      /\ Head(todo[c]).do = "stamp" => Uses(todo'[c], Plain)
  BY <1>1, LeftInOrder
<1>6. \A d \in Calls : d # c => bound'[d] = bound[d] /\ handle'[d] = handle[d]
  BY <1>1, <1>2
<1>7. Ordered'
  <2>1. bound'[c] = bound[c] \/ Uses(todo'[c], Plain)
    BY <1>1, <1>5
  <2> QED BY <1>1, <1>5, <1>6, <2>1 DEF IInv, Ordered
<1>8. \A d \in Calls : d # c => (Ahead(d, {"unlock"}) => Ahead(d, {"unlock"})')
  BY <1>5 DEF Ahead
<1>9. CASE Keeps(c)
  <2>1. OwnersStay
    BY <1>9, SeveredLocks DEF Keeps
  <2>2. handle[c] /\ Ahead(c, {"unlock"}) => handle'[c] /\ Ahead(c, {"unlock"})'
    BY <1>1, <1>9, UnlockStaysAhead DEF Keeps
  <2>3. OwnerKnown'
    BY <1>1, <1>6, <1>8, <1>9, <2>1, <2>2
    DEF IInv, OwnerKnown, OwnersStay, Keeps, Home
  <2>4. CriticalSectionHolds'
    BY <1>1, <1>9, <2>1 DEF IInv, CriticalSectionHolds, OwnersStay, Keeps
  <2> QED BY <1>3, <1>4, <1>7, <2>3, <2>4 DEF IInv
<1>10. CASE Takes(c)
  <2>1. bound[c] = ConnOf[c] /\ At(c) = Home(c) /\ Steady(todo[c])
    BY <1>1, <1>10, AtHome DEF Takes
  <2>2. At(c) \in Systems
    BY <1>2, Places
  <2>3. /\ lock'[At(c)] = [owner |-> c, conn |-> bound[c], live |-> TRUE]
        /\ \A s \in Systems : s # At(c) => lock'[s] = lock[s]
        /\ lock[At(c)].owner \notin Calls
    BY <1>2, <1>10, <2>2, ConstantsAssumption DEF Takes, Free
  <2>4. handle'[c] /\ Ahead(c, {"unlock"})'
    <3>1. /\ Head(todo[c]) = todo[c][1] /\ 1 \in 1 .. Len(todo[c])
          /\ Tail(todo[c]) \in Seq(Step) /\ Len(Tail(todo[c])) = Len(todo[c]) - 1
          /\ \A i \in 1 .. Len(Tail(todo[c])) : Tail(todo[c])[i] = todo[c][i + 1]
          /\ Len(todo[c]) \in Nat
          /\ DOMAIN Tail(todo[c]) = 1 .. Len(Tail(todo[c]))
      BY <1>1, <1>2, EmptySeq, LenProperties, HeadTailProperties
    <3>2. PICK i \in 1 + 1 .. Len(todo[c]) : todo[c][i].do = "unlock"
      BY <1>10, <2>1, <3>1 DEF Takes, Steady
    <3>3. i - 1 \in 1 .. Len(Tail(todo[c])) /\ Tail(todo[c])[i - 1] = todo[c][i]
      BY <3>1, <3>2
    <3>4. todo'[c] = Tail(todo[c]) /\ handle'[c]
      BY <1>2, <1>10 DEF Takes
    <3> QED BY <3>1, <3>2, <3>3, <3>4 DEF Ahead
  <2>5. \A s \in Systems : lock[s].owner = c => s = At(c)
    BY <2>1 DEF IInv, OwnerKnown
  <2>6. OwnerKnown'
    BY <1>1, <1>6, <1>8, <1>10, <2>1, <2>2, <2>3, <2>4, <2>5
    DEF IInv, OwnerKnown, Takes, Home
  <2>7. CriticalSectionHolds'
    BY <1>1, <1>10, <2>3 DEF IInv, CriticalSectionHolds, Takes
  <2> QED BY <1>3, <1>4, <1>7, <2>6, <2>7 DEF IInv
<1>11. CASE Releases(c)
  <2>1. At(c) = Home(c) /\ At(c) \in Systems
    BY <1>1, <1>2, <1>11, AtHome, Places DEF Releases
  <2>2. /\ lock'[At(c)].owner \notin Calls
        /\ \A s \in Systems : s # At(c) => lock'[s] = lock[s]
    BY <1>2, <1>11, <2>1, ConstantsAssumption DEF Releases, Free
  <2>3. \A s \in Systems : lock[s].owner = c => s = At(c)
    BY <2>1 DEF IInv, OwnerKnown
  <2>4. OwnerKnown'
    BY <1>1, <1>6, <1>8, <1>11, <2>2, <2>3 DEF IInv, OwnerKnown, Releases, Home
  <2>5. CriticalSectionHolds'
    BY <1>1, <1>11, <2>2 DEF IInv, CriticalSectionHolds, Releases
  <2> QED BY <1>3, <1>4, <1>7, <2>4, <2>5 DEF IInv
<1>12. CASE FailsToRelease(c)
  <2>1. OwnersStay
    BY <1>12, SeveredLocks DEF FailsToRelease
  <2>2. OwnerKnown'
    BY <1>1, <1>6, <1>8, <1>12, <2>1
    DEF IInv, OwnerKnown, OwnersStay, FailsToRelease, Home
  <2>3. CriticalSectionHolds'
    BY <1>1, <1>12, <2>1
    DEF IInv, CriticalSectionHolds, OwnersStay, FailsToRelease
  <2> QED BY <1>3, <1>4, <1>7, <2>2, <2>3 DEF IInv
<1> QED BY <1>1, <1>9, <1>10, <1>11, <1>12

\* Every step keeps the invariant.
LEMMA StepInvariant ==
  ASSUME IInv, [Next]_vars
  PROVE  IInv'
<1>1. CASE \E c \in Calls : CallStep(c)
  BY <1>1, BeginInvariant, RequestInvariant, AnswerInvariant DEF CallStep
<1>2. CASE ClientStep /\ Witness
  BY <1>2, ClientInvariant
<1>3. CASE UNCHANGED vars
  <2>1. UNCHANGED <<status, args, todo, handle, bound, context, critical, lock,
                    unlockFailed>>
    BY <1>3 DEF vars, local, server
  <2>2. TypeOK'
    BY <1>3 DEF IInv, TypeOK, vars, local, readings, reply, server, written
  <2>3. Counted' /\ HasContext' /\ Ordered'
    BY <2>1 DEF IInv, Counted, InSection, HasContext, Ordered
  <2>4. OwnerKnown' /\ CriticalSectionHolds'
    BY <2>1 DEF IInv, OwnerKnown, CriticalSectionHolds, Ahead, Home
  <2> QED BY <2>2, <2>3, <2>4 DEF IInv
<1> QED BY <1>1, <1>2, <1>3 DEF Next

-----------------------------------------------------------------------------
(* Theorems.                                                               *)

\* The strengthened invariant holds in every reachable state.
THEOREM Invariance == Spec => []IInv
<1>1. Init => IInv
  BY InitInvariant
<1>2. IInv /\ [Next]_vars => IInv'
  BY StepInvariant
<1> QED BY <1>1, <1>2, PTL DEF Spec

\* The variables keep their types, whatever the interleaving of the calls.
THEOREM TypeCorrect == Spec => []TypeOK
<1>1. IInv => TypeOK
  BY DEF IInv
<1> QED BY <1>1, Invariance, PTL

\* However a call ends, by an early return, a failed check, a refused PUT or a
\* failed activation, it leaves no lock behind, unless its unlock request failed.
THEOREM LocksReleased == Spec => []NoOrphanLock
<1>1. IInv => NoOrphanLock
  BY DEF IInv, OwnerKnown, NoOrphanLock
<1> QED BY <1>1, Invariance, PTL

\* However many high-level calls overlap on a connection, no timeout orphans
\* the lock of one that still runs.
THEOREM LocksSurviveTimeouts == Spec => []CriticalSectionHolds
<1>1. IInv => CriticalSectionHolds
  BY DEF IInv
<1> QED BY <1>1, Invariance, PTL

\* No request of another call, and no handler that was given a lock_handle,
\* releases a live lock.
THEOREM OwnersRelease == Spec => OnlyOwnerReleases
<1> DEFINE Keeping ==
      \A s \in Systems :
        lock[s].live /\ lock[s].owner # Nobody /\ lock'[s].owner # lock[s].owner
          => \/ lock[s].owner = Client /\ todo' = todo
             \/ \E c \in Calls : lock[s].owner = c /\ todo'[c] # todo[c]
<1>1. ASSUME IInv, NEW c \in Calls, Request(c)
      PROVE  Keeping
  <2>1. TypeOK /\ lock \in [Systems -> LockStates] /\ todo \in [Calls -> Seq(Step)]
    BY <1>1 DEF IInv, TypeOK
  <2>2. /\ todo[c] # << >>
        /\ Keeps(c) \/ Takes(c) \/ Releases(c) \/ FailsToRelease(c)
    BY <1>1, <2>1, RequestShape
  <2>3. CASE Keeps(c) \/ FailsToRelease(c)
    <3>1. OwnersStay
      BY <1>1, <2>3, SeveredLocks DEF Keeps, FailsToRelease
    <3> QED BY <3>1 DEF OwnersStay
  <2>5. CASE Takes(c)
    BY <2>1, <2>5 DEF Takes, Free
  <2>6. CASE Releases(c)
    <3>1. Presented(c) = c
      BY <1>1, <2>2, <2>6, AtHome DEF Releases
    <3>2. lock[At(c)].owner = c /\ \A s \in Systems : s # At(c) => lock'[s] = lock[s]
      BY <2>1, <2>6, <3>1 DEF Releases, HoldsLock
    <3>3. Len(Tail(todo[c])) # Len(todo[c])
      BY <2>1, <2>2, HeadTailProperties, LenProperties
    <3>4. todo'[c] # todo[c]
      BY <2>1, <2>6, <3>3 DEF Releases
    <3> QED BY <3>2, <3>4
  <2> QED BY <2>2, <2>3, <2>5, <2>6
<1>2. ASSUME NEW c \in Calls, Begin(c) \/ Answer(c)
      PROVE  Keeping
  BY <1>2 DEF Begin, Answer, server
<1>3. ASSUME IInv, ClientStep
      PROVE  Keeping
  <2>1. lock \in [Systems -> LockStates] /\ todo' = todo
    BY <1>3 DEF IInv, TypeOK, ClientStep, local
  <2>2. CASE \E k \in Connections : ClientLock(k)
    BY <2>1, <2>2 DEF ClientLock, Free
  <2>3. CASE \E s \in Systems : ClientUnlock(s)
    BY <2>1, <2>3 DEF ClientUnlock
  <2> QED BY <1>3, <2>2, <2>3 DEF ClientStep
<1>4. IInv /\ [Next]_vars => [Keeping]_vars
  BY <1>1, <1>2, <1>3 DEF Next, CallStep
<1> QED BY <1>4, Invariance, PTL DEF Spec, OnlyOwnerReleases

-----------------------------------------------------------------------------
(* A source that the check refuses is not written.                         *)

Blocked(c) ==
  /\ args[c].tool \in ChecksFirst
  /\ args[c].activate /\ args[c].source \in Unsound

\* A call that has not begun has written nothing; one whose source is refused
\* has not either, and what is left of its program checks before it writes.
Shielded ==
  \A c \in Calls :
    /\ status[c] = "idle" => landed[c] = {}
    /\ Blocked(c) => landed[c] = {} /\ Guarded(todo[c])

\* What little is left of a program after an error is guarded.
LEMMA GuardedEnds ==
  /\ Guarded(<< >>)
  /\ Guarded(<< May("unlock") >>)
<1>1. May("unlock") \in Step /\ May("unlock").do = "unlock"
  BY StepTypes DEF Ops
<1>2. /\ << May("unlock") >> \in Seq(Step) /\ Len(<< May("unlock") >>) = 1
      /\ << May("unlock") >>[1] = May("unlock")
  BY <1>1
<1> QED BY <1>1, <1>2 DEF Guarded, Writes

\* Nothing but a write request writes, and a check of a source with errors
\* leaves at most the unlock request.
LEMMA Writers ==
  ASSUME TypeOK, NEW c \in Calls, Request(c)
  PROVE  /\ UNCHANGED landed
            \/ /\ Head(todo[c]).do \in Writes
               /\ \A d \in Calls : d # c => landed'[d] = landed[d]
         /\ Head(todo[c]) = Must("checkNew") /\ args[c].source \in Unsound
              => \/ todo' = [todo EXCEPT ![c] = << >>]
                 \/ todo' = [todo EXCEPT ![c] = << May("unlock") >>]
<1> USE DEF Awaits, NoWrite, written, Must
<1>1. Must("checkNew").do = "checkNew"
  OBVIOUS
<1>2. CASE Check(c)
  <2>1. UNCHANGED landed
    BY <1>2 DEF Check
  <2>2. ASSUME Head(todo[c]) = Must("checkNew"), args[c].source \in Unsound
        PROVE  Abandon(c)
    BY <1>2, <2>2 DEF Check, Checked, Fail
  <2> QED BY <2>1, <2>2 DEF Abandon
<1>3. CASE Put(c) \/ Publish(c)
  <2>1. /\ Head(todo[c]).do \in Writes
        /\ (\E s \in Systems : Write(c, s)) \/ UNCHANGED landed
    BY <1>3, Places DEF Put, Publish, Writes
  <2>2. Head(todo[c]) # Must("checkNew")
    BY <1>1, <2>1 DEF Writes
  <2>3. ASSUME NEW s \in Systems, Write(c, s)
        PROVE  \A d \in Calls : d # c => landed'[d] = landed[d]
    BY <2>3 DEF Write, TypeOK
  <2> QED BY <2>1, <2>2, <2>3
<1>4. CASE \/ Ask(c) \/ Probe(c) \/ Lock(c) \/ Unlock(c) \/ Activate(c)
           \/ ActivateGroup(c) \/ ReadBack(c) \/ Verify(c) \/ Stamp(c)
           \/ VerifyStamp(c) \/ FindActive(c) \/ VerifyField(c)
  <2>1. UNCHANGED landed
    BY <1>4 DEF Ask, Probe, Lock, Unlock, Activate, ActivateGroup, ReadBack,
                Verify, Stamp, VerifyStamp, FindActive, VerifyField
  <2>2. Head(todo[c]).do # "checkNew"
    BY <1>4 DEF Ask, Probe, Lock, Unlock, Activate, ActivateGroup, ReadBack,
                Verify, Stamp, VerifyStamp, FindActive, VerifyField
  <2> QED BY <1>1, <2>1, <2>2
<1> QED BY <1>2, <1>3, <1>4 DEF Request

\* A request of a call keeps the calls shielded.
LEMMA ShieldedRequest ==
  ASSUME IInv, Shielded, NEW c \in Calls, Request(c)
  PROVE  Shielded'
<1>1. /\ TypeOK /\ todo \in [Calls -> Seq(Step)]
      /\ landed \in [Calls -> SUBSET Systems]
  BY DEF IInv, TypeOK
<1>2. /\ status[c] = "running" /\ todo[c] # << >> /\ UNCHANGED <<status, args>>
      /\ Leaves(c)
  BY <1>1, RequestShape DEF frame
<1>3. \A d \in Calls : d # c => todo'[d] = todo[d]
  BY <1>2, LeftInOrder
<1>4. \A d \in Calls : d # c => landed'[d] = landed[d]
  BY <1>1, Writers
<1>5. ASSUME Blocked(c)
      PROVE  landed'[c] = {} /\ Guarded(todo'[c])
  <2>1. landed[c] = {} /\ Guarded(todo[c])
    BY <1>5 DEF Shielded
  <2>2. /\ Head(todo[c]).do \notin Writes
        /\ Head(todo[c]) # Must("checkNew") => Guarded(Tail(todo[c]))
    BY <1>2, <2>1, GuardedTail
  <2>3. landed'[c] = {}
    BY <1>1, <2>1, <2>2, Writers
  <2>4. \/ todo'[c] = Tail(todo[c]) \/ todo'[c] = << >>
        \/ todo'[c] = << May("unlock") >>
    BY <1>1, <1>2 DEF Leaves
  <2>5. Head(todo[c]) = Must("checkNew")
          => todo'[c] = << >> \/ todo'[c] = << May("unlock") >>
    BY <1>1, <1>5, Writers DEF Blocked
  <2> QED BY <2>2, <2>3, <2>4, <2>5, GuardedEnds
<1> QED BY <1>2, <1>3, <1>4, <1>5 DEF Shielded, Blocked

\* Every step keeps the calls shielded.
LEMMA ShieldedStep ==
  ASSUME IInv, Shielded, [Next]_vars
  PROVE  Shielded'
<1>1. /\ todo \in [Calls -> Seq(Step)] /\ args \in [Calls -> Arguments]
      /\ status \in [Calls -> {"idle", "running", "returned"}]
  BY DEF IInv, TypeOK
<1>2. ASSUME NEW c \in Calls, Begin(c)
      PROVE  Shielded'
  <2>1. PICK a \in Requests[c] : /\ args' = [args EXCEPT ![c] = a]
                                 /\ todo' = [todo EXCEPT ![c] = Program(a)]
    BY <1>2 DEF Begin
  <2>2. /\ status[c] = "idle" /\ status' = [status EXCEPT ![c] = "running"]
        /\ UNCHANGED landed
    BY <1>2 DEF Begin, server, written
  <2>3. landed'[c] = {} /\ args'[c] = a /\ todo'[c] = Program(a)
        /\ status'[c] = "running"
    BY <1>1, <2>1, <2>2 DEF Shielded
  <2>4. a.tool \in ChecksFirst /\ a.activate => Guarded(Program(a))
    BY GuardedProgram
  <2>5. \A d \in Calls : d # c => /\ todo'[d] = todo[d] /\ args'[d] = args[d]
                                  /\ status'[d] = status[d]
    BY <1>1, <2>1, <2>2
  <2> QED BY <2>2, <2>3, <2>4, <2>5 DEF Shielded, Blocked
<1>3. ASSUME NEW c \in Calls, Answer(c)
      PROVE  Shielded'
  <2>1. /\ UNCHANGED <<args, todo, landed>>
        /\ status' = [status EXCEPT ![c] = "returned"]
    BY <1>3 DEF Answer, server, written
  <2> QED BY <1>1, <2>1 DEF Shielded, Blocked
<1>4. ASSUME ClientStep \/ UNCHANGED vars
      PROVE  Shielded'
  <2>1. UNCHANGED <<status, args, todo, landed>>
    BY <1>4 DEF ClientStep, vars, local, server, written
  <2> QED BY <2>1 DEF Shielded, Blocked
<1> QED BY <1>2, <1>3, <1>4, ShieldedRequest DEF Next, CallStep

\* A source with syntax errors never reaches the server through the six tools
\* that check it first, when they are asked to activate it.
THEOREM RefusedStaysUnwritten == Spec => []RefusedSourceNotWritten
<1>1. Init => Shielded
  BY DEF Init, Shielded, Blocked, NoArguments
<1>2. IInv /\ Shielded /\ [Next]_vars => Shielded'
  BY ShieldedStep
<1>3. Shielded => RefusedSourceNotWritten
  BY DEF Shielded, RefusedSourceNotWritten, Blocked, ChecksFirst
<1> QED BY <1>1, <1>2, <1>3, Invariance, PTL DEF Spec

-----------------------------------------------------------------------------
(* Where a call writes.                                                    *)

\* All connections lead to one system.
OneHome == \A k, l \in Connections : SystemOf[k] = SystemOf[l]

\* No client publishes a service binding with the high-level tool, the only
\* one that asks the group for its connection late.
BoundEarly ==
  \A c \in Calls : \A a \in Requests[c] :
    a.surface = "high" => a.tool \notin METADATA_WRITE_TOOLS.changedAt

\* A call that reads no timestamp first works on its own connection.
StaysHome ==
  \A c \in Calls :
    /\ Steady(todo[c]) /\ bound[c] = ConnOf[c]
    /\ landed[c] \subseteq {Home(c)}

\* A write goes where the handler works.
LEMMA WritesAt ==
  ASSUME TypeOK, NEW c \in Calls, Request(c)
  PROVE  \/ UNCHANGED <<saved, landed>>
         \/ Write(c, At(c)) /\ Head(todo[c]).do \in Writes
<1>1. CASE Put(c) \/ Publish(c)
  BY <1>1 DEF Put, Publish, Awaits, NoWrite, written, Writes
<1>2. CASE \/ Ask(c) \/ Probe(c) \/ Check(c) \/ Lock(c) \/ Unlock(c)
           \/ Activate(c) \/ ActivateGroup(c) \/ ReadBack(c) \/ Verify(c)
           \/ Stamp(c) \/ VerifyStamp(c) \/ FindActive(c) \/ VerifyField(c)
  BY <1>2 DEF Ask, Probe, Check, Lock, Unlock, Activate, ActivateGroup, ReadBack,
              Verify, Stamp, VerifyStamp, FindActive, VerifyField, NoWrite, written
<1> QED BY <1>1, <1>2 DEF Request

\* Every step keeps the calls at home.
LEMMA StaysHomeStep ==
  ASSUME BoundEarly, IInv, StaysHome, [Next]_vars
  PROVE  StaysHome'
<1>1. TypeOK /\ todo \in [Calls -> Seq(Step)] /\ bound \in [Calls -> Connections]
      /\ landed \in [Calls -> SUBSET Systems]
  BY DEF IInv, TypeOK
<1>2. ASSUME NEW c \in Calls, Request(c)
      PROVE  StaysHome'
  <2>1. /\ todo[c] # << >> /\ Leaves(c)
        /\ \/ UNCHANGED bound
           \/ Head(todo[c]).do = "stamp"
    BY <1>1, <1>2, RequestShape
  <2>2. Head(todo[c]) = todo[c][1] /\ 1 \in 1 .. Len(todo[c])
    BY <1>1, <2>1, EmptySeq, LenProperties
  <2>3. UNCHANGED bound
    BY <2>1, <2>2 DEF StaysHome, Steady
  <2>4. /\ Steady(todo'[c])
        /\ \A d \in Calls : d # c => todo'[d] = todo[d]
    BY <2>1, LeftInOrder DEF StaysHome
  <2>5. At(c) = Home(c)
    BY DEF StaysHome, At, Home
  <2>6. \A d \in Calls : landed'[d] \subseteq landed[d] \cup {Home(d)}
    <3>1. \/ landed' = landed
          \/ landed' = [landed EXCEPT ![c] = @ \cup {Home(c)}]
      BY <1>1, <1>2, <2>5, WritesAt DEF Write
    <3>2. ASSUME NEW d \in Calls
          PROVE  landed'[d] = landed[d] \/ landed'[d] = landed[d] \cup {Home(d)}
      BY <1>1, <3>1
    <3> QED BY <3>2
  <2> QED BY <2>3, <2>4, <2>6 DEF StaysHome, Home
<1>3. ASSUME NEW c \in Calls, Begin(c)
      PROVE  StaysHome'
  <2>1. PICK a \in Requests[c] : todo' = [todo EXCEPT ![c] = Program(a)]
    BY <1>3 DEF Begin
  <2>2. UNCHANGED <<bound, landed>>
    BY <1>3 DEF Begin, server, written
  <2>3. a.tool \in Tools
    BY ConstantsAssumption DEF Arguments
  <2>4. Steady(Program(a))
    BY <2>1, <2>3, SteadyProgram DEF BoundEarly
  <2> QED BY <1>1, <2>1, <2>2, <2>4 DEF StaysHome, Home
<1>4. ASSUME NEW c \in Calls, Answer(c)
      PROVE  StaysHome'
  BY <1>4 DEF Answer, server, written, StaysHome, Home
<1>5. ASSUME ClientStep \/ UNCHANGED vars
      PROVE  StaysHome'
  BY <1>5 DEF ClientStep, vars, local, server, written, StaysHome, Home
<1> QED BY <1>2, <1>3, <1>4, <1>5 DEF Next, CallStep

\* Whatever other clients do with the group's context, a call writes to the
\* system its client addressed, unless it is one of the tools that ask for the
\* connection after an await.
THEOREM WrittenAtHome ==
  ASSUME BoundEarly
  PROVE  Spec => []WritesStayHome
<1>1. Init => StaysHome
  BY EmptyProgram DEF Init, StaysHome
<1>2. IInv /\ StaysHome /\ [Next]_vars => StaysHome'
  BY StaysHomeStep
<1>3. StaysHome => WritesStayHome
  BY DEF StaysHome, WritesStayHome
<1> QED BY <1>1, <1>2, <1>3, Invariance, PTL DEF Spec

-----------------------------------------------------------------------------
(* What a call answers about its write.                                    *)

\* The answer of such a call tells whether the source was compared.
Compared(c) == args[c].surface = "high" /\ args[c].tool \in SOURCE_WRITE_TOOLS

\* A call writes at most once; its answer is "ok" only once it is given; and
\* one that compares the source has still to do so, has failed, or has said
\* what it came to.
HonestAbout(c) ==
  /\ Proper(todo[c], Ops)
  /\ landed[c] # {} => Uses(todo[c], Harmless)
  /\ status[c] = "idle" => /\ landed[c] = {}
                           /\ result[c] = "none" /\ verified[c] = "none"
  /\ status[c] = "running" => result[c] # "ok"
  /\ verified[c] = "differs" => todo[c] = << >> /\ result[c] = "error"
  /\ args[c].surface # "high" => Uses(todo[c], Bare)
  /\ Compared(c) =>
       /\ Uses(todo[c], Sourced)
       /\ verified[c] = "yes" => c \in held
       /\ status[c] # "idle" /\ verified[c] = "none" /\ result[c] \in {"none", "ok"}
            => Looks(todo[c])

Honest == \A c \in Calls : HonestAbout(c)

\* What a request does to the answer: nothing, an error, an error because the
\* source differs, a confirmation, a doubt, or an activation that was refused.
Nothing(c)   == /\ UNCHANGED reply /\ Proceed(c)
                /\ Head(todo[c]).do \notin Compares
Errs(c)      == /\ result' = [result EXCEPT ![c] = "error"] /\ UNCHANGED verified
Confirms(c)  == /\ Verdict(c, "yes")
                /\ \/ Head(todo[c]).do \in {"verifyStamp", "verifyField"}
                   \/ /\ Head(todo[c]).do \in Compares
                      /\ UNCHANGED saved
                      /\ \E k \in Connections :
                           saved[SystemOf[k]] = args[c].source
Incomplete(c) == /\ result' = [result EXCEPT ![c] = "incomplete"]
                 /\ UNCHANGED verified /\ Proceed(c)
                 /\ Head(todo[c]).do \notin Compares

LEMMA Replies ==
  ASSUME TypeOK, NEW c \in Calls, Request(c), Proper(todo[c], Ops),
         Head(todo[c]).do = "verify" => context \in Connections
  PROVE  \/ Nothing(c) \/ Errs(c) \/ Unconfirmed(c) \/ Confirms(c)
         \/ Verdict(c, "no") \/ Incomplete(c)
<1>1. /\ bound[c] \in Connections /\ todo[c] # << >> /\ todo[c] \in Seq(Step)
  BY Places, RequestShape DEF TypeOK
<1>2. Head(todo[c]) = todo[c][1] /\ 1 \in 1 .. Len(todo[c])
  BY <1>1, EmptySeq, LenProperties
<1>3. /\ Head(todo[c]).do = "readBack" => Head(todo[c]).onError # "ignore"
      /\ {"readBack", "verify"} = Compares
  BY <1>2 DEF Proper, Compares
<1>4. ASSUME Fail(c), Head(todo[c]).do \notin Compares
      PROVE  Nothing(c) \/ Errs(c)
  BY <1>4 DEF Fail, Abandon, Nothing, Errs
<1>5. ASSUME Abandon(c)
      PROVE  Errs(c)
  BY <1>5 DEF Abandon, Errs
<1>6. ASSUME Proceed(c), UNCHANGED reply, Head(todo[c]).do \notin Compares
      PROVE  Nothing(c)
  BY <1>6 DEF Nothing
<1>10. CASE \/ Ask(c) \/ Probe(c) \/ Check(c) \/ Lock(c) \/ Put(c) \/ Publish(c)
            \/ Unlock(c) \/ Activate(c) \/ Stamp(c) \/ FindActive(c)
  <2>1. Head(todo[c]).do \notin Compares
    BY <1>10 DEF Ask, Probe, Check, Lock, Put, Publish, Unlock, Activate, Stamp,
                 FindActive, Awaits, Compares
  <2>2. Abandon(c) \/ Fail(c) \/ (Proceed(c) /\ UNCHANGED reply)
    BY <1>10 DEF Ask, Probe, Check, Lock, Put, Publish, Unlock, Activate, Stamp,
                 FindActive
  <2> QED BY <1>4, <1>5, <1>6, <2>1, <2>2
<1>11. CASE ActivateGroup(c)
  <2>1. Head(todo[c]).do \notin Compares
    BY <1>11 DEF ActivateGroup, Awaits, Compares
  <2> QED BY <1>4, <1>6, <1>11, <2>1 DEF ActivateGroup, Incomplete
<1>12. CASE ReadBack(c)
  <2>1. Head(todo[c]).do = "readBack" /\ UNCHANGED saved
    BY <1>12 DEF ReadBack, Awaits, NoWrite, written
  <2>2. Fail(c) => Errs(c)
    BY <1>3, <1>5, <2>1 DEF Fail
  <2>3. saved[At(c)] = args[c].source /\ Verdict(c, "yes") => Confirms(c)
    BY <1>1, <1>3, <2>1 DEF Confirms, At
  <2> QED BY <1>12, <2>2, <2>3 DEF ReadBack
<1>13. CASE Verify(c)
  <2>1. Head(todo[c]).do = "verify" /\ UNCHANGED saved
    BY <1>13 DEF Verify, Awaits, NoWrite, written
  <2>2. saved[SystemOf[context]] = args[c].source /\ Verdict(c, "yes")
          => Confirms(c)
    BY <1>3, <2>1 DEF Confirms
  <2> QED BY <1>13, <2>2 DEF Verify
<1>14. CASE VerifyStamp(c) \/ VerifyField(c)
  <2>1. Head(todo[c]).do \in {"verifyStamp", "verifyField"}
    BY <1>14 DEF VerifyStamp, VerifyField, Awaits
  <2>2. Verdict(c, "yes") \/ Verdict(c, "no") \/ Unconfirmed(c)
    BY <1>14 DEF VerifyStamp, VerifyField, Judge
  <2> QED BY <2>1, <2>2 DEF Confirms
<1> QED BY <1>10, <1>11, <1>12, <1>13, <1>14 DEF Request

\* What is left of a proper program is proper; after a write or a comparison it
\* writes nothing; and it still compares unless that was the comparison.
LEMMA ProperTail ==
  ASSUME NEW p, p # << >>, Proper(p, Ops)
  PROVE  /\ Proper(Tail(p), Ops)
         /\ Head(p).do \in Writes \cup Compares => Uses(Tail(p), Harmless)
         /\ Uses(p, Harmless) => Uses(Tail(p), Harmless)
         /\ Uses(p, Sourced) => Uses(Tail(p), Sourced) /\ Head(p).do \in Sourced
         /\ Uses(p, Bare) => Uses(Tail(p), Bare) /\ Head(p).do \in Bare
         /\ Looks(p) /\ Head(p).do \notin Compares => Looks(Tail(p))
<1>1. p \in Seq(Step)
  BY DEF Proper, Uses
<1>2. /\ Head(p) = p[1] /\ 1 \in 1 .. Len(p) /\ Len(p) \in Nat
      /\ Tail(p) \in Seq(Step) /\ Len(Tail(p)) = Len(p) - 1
      /\ \A i \in 1 .. Len(Tail(p)) : Tail(p)[i] = p[i + 1]
  BY <1>1, EmptySeq, LenProperties, HeadTailProperties
<1>3. \A i \in 1 .. Len(Tail(p)) : i + 1 \in 1 .. Len(p) /\ i + 1 \in 1 + 1 .. Len(p)
  BY <1>2
<1>4. \A S : Uses(p, S) => Uses(Tail(p), S) /\ Head(p).do \in S
  BY <1>2, <1>3 DEF Uses
<1>5. Proper(Tail(p), Ops)
  <2>1. Uses(Tail(p), Ops)
    BY <1>4 DEF Proper
  <2>2. ASSUME NEW i \in 1 .. Len(Tail(p)), NEW j \in i + 1 .. Len(Tail(p)),
               Tail(p)[i].do \in Writes \cup Compares
        PROVE  Tail(p)[j].do \notin Writes
    <3>1. j \in 1 .. Len(Tail(p)) /\ j + 1 \in (i + 1) + 1 .. Len(p)
      BY <1>2, <2>2
    <3> QED BY <1>2, <1>3, <2>2, <3>1 DEF Proper
  <2>3. ASSUME NEW i \in 1 .. Len(Tail(p)), Tail(p)[i].do = "readBack"
        PROVE  Tail(p)[i].onError = "abort"
    BY <1>2, <1>3, <2>3 DEF Proper
  <2> QED BY <2>1, <2>2, <2>3 DEF Proper
<1>6. ASSUME Head(p).do \in Writes \cup Compares
      PROVE  Uses(Tail(p), Harmless)
  <2>1. ASSUME NEW i \in 1 .. Len(Tail(p))
        PROVE  Tail(p)[i].do \in Harmless
    <3>1. p[i + 1].do \notin Writes
      BY <1>2, <1>3, <1>6 DEF Proper
    <3>2. p[i + 1].do \in Ops
      BY <1>3 DEF Proper, Uses
    <3> QED BY <1>2, <3>1, <3>2 DEF Harmless
  <2> QED BY <1>2, <2>1 DEF Uses
<1>7. ASSUME Looks(p), Head(p).do \notin Compares
      PROVE  Looks(Tail(p))
  <2>1. PICK i \in 1 .. Len(p) : p[i].do \in Compares
    BY <1>7 DEF Looks
  <2>2. i # 1
    BY <1>2, <1>7, <2>1
  <2>3. i - 1 \in 1 .. Len(Tail(p)) /\ (i - 1) + 1 = i
    BY <1>2, <2>2
  <2> QED BY <1>2, <2>1, <2>3 DEF Looks
<1> QED BY <1>4, <1>5, <1>6, <1>7

\* So is what little is left after an error.
LEMMA ProperEnds ==
  ASSUME NEW p \in {<< >>, << May("unlock") >>}
  PROVE  /\ Proper(p, Ops) /\ Uses(p, Harmless)
         /\ Uses(p, Sourced) /\ Uses(p, Bare)
<1>1. /\ "unlock" \in Ops /\ "unlock" \in Quiet /\ "unlock" \in Harmless
      /\ "unlock" \in Sourced /\ "unlock" \in Bare
  BY DEF Ops, Quiet, Harmless, Sourced, Bare, Writes, Compares
<1>2. /\ Uses(p, Ops) /\ Uses(p, Quiet) /\ Uses(p, Harmless) /\ Uses(p, Sourced)
      /\ Uses(p, Bare)
  BY <1>1, StepTypes, UsesOne, UsesNone
<1> QED BY <1>2, ProperQuiet

\* A source that was compared and found is seen on the system of the call.
LEMMA SeenBy ==
  ASSUME OneHome, TypeOK, Witness, NEW c \in Calls, status'[c] = "running",
         UNCHANGED <<args, saved>>, Uses(todo'[c], Harmless),
         \E k \in Connections : saved[SystemOf[k]] = args[c].source
  PROVE  c \in held'
<1>1. saved'[Home(c)] = args'[c].source
  BY Places DEF OneHome, Home
<1>2. \A i \in DOMAIN todo'[c] : todo'[c][i].do \notin {"put", "publish"}
  BY LenProperties DEF Uses, Harmless, Writes
<1> QED BY <1>1, <1>2 DEF Witness

\* The other calls' answers stay as they are.
OthersReplies(c) ==
  \A d \in Calls : d # c => result'[d] = result[d] /\ verified'[d] = verified[d]

\* A request answers for its own call only.
LEMMA OneReplies ==
  ASSUME TypeOK, NEW c \in Calls, Request(c)
  PROVE  OthersReplies(c)
<1>1. /\ result' = result /\ verified' = verified => OthersReplies(c)
      /\ Abandon(c) => OthersReplies(c)
      /\ Unconfirmed(c) => OthersReplies(c)
      /\ \A v : Verdict(c, v) => OthersReplies(c)
  BY DEF OthersReplies, TypeOK, Abandon, Unconfirmed, Verdict
<1>2. Fail(c) => OthersReplies(c)
  BY <1>1 DEF Fail, reply
<1>3. CASE ActivateGroup(c)
  <2>1. ASSUME result' = [result EXCEPT ![c] = "incomplete"], UNCHANGED verified
        PROVE  OthersReplies(c)
    BY <2>1 DEF OthersReplies, TypeOK
  <2> QED BY <1>1, <1>2, <1>3, <2>1 DEF ActivateGroup, reply
<1>4. CASE Ask(c) \/ Probe(c) \/ Check(c) \/ Lock(c) \/ Unlock(c) \/ Activate(c)
  BY <1>1, <1>2, <1>4 DEF Ask, Probe, Check, Lock, Unlock, Activate, reply
<1>5. CASE Put(c) \/ Publish(c) \/ Stamp(c) \/ FindActive(c)
  BY <1>1, <1>2, <1>5 DEF Put, Publish, Stamp, FindActive, reply
<1>6. CASE ReadBack(c) \/ Verify(c) \/ VerifyStamp(c) \/ VerifyField(c)
  BY <1>1, <1>2, <1>6 DEF ReadBack, Verify, VerifyStamp, VerifyField, Judge
<1> QED BY <1>3, <1>4, <1>5, <1>6 DEF Request

\* A request keeps its call honest.
LEMMA HonestRequest ==
  ASSUME OneHome, IInv, Honest, NEW c \in Calls, Request(c), Witness
  PROVE  HonestAbout(c)'
<1>1. /\ TypeOK /\ todo \in [Calls -> Seq(Step)]
      /\ landed \in [Calls -> SUBSET Systems]
      /\ result \in [Calls -> {"none", "ok", "incomplete", "error"}]
      /\ verified \in [Calls -> {"none", "yes", "no", "differs"}]
  BY DEF IInv, TypeOK
<1>2. /\ status[c] = "running" /\ todo[c] # << >> /\ UNCHANGED <<status, args>>
      /\ Leaves(c)
  BY <1>1, RequestShape DEF frame
<1>3. HonestAbout(c)
  BY DEF Honest
<1>4. Proper(todo[c], Ops)
  BY <1>3 DEF HonestAbout
<1>5. todo'[c] \in {Tail(todo[c]), << >>, << May("unlock") >>}
  BY <1>1, <1>2 DEF Leaves
<1>6. /\ Proper(todo'[c], Ops)
      /\ Head(todo[c]).do \in Writes \cup Compares => Uses(todo'[c], Harmless)
      /\ Uses(todo[c], Harmless) => Uses(todo'[c], Harmless)
      /\ Uses(todo[c], Sourced) => Uses(todo'[c], Sourced)
                                     /\ Head(todo[c]).do \in Sourced
      /\ Uses(todo[c], Bare) => Uses(todo'[c], Bare) /\ Head(todo[c]).do \in Bare
  BY <1>2, <1>4, <1>5, ProperTail, ProperEnds
<1>7. landed'[c] # {} => Uses(todo'[c], Harmless)
  BY <1>1, <1>3, <1>6, Writers DEF HonestAbout
<1>8. Head(todo[c]).do = "verify" => context \in Connections
  <2>1. ASSUME Head(todo[c]).do = "verify"
        PROVE  args[c].surface = "high"
    <3>1. ~ Uses(todo[c], Bare)
      BY <1>6, <2>1 DEF Bare
    <3> QED BY <1>3, <3>1 DEF HonestAbout
  <2> QED BY <1>2, <2>1 DEF IInv, HasContext
<1>9. verified[c] # "differs" /\ result[c] # "ok"
  BY <1>2, <1>3 DEF HonestAbout
<1>10. held \subseteq held'
  BY DEF Witness
<1>11. CASE Nothing(c)
  <2>1. UNCHANGED <<result, verified>> /\ todo'[c] = Tail(todo[c])
    BY <1>1, <1>11 DEF Nothing, Proceed, reply
  <2>2. Looks(todo[c]) => Looks(todo'[c])
    BY <1>2, <1>4, <1>11, <2>1, ProperTail DEF Nothing
  <2> QED BY <1>2, <1>3, <1>6, <1>7, <1>9, <1>10, <2>1, <2>2
          DEF HonestAbout, Compared
<1>12. CASE Errs(c)
  <2>1. result'[c] = "error" /\ verified' = verified
    BY <1>1, <1>12 DEF Errs
  <2> QED BY <1>2, <1>3, <1>6, <1>7, <1>9, <1>10, <2>1 DEF HonestAbout, Compared
<1>13. CASE Unconfirmed(c)
  <2>1. result'[c] = "error" /\ verified'[c] = "differs" /\ todo'[c] = << >>
    BY <1>1, <1>13 DEF Unconfirmed
  <2> QED BY <1>2, <1>3, <1>6, <1>7, <2>1 DEF HonestAbout, Compared
<1>14. CASE Confirms(c)
  <2>1. result' = result /\ verified'[c] = "yes"
    BY <1>1, <1>14 DEF Confirms, Verdict
  <2>2. ASSUME Compared(c)
        PROVE  c \in held'
    <3>1. CASE Head(todo[c]).do \in Compares
      <4>1. /\ UNCHANGED saved
            /\ \E k \in Connections : saved[SystemOf[k]] = args[c].source
        BY <1>14, <3>1 DEF Confirms, Compares
      <4>2. status'[c] = "running" /\ UNCHANGED <<args, saved>>
              /\ Uses(todo'[c], Harmless)
        BY <1>2, <1>6, <3>1, <4>1
      <4> QED BY <1>1, <4>1, <4>2, SeenBy
    <3>2. CASE Head(todo[c]).do \in {"verifyStamp", "verifyField"}
      <4>1. Head(todo[c]).do \in Sourced
        BY <1>3, <1>6, <2>2 DEF HonestAbout
      <4> QED BY <3>2, <4>1 DEF Sourced, Bare
    <3> QED BY <1>14, <3>1, <3>2 DEF Confirms
  <2> QED BY <1>2, <1>3, <1>6, <1>7, <1>9, <2>1, <2>2 DEF HonestAbout, Compared
<1>15. CASE Verdict(c, "no")
  <2>1. result' = result /\ verified'[c] = "no"
    BY <1>1, <1>15 DEF Verdict
  <2> QED BY <1>2, <1>3, <1>6, <1>7, <1>9, <2>1 DEF HonestAbout, Compared
<1>16. CASE Incomplete(c)
  <2>1. result'[c] = "incomplete" /\ verified' = verified
    BY <1>1, <1>16 DEF Incomplete
  <2> QED BY <1>2, <1>3, <1>6, <1>7, <1>9, <1>10, <2>1 DEF HonestAbout, Compared
<1> QED BY <1>1, <1>4, <1>8, <1>11, <1>12, <1>13, <1>14, <1>15, <1>16, Replies

\* Every step keeps every call honest.
LEMMA HonestStep ==
  ASSUME OneHome, IInv, Honest, [Next]_vars
  PROVE  Honest'
<1>1. /\ todo \in [Calls -> Seq(Step)] /\ args \in [Calls -> Arguments]
      /\ status \in [Calls -> {"idle", "running", "returned"}]
      /\ landed \in [Calls -> SUBSET Systems]
      /\ result \in [Calls -> {"none", "ok", "incomplete", "error"}]
      /\ verified \in [Calls -> {"none", "yes", "no", "differs"}]
  BY DEF IInv, TypeOK
<1>2. ASSUME NEW d \in Calls, held \subseteq held',
             todo'[d] = todo[d], args'[d] = args[d], status'[d] = status[d],
             landed'[d] = landed[d], result'[d] = result[d],
             verified'[d] = verified[d]
      PROVE  HonestAbout(d)'
  BY <1>2 DEF Honest, HonestAbout, Compared
<1>3. ASSUME NEW c \in Calls, Request(c), Witness
      PROVE  Honest'
  <2>1. HonestAbout(c)'
    BY <1>3, HonestRequest
  <2>2. /\ Leaves(c) /\ UNCHANGED <<status, args>> /\ todo[c] # << >>
    BY <1>3, RequestShape DEF IInv, frame
  <2>3. \A d \in Calls : d # c => todo'[d] = todo[d]
    BY <2>2, LeftInOrder
  <2>4. \A d \in Calls : d # c => landed'[d] = landed[d]
    BY <1>3, Writers DEF IInv
  <2>5. \A d \in Calls : d # c => result'[d] = result[d] /\ verified'[d] = verified[d]
    BY <1>3, OneReplies DEF IInv, OthersReplies
  <2>6. held \subseteq held'
    BY <1>3 DEF Witness
  <2> QED BY <1>2, <2>1, <2>2, <2>3, <2>4, <2>5, <2>6 DEF Honest
<1>4. ASSUME NEW c \in Calls, Begin(c), Witness
      PROVE  Honest'
  <2>1. PICK a \in Requests[c] : /\ args' = [args EXCEPT ![c] = a]
                                 /\ todo' = [todo EXCEPT ![c] = Program(a)]
    BY <1>4 DEF Begin
  <2>2. /\ status[c] = "idle" /\ status' = [status EXCEPT ![c] = "running"]
        /\ UNCHANGED <<landed, result, verified>> /\ held \subseteq held'
    BY <1>4 DEF Begin, server, written, reply, Witness
  <2>3. a.tool \in Tools
    BY ConstantsAssumption DEF Arguments
  <2>4. args'[c] = a /\ todo'[c] = Program(a) /\ status'[c] = "running"
    BY <1>1, <2>1, <2>2
  <2>5. landed'[c] = {} /\ result'[c] = "none" /\ verified'[c] = "none"
    BY <2>2 DEF Honest, HonestAbout
  <2>6. HonestAbout(c)'
    BY <2>3, <2>4, <2>5, ProperProgram DEF HonestAbout, Compared
  <2>7. \A d \in Calls : d # c => /\ todo'[d] = todo[d] /\ args'[d] = args[d]
                                  /\ status'[d] = status[d]
    BY <1>1, <2>1, <2>2
  <2> QED BY <1>2, <2>2, <2>6, <2>7 DEF Honest
<1>5. ASSUME NEW c \in Calls, Answer(c), Witness
      PROVE  Honest'
  <2>1. /\ status[c] = "running" /\ todo[c] = << >>
        /\ UNCHANGED <<args, todo, landed, verified>> /\ held \subseteq held'
        /\ status' = [status EXCEPT ![c] = "returned"]
        /\ result' = [result EXCEPT ![c] = IF @ = "none" THEN "ok" ELSE @]
    BY <1>5 DEF Answer, server, written, Witness
  <2>2. \A d \in Calls : d # c => status'[d] = status[d] /\ result'[d] = result[d]
    BY <1>1, <2>1
  <2>3. /\ status'[c] = "returned"
        /\ result'[c] = IF result[c] = "none" THEN "ok" ELSE result[c]
    BY <1>1, <2>1
  <2>4. HonestAbout(c) /\ result[c] # "ok"
    BY <2>1 DEF Honest, HonestAbout
  <2>5. ~ Looks(todo[c])
    BY <2>1 DEF Looks
  <2>6. HonestAbout(c)'
    BY <2>1, <2>3, <2>4, <2>5 DEF HonestAbout, Compared
  <2> QED BY <1>2, <2>1, <2>2, <2>6 DEF Honest
<1>6. ASSUME (ClientStep /\ Witness) \/ UNCHANGED vars
      PROVE  Honest'
  <2>1. UNCHANGED <<status, args, todo, landed, result, verified>>
    BY <1>6 DEF ClientStep, vars, local, reply, server, written
  <2>2. held \subseteq held'
    BY <1>6 DEF Witness, vars
  <2> QED BY <1>2, <2>1, <2>2 DEF Honest
<1> QED BY <1>3, <1>4, <1>5, <1>6 DEF Next, CallStep

\* Every call is honest, when all connections lead to one system.
LEMMA AlwaysHonest ==
  ASSUME OneHome
  PROVE  Spec => []Honest
<1>1. Init => Honest
  BY ProperEnds DEF Init, Honest, HonestAbout, Compared, NoArguments
<1>2. IInv /\ Honest /\ [Next]_vars => Honest'
  BY HonestStep
<1> QED BY <1>1, <1>2, Invariance, PTL DEF Spec

\* With one system, a high-level tool that compares the source answers with
\* success only if the system held that source after the write, or says that
\* it could not look: whatever the server drops, refuses or loses, and however
\* many calls interleave.
THEOREM AnswersTruthfully ==
  ASSUME OneHome
  PROVE  Spec => []Truthful
<1>1. ASSUME IInv, Honest, NEW c \in Calls, status[c] = "returned", Compared(c),
             result[c] = "ok", verified[c] # "no"
      PROVE  c \in held
  <2>1. todo[c] = << >>
    BY <1>1 DEF IInv, Ordered
  <2>2. ~ Looks(todo[c])
    BY <2>1 DEF Looks
  <2>3. verified[c] \in {"none", "yes", "no", "differs"}
    BY <1>1 DEF IInv, TypeOK
  <2> QED BY <1>1, <2>2, <2>3 DEF Honest, HonestAbout
<1>2. IInv /\ Honest => Truthful
  BY <1>1 DEF Truthful, Compared
<1> QED BY <1>2, AlwaysHonest, Invariance, PTL

-----------------------------------------------------------------------------
(* The contract.                                                           *)

Wanted    == [c \in Calls |-> args[c].source]
Wrote     == [c \in Calls |-> landed[c] # {}]
Answers   == [c \in Calls |-> Outcome(c)]
Homes     == [c \in Calls |-> Home(c)]
Unchanged == UNCHANGED <<saved, status, Wanted, Wrote, Answers>>

\* A call comes to see its version only while its system holds it.
LEMMA Observed ==
  ASSUME Witness
  PROVE  Contract!Observe
<1>1. /\ held \subseteq held'
      /\ \A c \in held' \ held :
           c \in Calls /\ status'[c] = "running" /\ saved'[Home(c)] = args'[c].source
  BY DEF Witness
<1>2. \A c \in Calls : Homes[c] = Home(c) /\ Wanted'[c] = args'[c].source
  BY DEF Homes, Wanted
<1> QED BY <1>1, <1>2 DEF Contract!Observe, Homes, Wanted

\* A call begins: it is invoked.
LEMMA BeginRefines ==
  ASSUME IInv, Honest, NEW c \in Calls, Begin(c)
  PROVE  Contract!Invoke(c)
<1>1. /\ status \in [Calls -> {"idle", "running", "returned"}]
      /\ args \in [Calls -> Arguments]
  BY DEF IInv, TypeOK
<1>2. PICK a \in Requests[c] : args' = [args EXCEPT ![c] = a]
  BY DEF Begin
<1>3. a.source \in Sources
  BY ConstantsAssumption DEF Arguments
<1>4. /\ status[c] = "idle" /\ status' = [status EXCEPT ![c] = "running"]
      /\ UNCHANGED <<saved, landed, result, verified>>
  BY DEF Begin, server, written, reply
<1>5. Wanted' = [Wanted EXCEPT ![c] = a.source]
  BY <1>1, <1>2 DEF Wanted
<1>6. Wrote' = Wrote
  BY <1>4 DEF Wrote
<1>7. \A d \in Calls : Outcome(d)' = Outcome(d)
  <2>1. Outcome(c) = "none" /\ Outcome(c)' = "none"
    BY <1>1, <1>4 DEF Outcome
  <2>2. ASSUME NEW d \in Calls, d # c
        PROVE  Outcome(d)' = Outcome(d)
    <3>1. args'[d] = args[d] /\ status'[d] = status[d]
      BY <1>1, <1>2, <1>4, <2>2
    <3> QED BY <1>4, <3>1 DEF Outcome
  <2> QED BY <2>1, <2>2
<1>8. Answers' = Answers
  BY <1>7 DEF Answers
<1> QED BY <1>3, <1>4, <1>5, <1>6, <1>8
        DEF Contract!Invoke, Wanted, Wrote, Answers

\* A request takes effect, or changes nothing that the caller can see.
LEMMA RequestRefines ==
  ASSUME OneHome, IInv, Honest, NEW c \in Calls, Request(c)
  PROVE  Contract!TakeEffect(c) \/ Unchanged
<1>1. /\ TypeOK /\ landed \in [Calls -> SUBSET Systems]
      /\ todo[c] \in Seq(Step)
  BY DEF IInv, TypeOK
<1>2. /\ status[c] = "running" /\ todo[c] # << >> /\ UNCHANGED <<status, args>>
  BY <1>1, RequestShape DEF frame
<1>3. Wanted' = Wanted
  BY <1>2 DEF Wanted
<1>4. \A d \in Calls : Outcome(d)' = Outcome(d)
  <2>1. Outcome(c) = "none" /\ Outcome(c)' = "none"
    BY <1>2 DEF Outcome
  <2>2. ASSUME NEW d \in Calls, d # c
        PROVE  Outcome(d)' = Outcome(d)
    <3>1. result'[d] = result[d] /\ verified'[d] = verified[d]
      BY <1>1, <2>2, OneReplies DEF OthersReplies
    <3> QED BY <1>2, <3>1 DEF Outcome
  <2> QED BY <2>1, <2>2
<1>5. Answers' = Answers
  BY <1>4 DEF Answers
<1>6. CASE UNCHANGED <<saved, landed>>
  <2>1. Wrote' = Wrote
    BY <1>6 DEF Wrote
  <2> QED BY <1>2, <1>3, <1>5, <1>6, <2>1 DEF Unchanged
<1>7. CASE Write(c, At(c)) /\ Head(todo[c]).do \in Writes
  <2>1. At(c) = Home(c) /\ Home(c) \in Systems
    BY <1>1, Places DEF OneHome, At, Home
  <2>2. Head(todo[c]) = todo[c][1] /\ 1 \in 1 .. Len(todo[c])
    BY <1>1, <1>2, EmptySeq, LenProperties
  <2>3. landed[c] = {}
    <3>1. ~ Uses(todo[c], Harmless)
      BY <1>7, <2>2 DEF Uses, Harmless
    <3> QED BY <3>1 DEF Honest, HonestAbout
  <2>4. /\ saved' = [saved EXCEPT ![Home(c)] = args[c].source]
        /\ landed' = [landed EXCEPT ![c] = @ \cup {Home(c)}]
    BY <1>7, <2>1 DEF Write
  <2>5. Wrote' = [Wrote EXCEPT ![c] = TRUE]
    <3>1. landed'[c] # {}
      BY <1>1, <2>4
    <3>2. \A d \in Calls : d # c => landed'[d] = landed[d]
      BY <1>1, <2>4
    <3> QED BY <3>1, <3>2 DEF Wrote
  <2>6. Wrote[c] = FALSE /\ Homes[c] = Home(c) /\ Wanted[c] = args[c].source
    BY <2>3 DEF Wrote, Homes, Wanted
  <2> QED BY <1>2, <1>3, <1>5, <2>4, <2>5, <2>6
          DEF Contract!TakeEffect, Wanted, Wrote, Answers, Homes
<1> QED BY <1>1, <1>6, <1>7, WritesAt

\* A call answers: it responds.
LEMMA AnswerRefines ==
  ASSUME IInv, Honest, NEW c \in Calls, Answer(c)
  PROVE  Contract!Respond(c)
<1>1. /\ status \in [Calls -> {"idle", "running", "returned"}]
      /\ result \in [Calls -> {"none", "ok", "incomplete", "error"}]
  BY DEF IInv, TypeOK
<1>2. /\ status[c] = "running" /\ status' = [status EXCEPT ![c] = "returned"]
      /\ UNCHANGED <<args, saved, landed, verified>>
      /\ result' = [result EXCEPT ![c] = IF @ = "none" THEN "ok" ELSE @]
  BY DEF Answer, server, written
<1>3. Wanted' = Wanted /\ Wrote' = Wrote
  BY <1>2 DEF Wanted, Wrote
<1>4. ASSUME NEW d \in Calls, d # c
      PROVE  Outcome(d)' = Outcome(d)
  <2>1. result'[d] = result[d] /\ status'[d] = status[d]
    BY <1>1, <1>2, <1>4
  <2> QED BY <1>2, <2>1 DEF Outcome
<1>5. Answers' = [Answers EXCEPT ![c] = Outcome(c)']
  BY <1>4 DEF Answers
<1>6. Outcome(c)' \in {"confirmed", "unconfirmed", "error"}
  <2>1. status'[c] = "returned"
    BY <1>1, <1>2
  <2> QED BY <2>1 DEF Outcome
<1>7. Outcome(c)' = "confirmed" => c \in held
  <2>1. Outcome(c)' = "confirmed" => Compared(c) /\ verified[c] = "yes"
    BY <1>1, <1>2 DEF Outcome, Compared
  <2> QED BY <2>1 DEF Honest, HonestAbout
<1>8. \/ c \in held /\ Answers' = [Answers EXCEPT ![c] = "confirmed"]
      \/ Answers' = [Answers EXCEPT ![c] = "unconfirmed"]
      \/ Answers' = [Answers EXCEPT ![c] = "error"]
  BY <1>5, <1>6, <1>7
<1> QED BY <1>2, <1>3, <1>8 DEF Contract!Respond, Wanted, Wrote, Answers

\* With one system, the calls, however they are interleaved, keep the promise of
\* UpdateContract: each takes effect at most once and while it runs, and answers
\* "confirmed" only if its source was there meanwhile.
THEOREM ContractKept ==
  ASSUME OneHome
  PROVE  Spec => KeepsContract
<1>1. ASSUME Init
      PROVE  Contract!Init
  <2>1. \A c \in Calls : /\ args[c].source = Initial /\ status[c] = "idle"
                         /\ landed[c] = {}
    BY <1>1 DEF Init, NoArguments
  <2>2. Wanted = [c \in Calls |-> Initial]
    BY <2>1 DEF Wanted
  <2>3. Wrote = [c \in Calls |-> FALSE]
    BY <2>1 DEF Wrote
  <2>4. Answers = [c \in Calls |-> "none"]
    BY <2>1 DEF Answers, Outcome
  <2> QED BY <1>1, <2>2, <2>3, <2>4
          DEF Init, Contract!Init, Wanted, Wrote, Answers
<1>2. ASSUME IInv, Honest, [Next]_vars
      PROVE  [Contract!Next]_(Contract!vars)
  <2>1. ASSUME NEW c \in Calls, Begin(c), Witness
        PROVE  Contract!Next
    BY <1>2, <2>1, BeginRefines, Observed DEF Contract!Next
  <2>2. ASSUME NEW c \in Calls, Request(c), Witness
        PROVE  Contract!Next
    <3>1. Contract!Observe
      BY <2>2, Observed
    <3>2. CASE Contract!TakeEffect(c)
      BY <3>1, <3>2 DEF Contract!Next
    <3>3. CASE Unchanged
      BY <3>1, <3>3 DEF Unchanged, Wanted, Wrote, Answers, Contract!Next
    <3> QED BY <1>2, <2>2, <3>2, <3>3, RequestRefines
  <2>3. ASSUME NEW c \in Calls, Answer(c), Witness
        PROVE  Contract!Next
    BY <1>2, <2>3, AnswerRefines, Observed DEF Contract!Next
  <2>4. CASE ClientStep /\ Witness
    <3>1. UNCHANGED <<saved, status, args, landed, result, verified>>
      BY <2>4 DEF ClientStep, local, reply, written
    <3>2. UNCHANGED <<Wanted, Wrote, Answers>>
      BY <3>1 DEF Wanted, Wrote, Answers, Outcome
    <3> QED BY <2>4, <3>1, <3>2, Observed DEF Wanted, Wrote, Answers, Contract!Next
  <2>5. CASE UNCHANGED vars
    <3>1. UNCHANGED <<saved, status, args, landed, result, verified, held>>
      BY <2>5 DEF vars, local, reply, server, written
    <3>2. UNCHANGED <<Wanted, Wrote, Answers>>
      BY <3>1 DEF Wanted, Wrote, Answers, Outcome
    <3> QED BY <3>1, <3>2 DEF Wanted, Wrote, Answers, Contract!vars
  <2> QED BY <1>2, <2>1, <2>2, <2>3, <2>4, <2>5 DEF Next, CallStep
<1> QED BY <1>1, <1>2, AlwaysHonest, Invariance, PTL
        DEF Spec, KeepsContract, Contract!Spec

=============================================================================
