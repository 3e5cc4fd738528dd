-------------------------- MODULE ObjectToolsProofs --------------------------
(***************************************************************************)
(* The Create* and Delete* tools leave no lock behind, and implement       *)
(* ObjectContract: a call that answers "done" has done it itself.          *)
(***************************************************************************)
EXTENDS ObjectTools, FiniteSetTheorems, SequenceTheorems, TLAPS

-----------------------------------------------------------------------------
(* The programs of the handlers.                                           *)

Effects == {"create", "delete"}

\* What a call is to do to the object, if anything.
EffectOf(a) ==
  IF a.operation = "create" THEN "create"
  ELSE IF a.type \in LocalIncludes THEN "none" ELSE "delete"

Needs(a, p, op) == \E i \in 1 .. Len(p) : p[i].do = op

\* A step that a call may make at all, with the errors it may get over.
Fit(a, x) ==
  /\ x \in Step
  /\ x.do \in Effects => x.do = EffectOf(a)
  /\ x.do \in Effects \cup {"activate", "find"} => x.onError # "ignore"
  /\ x.do = "find" => x.onError = "abort"
  /\ x.do \in {"lock", "unlock", "release"} => x.onError \in {"abort", "ignore"}

\* A lock request is followed by an unlock request, and by no step whose failure
\* would not unlock; the effect comes once, and before the activation.
Orderly(a, p) ==
  /\ p \in Seq(Step)
  /\ \A i \in 1 .. Len(p) :
       /\ Fit(a, p[i])
       /\ p[i].do = "lock" =>
            \E j \in i + 1 .. Len(p) : p[j].do \in {"unlock", "release"}
       /\ p[i].do \in {"lock", "release"} =>
            \A j \in i + 1 .. Len(p) : p[j].onError \in {"abort", "ignore"}
       /\ p[i].do \in Effects \cup {"activate"} =>
            \A j \in i + 1 .. Len(p) : p[j].do \notin Effects
       /\ p[i].do = "find" => Len(p) = 1

\* Orderly, and it does what it was called for.
Complete(a, p) ==
  /\ Orderly(a, p)
  /\ EffectOf(a) # "none" => Needs(a, p, EffectOf(a))
  /\ a.operation = "create" /\ a.activate => Needs(a, p, "activate")

\* The steps a program is written with are steps.
LEMMA StepTypes ==
  ASSUME NEW op \in Ops
  PROVE  /\ Must(op) \in Step /\ May(op) \in Step
         /\ OrLook(op) \in Step /\ OrAssume(op) \in Step
         /\ Must(op).do = op /\ May(op).do = op
         /\ OrLook(op).do = op /\ OrAssume(op).do = op
         /\ Must(op).onError = "abort" /\ May(op).onError = "ignore"
         /\ OrLook(op).onError = "look" /\ OrAssume(op).onError = "assume"
  BY DEF Must, May, OrLook, OrAssume, Step, Policies

\* A request to activate may follow the effect.
LEMMA ThenActivate ==
  ASSUME NEW a \in Arguments, a.operation = "create",
         NEW p, Orderly(a, p), Needs(a, p, "create"),
         NEW x \in {Must("activate"), OrAssume("activate")},
         \/ x = Must("activate")
         \/ \A i \in 1 .. Len(p) : p[i].do \notin {"lock", "release"},
         \A i \in 1 .. Len(p) : p[i].do # "find"
  PROVE  Complete(a, p \o Only(a.activate, << x >>))
<1>1. p \in Seq(Step) /\ x \in Step /\ x.do = "activate" /\ Fit(a, x)
  BY StepTypes DEF Orderly, Fit, Effects, Ops
<1>2. CASE a.activate
  <2> DEFINE q == p \o << x >>
  <2>1. /\ q \in Seq(Step) /\ Len(q) = Len(p) + 1 /\ q[Len(p) + 1] = x
        /\ \A i \in 1 .. Len(p) : q[i] = p[i]
    BY <1>1
  <2> HIDE DEF q
  <2>2. Orderly(a, q)
    <3>1. Len(p) \in Nat /\ q[Len(p) + 1].do = "activate"
      BY <1>1, <2>1, LenProperties
    <3>2. \A i \in 1 .. Len(q) : Fit(a, q[i])
      BY <1>1, <2>1, <3>1 DEF Orderly
    <3>3. ASSUME NEW i \in 1 .. Len(q), q[i].do = "lock"
          PROVE  \E j \in i + 1 .. Len(q) : q[j].do \in {"unlock", "release"}
      <4>1. i \in 1 .. Len(p) /\ p[i].do = "lock"
        BY <2>1, <3>1, <3>3
      <4>2. PICK j \in i + 1 .. Len(p) : p[j].do \in {"unlock", "release"}
        BY <4>1 DEF Orderly
      <4>3. j \in i + 1 .. Len(q) /\ q[j] = p[j]
        BY <2>1, <3>1, <4>1, <4>2
      <4> QED BY <4>2, <4>3
    <3>4. ASSUME NEW i \in 1 .. Len(q), q[i].do \in Effects \cup {"activate"},
                 NEW j \in i + 1 .. Len(q)
          PROVE  q[j].do \notin Effects
      <4>1. CASE j = Len(p) + 1
        BY <3>1, <4>1 DEF Effects
      <4>2. CASE j # Len(p) + 1
        <5>1. i \in 1 .. Len(p) /\ j \in i + 1 .. Len(p) /\ j \in 1 .. Len(p)
          BY <2>1, <3>1, <4>2
        <5>2. p[i].do \in Effects \cup {"activate"}
          BY <2>1, <3>4, <5>1
        <5> QED BY <2>1, <5>1, <5>2 DEF Orderly
      <4> QED BY <4>1, <4>2
    <3>5. ASSUME NEW i \in 1 .. Len(q), q[i].do \in {"lock", "release"},
                 NEW j \in i + 1 .. Len(q)
          PROVE  q[j].onError \in {"abort", "ignore"}
      <4>1. i \in 1 .. Len(p) /\ p[i].do \in {"lock", "release"}
        BY <2>1, <3>1, <3>5
      <4>2. CASE j = Len(p) + 1
        BY <2>1, <4>1, <4>2, StepTypes DEF Ops
      <4>3. CASE j # Len(p) + 1
        <5>1. j \in i + 1 .. Len(p) /\ q[j] = p[j]
          BY <2>1, <3>1, <4>1, <4>3
        <5> QED BY <4>1, <5>1 DEF Orderly
      <4> QED BY <4>2, <4>3
    <3>6. \A i \in 1 .. Len(q) : q[i].do # "find"
      BY <2>1, <3>1
    <3> QED BY <2>1, <3>2, <3>3, <3>4, <3>5, <3>6 DEF Orderly
  <2>3. Needs(a, q, "create") /\ Needs(a, q, "activate")
    BY <1>1, <2>1 DEF Needs
  <2>4. p \o Only(a.activate, << x >>) = q
    BY <1>2 DEF Only, q
  <2> QED BY <2>2, <2>3, <2>4 DEF Complete, EffectOf
<1>3. CASE ~ a.activate
  <2>1. p \o Only(a.activate, << x >>) = p
    BY <1>1, <1>3 DEF Only
  <2> QED BY <1>3, <2>1 DEF Complete, EffectOf
<1> QED BY <1>2, <1>3

\* A section, written out.
LEMMA SectionSteps ==
  ASSUME NEW x \in Step, NEW y \in Step
  PROVE  Section(<< x >>, y) = << Must("lock"), x, y >>
<1> DEFINE s == Section(<< x >>, y)
           t == << Must("lock"), x, y >>
<1>1. Must("lock") \in Step
  BY StepTypes DEF Ops
<1>2. /\ s \in Seq(Step) /\ t \in Seq(Step) /\ Len(s) = 3 /\ Len(t) = 3
      /\ s[1] = t[1] /\ s[2] = t[2] /\ s[3] = t[3]
  BY <1>1 DEF Section
<1> HIDE DEF s, t
<1>3. s = t
  BY <1>2, SeqEqual
<1> QED BY <1>3 DEF s, t

\* A section after two other steps, written out.
LEMMA ThenSection ==
  << Must("validate"), Must("create") >>
      \o << Must("lock"), Must("put"), Must("unlock") >>
    = << Must("validate"), Must("create"), Must("lock"), Must("put"),
         Must("unlock") >>
<1> DEFINE s == << Must("validate"), Must("create") >>
                  \o << Must("lock"), Must("put"), Must("unlock") >>
           t == << Must("validate"), Must("create"), Must("lock"), Must("put"),
                   Must("unlock") >>
<1>1. /\ Must("validate") \in Step /\ Must("create") \in Step
      /\ Must("lock") \in Step /\ Must("put") \in Step /\ Must("unlock") \in Step
  BY StepTypes DEF Ops
<1>2. /\ s \in Seq(Step) /\ t \in Seq(Step) /\ Len(s) = 5 /\ Len(t) = 5
      /\ \A i \in 1 .. 5 : s[i] = t[i]
  BY <1>1
<1> HIDE DEF s, t
<1>3. s = t
  BY <1>2, SeqEqual
<1> QED BY <1>3 DEF s, t

\* Every create handler, by the shape of its program.
LEMMA CreateComplete ==
  ASSUME NEW a \in Arguments, a.operation = "create"
  PROVE  Complete(a, CreateHandler(a))
<1> DEFINE Good(p) == /\ Orderly(a, p) /\ Needs(a, p, "create")
                      /\ \A i \in 1 .. Len(p) : p[i].do # "find"
           Activation == Only(a.activate, << Must("activate") >>)
<1>1. ASSUME NEW p, Good(p)
      PROVE  Complete(a, p \o Activation)
  BY <1>1, ThenActivate
<1>2. ASSUME NEW p, Good(p), ~ a.activate
      PROVE  Complete(a, p)
  BY <1>2 DEF Complete, EffectOf
<1>3. Possible(a) /\ a.type \in Creatable
  BY DEF Arguments, Possible
<1>4. ASSUME NEW p, Good(p), a.type \notin TakesActivate.create
      PROVE  Complete(a, p)
  BY <1>2, <1>3, <1>4 DEF Possible
<1>5. Good(<< Must("create") >>) /\ Good(<< Must("validate"), Must("create") >>)
  BY StepTypes DEF Orderly, Needs, Fit, EffectOf, Effects, Ops
<1>6. Good(<< Must("validate"), Must("create"), Must("lock"), Must("put"),
              Must("unlock"), May("read"), Must("check") >>)
  BY StepTypes DEF Orderly, Needs, Fit, EffectOf, Effects, Ops
<1>7. Good(<< Must("validate"), Must("create"), Must("lock"), Must("release"),
              May("check") >>)
  BY StepTypes DEF Orderly, Needs, Fit, EffectOf, Effects, Ops
<1>8. Good(<< Must("create"), Must("lock"), Must("check"), Must("release"),
              May("read") >>)
  BY StepTypes DEF Orderly, Needs, Fit, EffectOf, Effects, Ops
<1>9. Good(<< Must("validate"), Must("create"), Must("lock"), Must("put"),
              Must("unlock") >>)
  BY StepTypes DEF Orderly, Needs, Fit, EffectOf, Effects, Ops
<1>10. Good(<< OrLook("validate"), Must("create"), Must("check"), Must("lock"),
               Must("check"), Must("unlock"), Must("check") >>)
  BY StepTypes DEF Orderly, Needs, Fit, EffectOf, Effects, Ops
<1>11. Good(<< OrLook("validate"), OrLook("create"), OrLook("check") >>)
  BY StepTypes DEF Orderly, Needs, Fit, EffectOf, Effects, Ops
<1>12. /\ Good(<< Must("validate"), OrAssume("create") >>)
       /\ \A i \in 1 .. Len(<< Must("validate"), OrAssume("create") >>) :
            << Must("validate"), OrAssume("create") >>[i].do \notin {"lock", "release"}
  BY StepTypes DEF Orderly, Needs, Fit, EffectOf, Effects, Ops
<1> HIDE DEF Good, Activation
<1>20. CASE a.type \in {"PROGRAM", "DDL", "TABLE", "FUNCTION_MODULE"}
  <2>1. CreateHandler(a) = << Must("validate"), Must("create") >>
    BY <1>20 DEF CreateHandler, HandleCreateProgram, HandleCreateDdl,
                 HandleCreateTable, HandleCreateFunctionModule
  <2> QED BY <1>4, <1>5, <1>20, <2>1 DEF TakesActivate
<1>21. CASE a.type \in {"INTERFACE", "FUNCTION_INCLUDE", "MESSAGE_CLASS",
                        "MESSAGE_CLASS_MESSAGE", "BEHAVIOR_IMPLEMENTATION",
                        "CDS_UNIT_TEST"}
  <2>1. CreateHandler(a) = << Must("create") >>
    BY <1>21 DEF CreateHandler, HandleCreateInterface, HandleCreateFunctionInclude,
                 HandleCreateMessageClass, HandleCreateMessageClassMessage,
                 HandleCreateBehaviorImplementation, HandleCreateCdsUnitTest
  <2> QED BY <1>4, <1>5, <1>21, <2>1 DEF TakesActivate
<1>22. CASE a.type = "SERVICE_BINDING"
  BY <1>1, <1>5, <1>22 DEF CreateHandler, HandleCreateServiceBinding, Activation
<1>23. CASE a.type \in {"DOMAIN", "DATA_ELEMENT"}
  BY <1>1, <1>6, <1>23
  DEF CreateHandler, HandleCreateDomain, HandleCreateDataElement, Activation
<1>24. CASE a.type = "STRUCTURE"
  BY <1>1, <1>7, <1>24 DEF CreateHandler, HandleCreateStructure, Activation
<1>25. CASE a.type \in {"BEHAVIOR_DEFINITION", "METADATA_EXTENSION"}
  BY <1>1, <1>8, <1>25
  DEF CreateHandler, HandleCreateBehaviorDefinition, HandleCreateMetadataExtension,
      Activation
<1>26. CASE a.type = "SERVICE_DEFINITION"
  <2> DEFINE p == << Must("validate"), Must("create") >>
                    \o Only(a.source, Section(<< Must("put") >>, Must("unlock")))
  <2>1. /\ Must("validate") \in Step /\ Must("create") \in Step
        /\ Must("lock") \in Step /\ Must("put") \in Step /\ Must("unlock") \in Step
    BY StepTypes DEF Ops
  <2>2. ASSUME a.source
        PROVE  Good(p)
    <3>1. Section(<< Must("put") >>, Must("unlock"))
            = << Must("lock"), Must("put"), Must("unlock") >>
      BY <2>1, SectionSteps
    <3>2. << Must("validate"), Must("create") >>
              \o << Must("lock"), Must("put"), Must("unlock") >>
            = << Must("validate"), Must("create"), Must("lock"), Must("put"),
                 Must("unlock") >>
      BY <2>1, ThenSection
    <3> QED BY <1>9, <2>2, <3>1, <3>2 DEF Only
  <2>3. ASSUME ~ a.source
        PROVE  Good(p)
    <3>1. p = << Must("validate"), Must("create") >>
      BY <2>1, <2>3, ConcatEmptySeq DEF Only
    <3> QED BY <1>5, <3>1
  <2>4. Good(p)
    BY <2>2, <2>3
  <2>5. CreateHandler(a) = p \o Activation
    BY <1>26 DEF CreateHandler, HandleCreateServiceDefinition, Activation
  <2> HIDE DEF p
  <2> QED BY <1>1, <2>4, <2>5
<1>27. CASE a.type = "CLASS"
  BY <1>4, <1>10, <1>27 DEF CreateHandler, HandleCreateClass, TakesActivate
<1>28. CASE a.type = "PACKAGE"
  <2>1. CreateHandler(a)
          = << OrLook("validate"), OrLook("create"), OrLook("check") >>
    BY <1>28 DEF CreateHandler, HandleCreatePackage
  <2> QED BY <1>4, <1>11, <1>28, <2>1 DEF TakesActivate
<1>29. CASE a.type = "FUNCTION_GROUP"
  <2>1. CreateHandler(a) = << Must("validate"), OrAssume("create") >>
                             \o Only(a.activate, << OrAssume("activate") >>)
    BY <1>29 DEF CreateHandler, HandleCreateFunctionGroup
  <2> QED BY <1>12, <2>1, ThenActivate DEF Good
<1> QED BY <1>3, <1>20, <1>21, <1>22, <1>23, <1>24, <1>25, <1>26, <1>27, <1>28,
           <1>29 DEF Creatable

\* Every delete handler: one request, or an update of a local include.
LEMMA DeleteComplete ==
  ASSUME NEW a \in Arguments, a.operation = "delete"
  PROVE  Complete(a, DeleteHandler(a))
<1>1. Possible(a) /\ a.type \in Deletable
  BY DEF Arguments, Possible
<1>2. CASE a.type \in LocalIncludes
  <2> DEFINE p == << Must("lock"), Must("put"), Must("unlock") >>
             q == << Must("lock"), Must("put"), Must("unlock"), Must("activate") >>
  <2>1. /\ Must("lock") \in Step /\ Must("put") \in Step /\ Must("unlock") \in Step
        /\ Must("activate") \in Step
    BY StepTypes DEF Ops
  <2>2. DeleteHandler(a) = EmptyInclude(a.activate)
    BY <1>2 DEF DeleteHandler, LocalIncludes, HandleDeleteLocalDefinitions,
                HandleDeleteLocalMacros, HandleDeleteLocalTestClass,
                HandleDeleteLocalTypes
  <2>3. EmptyInclude(a.activate) = p \o Only(a.activate, << Must("activate") >>)
    BY <2>1, SectionSteps DEF EmptyInclude
  <2>4. p \o << >> = p /\ p \o << Must("activate") >> = q
    <3>1. p \o << >> = p
      BY <2>1, ConcatEmptySeq
    <3>2. /\ p \o << Must("activate") >> \in Seq(Step) /\ q \in Seq(Step)
          /\ Len(p \o << Must("activate") >>) = 4 /\ Len(q) = 4
          /\ \A i \in 1 .. 4 : (p \o << Must("activate") >>)[i] = q[i]
      BY <2>1
    <3> HIDE DEF p, q
    <3>3. p \o << Must("activate") >> = q
      BY <3>2, SeqEqual
    <3> QED BY <3>1, <3>3
  <2>5. Orderly(a, p) /\ Orderly(a, q)
    BY StepTypes DEF Orderly, Fit, Effects, Ops
  <2> HIDE DEF p, q
  <2>6. Orderly(a, DeleteHandler(a))
    BY <2>2, <2>3, <2>4, <2>5 DEF Only
  <2> QED BY <1>2, <2>6 DEF Complete, EffectOf
<1>3. CASE a.type \notin LocalIncludes
  <2>1. DeleteHandler(a) = << Must("delete") >>
    BY <1>1, <1>3
    DEF Deletable, Creatable, LocalIncludes, DeleteHandler,
        HandleDeleteBehaviorDefinition, HandleDeleteBehaviorImplementation,
        HandleDeleteCdsUnitTest, HandleDeleteClass, HandleDeleteDataElement,
        HandleDeleteDdl, HandleDeleteDomain, HandleDeleteFunctionGroup,
        HandleDeleteFunctionInclude, HandleDeleteFunctionModule,
        HandleDeleteInterface, HandleDeleteMessageClass,
        HandleDeleteMessageClassMessage, HandleDeleteMetadataExtension,
        HandleDeleteProgram, HandleDeleteServiceBinding,
        HandleDeleteServiceDefinition, HandleDeleteStructure, HandleDeleteTable
  <2>2. Complete(a, << Must("delete") >>)
    BY <1>3, StepTypes
    DEF Complete, Orderly, Needs, Fit, EffectOf, Effects, Ops
  <2> QED BY <2>1, <2>2
<1> QED BY <1>2, <1>3

\* Every tool does what it is called for, if none of its requests fails.
LEMMA ProgramComplete ==
  ASSUME NEW a \in Arguments
  PROVE  Complete(a, Program(a))
<1>1. a.operation \in {"create", "delete"}
  BY DEF Arguments
<1> QED BY <1>1, CreateComplete, DeleteComplete DEF Program

-----------------------------------------------------------------------------
(* What is left of a program.                                              *)

\* A program seen from its first step.
LEMMA FirstStep ==
  ASSUME NEW p \in Seq(Step), p # << >>
  PROVE  /\ Head(p) = p[1] /\ 1 \in 1 .. Len(p) /\ Head(p) \in Step
         /\ Tail(p) \in Seq(Step) /\ Len(p) \in Nat
         /\ Len(Tail(p)) = Len(p) - 1
         /\ \A i \in 1 .. Len(Tail(p)) : Tail(p)[i] = p[i + 1]
BY EmptySeq, LenProperties, HeadTailProperties

\* What follows the first step of an orderly program is orderly.
LEMMA OrderlyTail ==
  ASSUME NEW a, NEW p, Orderly(a, p), p # << >>
  PROVE  Orderly(a, Tail(p))
<1> DEFINE q == Tail(p)
<1>1. /\ p \in Seq(Step) /\ q \in Seq(Step)
      /\ Len(p) \in Nat /\ Len(q) = Len(p) - 1
      /\ \A i \in 1 .. Len(q) : q[i] = p[i + 1] /\ i + 1 \in 1 .. Len(p)
  BY FirstStep DEF Orderly
<1> HIDE DEF q
<1>2. ASSUME NEW i \in 1 .. Len(q), q[i].do = "lock"
      PROVE  \E j \in i + 1 .. Len(q) : q[j].do \in {"unlock", "release"}
  <2>1. PICK j \in i + 1 + 1 .. Len(p) : p[j].do \in {"unlock", "release"}
    BY <1>1, <1>2 DEF Orderly
  <2>2. j - 1 \in i + 1 .. Len(q) /\ q[j - 1] = p[j]
    BY <1>1, <2>1
  <2> QED BY <2>1, <2>2
<1>3. ASSUME NEW i \in 1 .. Len(q), NEW j \in i + 1 .. Len(q)
      PROVE  /\ i + 1 \in 1 .. Len(p) /\ j + 1 \in i + 1 + 1 .. Len(p)
             /\ q[i] = p[i + 1] /\ q[j] = p[j + 1]
  BY <1>1
<1>4. ASSUME NEW i \in 1 .. Len(q), q[i].do \in {"lock", "release"},
             NEW j \in i + 1 .. Len(q)
      PROVE  q[j].onError \in {"abort", "ignore"}
  BY <1>3, <1>4 DEF Orderly
<1>5. ASSUME NEW i \in 1 .. Len(q), q[i].do \in Effects \cup {"activate"},
             NEW j \in i + 1 .. Len(q)
      PROVE  q[j].do \notin Effects
  BY <1>3, <1>5 DEF Orderly
<1>6. ASSUME NEW i \in 1 .. Len(q)
      PROVE  Fit(a, q[i]) /\ q[i].do # "find"
  <2>1. i + 1 \in 1 .. Len(p) /\ q[i] = p[i + 1] /\ Len(p) # 1
    BY <1>1, <1>6
  <2>2. Fit(a, p[i + 1])
    BY <2>1 DEF Orderly
  <2>3. p[i + 1].do # "find"
    BY <2>1 DEF Orderly
  <2> QED BY <2>1, <2>2, <2>3
<1> QED BY <1>1, <1>2, <1>4, <1>5, <1>6 DEF Orderly, q

\* The other programs an error leaves behind.
LEMMA OrderlyRest ==
  ASSUME NEW a
  PROVE  /\ Orderly(a, << >>) /\ Orderly(a, << May("unlock") >>)
         /\ Orderly(a, << Must("find") >>)
BY StepTypes DEF Orderly, Fit, Effects, Ops

\* What is left of the program of c after a request, and what it has to answer.
Leaves(c) ==
  \/ /\ Proceed(c) /\ Head(todo[c]).do # "find"
     /\ Head(todo[c]).do \in Effects => c \in did'
     /\ Head(todo[c]).do = "activate" => active'
  \/ Abandon(c)
  \/ Head(todo[c]).onError = "look" /\ Look(c)
  \/ Head(todo[c]).onError = "assume" /\ Assume(c)
  \/ /\ Head(todo[c]).do = "find" /\ there /\ there'
     /\ todo' = [todo EXCEPT ![c] = << >>]
     /\ result' = [result EXCEPT ![c] = "found"]

\* Only a create or a delete request makes the object come or go.
Affects(c) ==
  \/ UNCHANGED <<there, did>>
  \/ /\ did' = did \cup {c} /\ there' = ~ there
     /\ Head(todo[c]).do = IF there THEN "delete" ELSE "create"

Holders == /\ lock'.owner = lock.owner /\ UNCHANGED handle
           /\ unlockFailed \subseteq unlockFailed'
           /\ unlockFailed' \subseteq Calls

\* A request takes the lock, or releases it, or leaves its owner.
Locks(c) ==
  \/ /\ Holders
     /\ Head(todo[c]).do \in {"unlock", "release"} => c \in unlockFailed'
  \/ /\ Head(todo[c]).do = "lock" /\ Proceed(c) /\ UNCHANGED unlockFailed
     /\ lock.owner = Nobody /\ lock'.owner = c
     /\ handle' = [handle EXCEPT ![c] = TRUE]
  \/ /\ Head(todo[c]).do \in {"unlock", "release"} /\ UNCHANGED unlockFailed
     /\ lock'.owner = Nobody
     /\ \/ UNCHANGED handle
        \/ handle' = [handle EXCEPT ![c] = FALSE]
        \/ Head(todo[c]).do = "release" /\ handle' = [handle EXCEPT ![c] = TRUE]

\* A step whose failure is ignored, and which is left to be done by no other.
LEMMA FailLeaves ==
  ASSUME NEW c \in Calls, Fail(c),
         Head(todo[c]).do \in Effects \cup {"activate", "find"}
           => Head(todo[c]).onError # "ignore"
  PROVE  Leaves(c)
BY DEF Fail, Leaves

\* A lost session leaves the owner of the lock.
LEMMA LockStays ==
  ASSUME TypeOK, NEW c \in Calls, UNCHANGED lock \/ SessionAfterFailure(c)
  PROVE  lock'.owner = lock.owner /\ lock' \in LockStates
BY DEF TypeOK, LockStates, SessionAfterFailure

\* What every request has in common.
LEMMA RequestShape ==
  ASSUME TypeOK, NEW c \in Calls, Orderly(args[c], todo[c]), Request(c)
  PROVE  /\ status[c] = "running" /\ todo[c] # << >>
         /\ UNCHANGED frame
         /\ Leaves(c) /\ Affects(c) /\ Locks(c)
         /\ lock' \in LockStates /\ active' \in BOOLEAN
<1>1. ASSUME todo[c] # << >>
      PROVE  Fit(args[c], Head(todo[c]))
  BY <1>1, FirstStep DEF Orderly
<1>2. ASSUME todo[c] # << >>, Fail(c)
      PROVE  Leaves(c)
  BY <1>1, <1>2, FailLeaves DEF Fit
<1>3. /\ there \in BOOLEAN /\ active \in BOOLEAN /\ lock \in LockStates
      /\ unlockFailed \subseteq Calls
  BY DEF TypeOK
<1> USE DEF Awaits, Effects
<1>10. CASE Ask(c)
  BY <1>2, <1>3, <1>10, LockStays DEF Ask, Leaves, Affects, Locks, Holders, object
<1>11. CASE Create(c)
  <2>1. Leaves(c)
    BY <1>2, <1>11 DEF Create, Leaves
  <2>2. Affects(c)
    BY <1>3, <1>11 DEF Create, Affects, object
  <2> QED BY <1>3, <1>11, <2>1, <2>2, LockStays DEF Create, Locks, Holders, object
<1>12. CASE Delete(c)
  <2>1. Leaves(c)
    BY <1>2, <1>12 DEF Delete, Leaves
  <2>2. Affects(c)
    BY <1>3, <1>12 DEF Delete, Affects, object, MayTouch
  <2> QED BY <1>3, <1>12, <2>1, <2>2, LockStays DEF Delete, Locks, Holders, object
<1>13. CASE Lock(c)
  <2>1. ConnOf[c] \in Connections
    BY ConstantsAssumption
  <2>2. Leaves(c) /\ Affects(c)
    BY <1>2, <1>13 DEF Lock, Leaves, Affects, object
  <2>3. [owner |-> c, conn |-> ConnOf[c], live |-> TRUE] \in LockStates
    BY <2>1 DEF LockStates
  <2>4. Locks(c) /\ lock' \in LockStates
    <3>1. CASE /\ lock = Free /\ Proceed(c)
               /\ lock' = [owner |-> c, conn |-> ConnOf[c], live |-> TRUE]
               /\ handle' = [handle EXCEPT ![c] = TRUE]
      BY <1>13, <2>3, <3>1 DEF Lock, Locks, Free
    <3>2. CASE SessionAfterFailure(c) /\ UNCHANGED handle
      BY <1>3, <1>13, <3>2, LockStays DEF Lock, Locks, Holders
    <3> QED BY <1>13, <3>1, <3>2 DEF Lock
  <2> QED BY <1>3, <1>13, <2>2, <2>4 DEF Lock, object
<1>14. CASE Put(c)
  BY <1>2, <1>3, <1>14, LockStays DEF Put, Leaves, Affects, Locks, Holders, object
<1>15. CASE Unlock(c)
  <2>1. Free \in LockStates /\ Free.owner = Nobody
    BY DEF Free, LockStates
  <2>2. Leaves(c) /\ Affects(c)
    BY <1>2, <1>15 DEF Unlock, Leaves, Affects, object
  <2>3. Locks(c) /\ lock' \in LockStates
    <3>1. CASE /\ HoldsLock(c) /\ lock' = Free /\ UNCHANGED unlockFailed
               /\ handle' = [handle EXCEPT ![c] = Head(todo[c]).do = "release"]
      <4>1. CASE Head(todo[c]).do = "release"
        BY <1>15, <2>1, <3>1, <4>1 DEF Unlock, Locks
      <4>2. CASE Head(todo[c]).do # "release"
        BY <1>15, <2>1, <3>1, <4>2 DEF Unlock, Locks
      <4> QED BY <4>1, <4>2
    <3>2. CASE HoldsLock(c) /\ lock' = Free /\ UNCHANGED <<handle, unlockFailed>>
      BY <1>15, <2>1, <3>2 DEF Unlock, Locks
    <3>3. CASE /\ SessionAfterFailure(c) /\ UNCHANGED handle
               /\ unlockFailed' = unlockFailed \cup {c}
      BY <1>3, <3>3, LockStays DEF Locks, Holders
    <3> QED BY <1>15, <3>1, <3>2, <3>3 DEF Unlock
  <2> QED BY <1>3, <1>15, <2>2, <2>3 DEF Unlock, object
<1>16. CASE Activate(c)
  BY <1>2, <1>3, <1>16, LockStays
  DEF Activate, Leaves, Affects, Locks, Holders
<1>17. CASE Find(c)
  BY <1>2, <1>3, <1>17, LockStays DEF Find, Leaves, Affects, Locks, Holders, object
<1> QED BY <1>10, <1>11, <1>12, <1>13, <1>14, <1>15, <1>16, <1>17 DEF Request

-----------------------------------------------------------------------------
(* The inductive invariant.                                                *)

\* The calls inside a critical section on a connection.
InSection(k) ==
  {c \in Calls : status[c] = "running" /\ args[c].surface = "high" /\ ConnOf[c] = k}

Counted == \A k \in Connections : critical[k] = Cardinality(InSection(k))

Ahead(c, ops) == \E i \in 1 .. Len(todo[c]) : todo[c][i].do \in ops

\* No error makes a call that holds a handle forget to unlock.
Guarded(c) ==
  handle[c] =>
    \A i \in 1 .. Len(todo[c]) :
      todo[c][i].onError \in {"abort", "ignore"} /\ todo[c][i].do # "find"

\* A call that has not failed has done its work, or has it ahead.
Done(c)  == EffectOf(args[c]) # "none" => c \in did
Shown(c) == args[c].operation = "create" /\ args[c].activate => c \in shown

Underway(c) ==
  status[c] = "running" /\ result[c] = "none" =>
    \/ Ahead(c, {"find"})
    \/ /\ Done(c) \/ Ahead(c, Effects)
       /\ Shown(c) \/ Ahead(c, {"activate"})

InOrder(c) ==
  /\ Orderly(args[c], todo[c])
  /\ Guarded(c)
  /\ status[c] # "running" => todo[c] = << >>
  /\ status[c] = "idle" => c \notin did /\ result[c] = "none" /\ ~ handle[c]
  /\ Ahead(c, Effects) => c \notin did
  /\ Underway(c)

\* What a result means.
Meant(c) ==
  /\ status[c] = "returned" => result[c] # "none"
  /\ result[c] = "ok" => status[c] = "returned" /\ Done(c) /\ Shown(c)
  /\ result[c] = "found" => c \in saw

\* A call owns the lock only until the unlock request it has still to make.
OwnerKnown ==
  \A c \in Calls :
    lock.owner = c =>
      /\ status[c] # "idle"
      /\ \/ c \in unlockFailed
         \/ status[c] = "running" /\ handle[c] /\ Ahead(c, {"unlock", "release"})

IInv == /\ TypeOK /\ Counted /\ OwnerKnown
        /\ \A c \in Calls : InOrder(c) /\ Meant(c)

\* At the start no call runs and no lock is taken.
LEMMA InitInvariant ==
  ASSUME Init
  PROVE  IInv
<1>1. NoArguments \in Arguments
  BY DEF NoArguments, Arguments, Possible, Creatable, HighOnly
<1>2. Free \in LockStates /\ Free.owner \notin Calls
  BY ConstantsAssumption DEF Free, LockStates
<1>3. kind \in Creatable
  BY DEF Init, Kind, LocalIncludes, Creatable
<1>4. << >> \in Seq(Step)
  OBVIOUS
<1>5. TypeOK
  BY <1>1, <1>2, <1>3, <1>4, ConstantsAssumption DEF Init, TypeOK
<1>6. Counted
  <2>1. ASSUME NEW k \in Connections
        PROVE  critical[k] = Cardinality(InSection(k))
    <3>1. InSection(k) = {}
      BY DEF Init, InSection
    <3> QED BY <3>1, FS_EmptySet DEF Init
  <2> QED BY <2>1 DEF Counted
<1>7. OwnerKnown
  BY <1>2 DEF Init, OwnerKnown
<1>8. \A c \in Calls : InOrder(c) /\ Meant(c)
  BY OrderlyRest DEF Init, InOrder, Meant, Guarded, Ahead, Underway
<1> QED BY <1>5, <1>6, <1>7, <1>8 DEF IInv

\* The sets of calls in a critical section are finite.
LEMMA SectionsFinite == \A k : IsFiniteSet(InSection(k))
<1>1. \A k : InSection(k) \subseteq Calls
  BY DEF InSection
<1> QED BY <1>1, FS_Subset, ConstantsAssumption

\* A call that begins joins the critical section of its connection, and has a
\* complete program ahead.
LEMMA BeginInvariant ==
  ASSUME IInv, NEW c \in Calls, Begin(c), Witness
  PROVE  IInv'
<1>1. PICK a \in Requests[c] :
        /\ Kind(a.type) = kind
        /\ args' = [args EXCEPT ![c] = a]
        /\ todo' = [todo EXCEPT ![c] = Program(a)]
        /\ critical' = IF a.surface = "high"
                         THEN [critical EXCEPT ![ConnOf[c]] = @ + 1]
                         ELSE critical
  BY DEF Begin
<1>2. a \in Arguments /\ ConnOf[c] \in Connections /\ Complete(a, Program(a))
  BY ConstantsAssumption, ProgramComplete
<1>3. /\ status[c] = "idle" /\ status' = [status EXCEPT ![c] = "running"]
      /\ UNCHANGED <<kind, handle, result, there, active, did, lock, unlockFailed>>
  BY DEF Begin, object
<1>4. /\ TypeOK /\ status \in [Calls -> {"idle", "running", "returned"}]
      /\ args \in [Calls -> Arguments] /\ todo \in [Calls -> Seq(Step)]
      /\ critical \in [Connections -> Nat]
  BY DEF IInv, TypeOK
<1>5. saw \subseteq saw' /\ saw' \subseteq Calls /\ shown' \subseteq Calls
      /\ shown \subseteq shown'
  BY <1>3, <1>4 DEF Witness, TypeOK
<1>6. TypeOK'
  <2>1. Program(a) \in Seq(Step)
    BY <1>2 DEF Complete, Orderly
  <2>2. /\ args' \in [Calls -> Arguments] /\ todo' \in [Calls -> Seq(Step)]
        /\ status' \in [Calls -> {"idle", "running", "returned"}]
        /\ critical' \in [Connections -> Nat]
    BY <1>1, <1>2, <1>3, <1>4, <2>1
  <2> QED BY <1>3, <1>4, <1>5, <2>2 DEF TypeOK
<1>7. Counted'
  <2>1. ASSUME NEW k \in Connections
        PROVE  critical'[k] = Cardinality(InSection(k)')
    <3>1. critical[k] = Cardinality(InSection(k)) /\ IsFiniteSet(InSection(k))
      BY SectionsFinite DEF IInv, Counted
    <3>2. CASE a.surface = "high" /\ k = ConnOf[c]
      <4>1. InSection(k)' = InSection(k) \cup {c}
        BY <1>1, <1>3, <1>4, <3>2 DEF InSection
      <4>2. c \notin InSection(k)
        BY <1>3 DEF InSection
      <4>3. Cardinality(InSection(k) \cup {c}) = Cardinality(InSection(k)) + 1
        BY <3>1, <4>2, FS_AddElement
      <4> QED BY <1>1, <1>4, <3>1, <3>2, <4>1, <4>3
    <3>3. CASE ~ (a.surface = "high" /\ k = ConnOf[c])
      <4>1. InSection(k)' = InSection(k)
        BY <1>1, <1>3, <1>4, <3>3 DEF InSection
      <4>2. critical'[k] = critical[k]
        BY <1>1, <1>4, <3>3
      <4> QED BY <3>1, <4>1, <4>2
    <3> QED BY <3>2, <3>3
  <2> QED BY <2>1 DEF Counted
<1>8. OwnerKnown'
  BY <1>1, <1>3, <1>4 DEF IInv, OwnerKnown, Ahead
<1>9. ASSUME NEW d \in Calls, d # c
      PROVE  InOrder(d)' /\ Meant(d)'
  <2>1. /\ todo'[d] = todo[d] /\ args'[d] = args[d] /\ status'[d] = status[d]
        /\ handle'[d] = handle[d] /\ result'[d] = result[d]
    BY <1>1, <1>3, <1>4, <1>9
  <2>2. InOrder(d) /\ Meant(d)
    BY DEF IInv
  <2> QED BY <1>3, <1>5, <2>1, <2>2
          DEF InOrder, Meant, Guarded, Underway, Done, Shown, Ahead
<1>10. InOrder(c)' /\ Meant(c)'
  <2>1. c \notin did /\ result[c] = "none" /\ ~ handle[c]
    BY <1>3 DEF IInv, InOrder
  <2>2. todo'[c] = Program(a) /\ args'[c] = a /\ status'[c] = "running"
    BY <1>1, <1>3, <1>4
  <2>3. Underway(c)'
    BY <1>2, <2>2 DEF Underway, Complete, Needs, Done, Shown, Ahead, EffectOf, Effects
  <2>4. Orderly(a, Program(a))
    BY <1>2 DEF Complete
  <2> QED BY <1>3, <2>1, <2>2, <2>3, <2>4 DEF InOrder, Meant, Guarded
<1> QED BY <1>6, <1>7, <1>8, <1>9, <1>10 DEF IInv

\* A call that answers leaves the critical section; if it answers with success,
\* its work is done, for it has nothing left to do.
LEMMA AnswerInvariant ==
  ASSUME IInv, NEW c \in Calls, Answer(c), Witness
  PROVE  IInv'
<1>1. /\ status[c] = "running" /\ todo[c] = << >>
      /\ status' = [status EXCEPT ![c] = "returned"]
      /\ result' = [result EXCEPT ![c] = IF @ = "none" THEN "ok" ELSE @]
      /\ critical' = IF args[c].surface = "high"
                       THEN [critical EXCEPT ![ConnOf[c]] = @ - 1] ELSE critical
      /\ UNCHANGED <<kind, args, todo, handle, there, active, did, lock,
                     unlockFailed>>
  BY DEF Answer, object
<1>2. /\ TypeOK /\ status \in [Calls -> {"idle", "running", "returned"}]
      /\ result \in [Calls -> {"none", "ok", "found", "assumed", "error"}]
      /\ critical \in [Connections -> Nat]
      /\ ConnOf[c] \in Connections
  BY ConstantsAssumption DEF IInv, TypeOK
<1>3. saw \subseteq saw' /\ saw' \subseteq Calls /\ shown' \subseteq Calls
      /\ shown \subseteq shown'
  BY <1>1, <1>2 DEF Witness, TypeOK
<1>4. args[c].surface = "high" => critical[ConnOf[c]] > 0
  <2>1. ASSUME args[c].surface = "high"
        PROVE  Cardinality(InSection(ConnOf[c])) # 0
    <3>1. c \in InSection(ConnOf[c])
      BY <1>1, <2>1 DEF InSection
    <3> QED BY <3>1, SectionsFinite, FS_EmptySet
  <2> QED BY <1>2, <2>1 DEF IInv, Counted
<1>5. TypeOK'
  <2>1. /\ status' \in [Calls -> {"idle", "running", "returned"}]
        /\ result' \in [Calls -> {"none", "ok", "found", "assumed", "error"}]
        /\ critical' \in [Connections -> Nat]
    BY <1>1, <1>2, <1>4
  <2> QED BY <1>1, <1>2, <1>3, <2>1 DEF TypeOK
<1>6. Counted'
  <2>1. ASSUME NEW k \in Connections
        PROVE  critical'[k] = Cardinality(InSection(k)')
    <3>1. critical[k] = Cardinality(InSection(k)) /\ IsFiniteSet(InSection(k))
      BY SectionsFinite DEF IInv, Counted
    <3>2. CASE args[c].surface = "high" /\ k = ConnOf[c]
      <4>1. InSection(k)' = InSection(k) \ {c}
        BY <1>1, <1>2, <3>2 DEF InSection
      <4>2. c \in InSection(k)
        BY <1>1, <3>2 DEF InSection
      <4>3. Cardinality(InSection(k) \ {c}) = Cardinality(InSection(k)) - 1
        BY <3>1, <4>2, FS_RemoveElement
      <4> QED BY <1>1, <1>2, <3>1, <3>2, <4>1, <4>3
    <3>3. CASE ~ (args[c].surface = "high" /\ k = ConnOf[c])
      <4>1. InSection(k)' = InSection(k)
        BY <1>1, <1>2, <3>3 DEF InSection
      <4>2. critical'[k] = critical[k]
        BY <1>1, <1>2, <3>3
      <4> QED BY <3>1, <4>1, <4>2
    <3> QED BY <3>2, <3>3
  <2> QED BY <2>1 DEF Counted
<1>7. \A ops : ~ Ahead(c, ops)
  BY <1>1 DEF Ahead
<1>8. OwnerKnown'
  BY <1>1, <1>2, <1>7 DEF IInv, OwnerKnown, Ahead
<1>9. ASSUME NEW d \in Calls, d # c
      PROVE  InOrder(d)' /\ Meant(d)'
  <2>1. status'[d] = status[d] /\ result'[d] = result[d]
    BY <1>1, <1>2, <1>9
  <2>2. InOrder(d) /\ Meant(d)
    BY DEF IInv
  <2> QED BY <1>1, <1>3, <2>1, <2>2
          DEF InOrder, Meant, Guarded, Underway, Done, Shown, Ahead
<1>10. InOrder(c)' /\ Meant(c)'
  <2>1. InOrder(c) /\ Meant(c)
    BY DEF IInv
  <2>2. /\ status'[c] = "returned"
        /\ result'[c] = IF result[c] = "none" THEN "ok" ELSE result[c]
    BY <1>1, <1>2
  <2>3. result[c] = "none" => Done(c) /\ Shown(c)
    BY <1>1, <1>7, <2>1 DEF InOrder, Underway
  <2>4. Done(c)' = Done(c) /\ (Shown(c) => Shown(c)')
    BY <1>1, <1>3 DEF Done, Shown
  <2>5. InOrder(c)'
    BY <1>1, <2>1, <2>2 DEF InOrder, Guarded, Underway, Ahead
  <2>6. Meant(c)'
    BY <1>1, <1>3, <2>1, <2>2, <2>3, <2>4 DEF Meant
  <2> QED BY <2>5, <2>6
<1> QED BY <1>5, <1>6, <1>8, <1>9, <1>10 DEF IInv

\* The program of a call after one of its requests.
LEMMA LeftInOrder ==
  ASSUME IInv, NEW c \in Calls, todo[c] # << >>, Leaves(c)
  PROVE  /\ todo'[c] \in Seq(Step) /\ Orderly(args[c], todo'[c])
         /\ todo' = [todo EXCEPT ![c] = todo'[c]]
         /\ result' = [result EXCEPT ![c] = result'[c]]
         /\ result'[c] \in {result[c], "found", "assumed", "error"}
<1>1. /\ todo \in [Calls -> Seq(Step)] /\ Orderly(args[c], todo[c])
      /\ result \in [Calls -> {"none", "ok", "found", "assumed", "error"}]
  BY DEF IInv, TypeOK, InOrder
<1>2. Orderly(args[c], Tail(todo[c]))
  BY <1>1, OrderlyTail
<1> USE DEF Leaves
<1>3. todo'[c] \in {Tail(todo[c]), << >>, << May("unlock") >>, << Must("find") >>}
  BY <1>1 DEF Proceed, Abandon, Look, Assume
<1>4. todo' = [todo EXCEPT ![c] = todo'[c]]
  BY <1>1 DEF Proceed, Abandon, Look, Assume
<1>5. /\ result' = [result EXCEPT ![c] = result'[c]]
      /\ result'[c] \in {result[c], "found", "assumed", "error"}
  BY <1>1 DEF Proceed, Abandon, Look, Assume
<1>6. Orderly(args[c], todo'[c])
  BY <1>2, <1>3, OrderlyRest
<1> QED BY <1>4, <1>5, <1>6 DEF Orderly

\* A request keeps the call that makes it in order.
LEMMA CallStaysInOrder ==
  ASSUME IInv, NEW c \in Calls, Request(c), Witness
  PROVE  InOrder(c)' /\ Meant(c)'
<1>1. /\ status[c] = "running" /\ todo[c] # << >>
      /\ UNCHANGED <<kind, status, args, critical>>
      /\ Leaves(c) /\ Affects(c) /\ Locks(c)
  BY RequestShape DEF IInv, InOrder, frame
<1>2. /\ todo \in [Calls -> Seq(Step)] /\ todo[c] \in Seq(Step)
      /\ handle \in [Calls -> BOOLEAN]
      /\ result \in [Calls -> {"none", "ok", "found", "assumed", "error"}]
      /\ there \in BOOLEAN /\ did \subseteq Calls /\ saw \subseteq Calls
      /\ shown \subseteq Calls
  BY DEF IInv, TypeOK
<1>3. InOrder(c) /\ Meant(c)
  BY DEF IInv
<1>4. /\ todo'[c] \in Seq(Step) /\ Orderly(args[c], todo'[c])
      /\ result'[c] \in {result[c], "found", "assumed", "error"}
  BY <1>1, LeftInOrder
<1>5. /\ Head(todo[c]) = todo[c][1] /\ 1 \in 1 .. Len(todo[c])
      /\ Len(todo[c]) \in Nat /\ Len(Tail(todo[c])) = Len(todo[c]) - 1
      /\ \A i \in 1 .. Len(Tail(todo[c])) :
           /\ Tail(todo[c])[i] = todo[c][i + 1]
           /\ i + 1 \in 1 + 1 .. Len(todo[c]) /\ i + 1 \in 1 .. Len(todo[c])
      /\ \A i \in 1 + 1 .. Len(todo[c]) :
           i - 1 \in 1 .. Len(Tail(todo[c])) /\ Tail(todo[c])[i - 1] = todo[c][i]
  BY <1>1, <1>2, FirstStep
<1>6. /\ Fit(args[c], Head(todo[c]))
      /\ Head(todo[c]).do = "find" => Len(todo[c]) = 1
      /\ Head(todo[c]).do \in {"lock", "release"} =>
           \A j \in 1 + 1 .. Len(todo[c]) : todo[c][j].onError \in {"abort", "ignore"}
      /\ Head(todo[c]).do \in Effects \cup {"activate"} =>
           \A j \in 1 + 1 .. Len(todo[c]) : todo[c][j].do \notin Effects
  BY <1>3, <1>5 DEF InOrder, Orderly
<1>7. /\ shown \subseteq shown' /\ saw \subseteq saw'
      /\ there' => c \in saw'
      /\ active' /\ c \in did' => c \in shown'
  BY <1>1, <1>2 DEF Witness
<1>8. /\ did \subseteq did' /\ did' \subseteq did \cup {c}
      /\ c \in did' => c \in did \/ Head(todo[c]).do \in Effects
  BY <1>1 DEF Affects, Effects
<1>9. handle'[c] => handle[c] \/ Head(todo[c]).do \in {"lock", "release"}
  BY <1>1, <1>2 DEF Locks, Holders
<1>10. InOrder(c)' <=> /\ Orderly(args[c], todo'[c]) /\ Guarded(c)'
                       /\ Ahead(c, Effects)' => c \notin did'
                       /\ Underway(c)'
  BY <1>1 DEF InOrder
<1>11. Meant(c)' <=> (result'[c] # "ok" /\ (result'[c] = "found" => c \in saw'))
  BY <1>1 DEF Meant
<1>12. CASE /\ Proceed(c) /\ Head(todo[c]).do # "find"
            /\ Head(todo[c]).do \in Effects => c \in did'
            /\ Head(todo[c]).do = "activate" => active'
  <2>1. todo'[c] = Tail(todo[c]) /\ result' = result
    BY <1>2, <1>12 DEF Proceed
  <2>2. /\ \A i \in 1 .. Len(todo[c]) : todo[c][i].do # "find"
        /\ \A i \in 1 .. Len(Tail(todo[c])) : Tail(todo[c])[i].do # "find"
    BY <1>3, <1>5, <1>12 DEF InOrder, Orderly
  <2>3. Guarded(c)'
    BY <1>3, <1>5, <1>6, <1>9, <2>1, <2>2 DEF InOrder, Guarded
  <2>4. \A ops : Ahead(c, ops)' => Ahead(c, ops)
    BY <1>5, <2>1 DEF Ahead
  <2>5. \A ops : Ahead(c, ops) => Head(todo[c]).do \in ops \/ Ahead(c, ops)'
    <3>1. ASSUME NEW ops, Ahead(c, ops)
          PROVE  Head(todo[c]).do \in ops \/ Ahead(c, ops)'
      <4>1. PICK i \in 1 .. Len(todo[c]) : todo[c][i].do \in ops
        BY <3>1 DEF Ahead
      <4>2. CASE i = 1
        BY <1>5, <4>1, <4>2
      <4>3. CASE i # 1
        <5>1. i - 1 \in 1 .. Len(Tail(todo[c])) /\ Tail(todo[c])[i - 1].do \in ops
          BY <1>5, <4>1, <4>3
        <5> QED BY <2>1, <5>1 DEF Ahead
      <4> QED BY <4>2, <4>3
    <3> QED BY <3>1
  <2>6. Head(todo[c]).do \in Effects \cup {"activate"} => ~ Ahead(c, Effects)'
    BY <1>5, <1>6, <2>1 DEF Ahead
  <2>7. Ahead(c, Effects)' => c \notin did'
    BY <1>3, <1>8, <2>4, <2>6 DEF InOrder
  <2>8. ASSUME result[c] = "none"
        PROVE  /\ Done(c)' \/ Ahead(c, Effects)'
               /\ Shown(c)' \/ Ahead(c, {"activate"})'
    <3>1. ~ Ahead(c, {"find"})
      BY <2>2 DEF Ahead
    <3>2. /\ Done(c) \/ Ahead(c, Effects)
          /\ Shown(c) \/ Ahead(c, {"activate"})
      BY <1>1, <1>3, <2>8, <3>1 DEF InOrder, Underway
    <3>3. Done(c)' \/ Ahead(c, Effects)'
      BY <1>1, <1>8, <1>12, <2>5, <3>2 DEF Done
    <3>4. CASE Head(todo[c]).do = "activate"
      <4>1. ~ Ahead(c, Effects)'
        BY <2>6, <3>4
      <4>2. Done(c)' /\ active'
        BY <1>12, <3>3, <3>4, <4>1
      <4> QED BY <1>1, <1>7, <4>2 DEF Done, Shown, EffectOf
    <3>5. CASE Head(todo[c]).do # "activate"
      BY <1>1, <1>7, <2>5, <3>2, <3>3, <3>5 DEF Shown
    <3> QED BY <3>3, <3>4, <3>5
  <2>9. Underway(c)'
    BY <2>1, <2>8 DEF Underway
  <2>10. Meant(c)'
    BY <1>1, <1>3, <1>7, <1>11, <2>1 DEF Meant
  <2> QED BY <1>4, <1>10, <2>3, <2>7, <2>9, <2>10
<1>13. CASE Abandon(c)
  <2>1. /\ result'[c] = "error"
        /\ todo'[c] = << >> \/ todo'[c] = << May("unlock") >>
    BY <1>2, <1>13 DEF Abandon
  <2>2. \A i \in 1 .. Len(todo'[c]) :
          todo'[c][i].do = "unlock" /\ todo'[c][i].onError = "ignore"
    BY <2>1, StepTypes DEF Ops
  <2> QED BY <1>4, <1>10, <1>11, <2>1, <2>2
          DEF Guarded, Ahead, Underway, Effects
<1>14. CASE Head(todo[c]).onError = "look" /\ Look(c)
  <2>1. todo'[c] = << Must("find") >> /\ result'[c] = result[c]
    BY <1>2, <1>14 DEF Look
  <2>2. \A i \in 1 .. Len(todo'[c]) : todo'[c][i].do = "find"
    BY <2>1, StepTypes DEF Ops
  <2>3. Ahead(c, {"find"})' /\ ~ Ahead(c, Effects)'
    BY <2>1, <2>2 DEF Ahead, Effects
  <2>4. ~ handle'[c]
    <3>1. ~ handle[c]
      BY <1>3, <1>5, <1>14 DEF InOrder, Guarded
    <3>2. Head(todo[c]).do \notin {"lock", "release"}
      BY <1>6, <1>14 DEF Fit
    <3> QED BY <1>9, <3>1, <3>2
  <2>5. Meant(c)'
    BY <1>1, <1>3, <1>7, <1>11, <2>1 DEF Meant
  <2> QED BY <1>4, <1>10, <2>3, <2>4, <2>5 DEF Guarded, Underway
<1>15. CASE Head(todo[c]).onError = "assume" /\ Assume(c)
  <2>1. todo'[c] = << >> /\ result'[c] = "assumed"
    BY <1>2, <1>15 DEF Assume
  <2> QED BY <1>4, <1>10, <1>11, <2>1 DEF Guarded, Ahead, Underway
<1>16. CASE /\ there' /\ todo' = [todo EXCEPT ![c] = << >>]
            /\ result' = [result EXCEPT ![c] = "found"]
  <2>1. todo'[c] = << >> /\ result'[c] = "found"
    BY <1>2, <1>16
  <2> QED BY <1>4, <1>7, <1>10, <1>11, <1>16, <2>1 DEF Guarded, Ahead, Underway
<1> QED BY <1>1, <1>12, <1>13, <1>14, <1>15, <1>16 DEF Leaves

\* A call that owns the lock keeps an unlock request ahead until it has made it.
LEMMA UnlockStaysAhead ==
  ASSUME IInv, NEW c \in Calls, todo[c] # << >>, Leaves(c),
         Head(todo[c]).do \notin {"unlock", "release"},
         handle[c], Ahead(c, {"unlock", "release"})
  PROVE  Ahead(c, {"unlock", "release"})'
<1>1. todo \in [Calls -> Seq(Step)] /\ todo[c] \in Seq(Step) /\ Guarded(c)
  BY DEF IInv, TypeOK, InOrder
<1>2. /\ Head(todo[c]) = todo[c][1] /\ 1 \in 1 .. Len(todo[c])
      /\ \A i \in 1 + 1 .. Len(todo[c]) :
           i - 1 \in 1 .. Len(Tail(todo[c])) /\ Tail(todo[c])[i - 1] = todo[c][i]
      /\ Len(todo[c]) \in Nat
  BY <1>1, FirstStep
<1>3. PICK i \in 1 .. Len(todo[c]) : todo[c][i].do \in {"unlock", "release"}
  BY DEF Ahead
<1>4. CASE Proceed(c)
  <2>1. todo'[c] = Tail(todo[c])
    BY <1>1, <1>4 DEF Proceed
  <2>2. i \in 1 + 1 .. Len(todo[c])
    BY <1>2, <1>3
  <2>3. /\ i - 1 \in 1 .. Len(todo'[c])
        /\ todo'[c][i - 1].do \in {"unlock", "release"}
    BY <1>2, <1>3, <2>1, <2>2
  <2> QED BY <2>3 DEF Ahead
<1>5. CASE Abandon(c)
  <2>1. todo'[c] = << May("unlock") >> /\ May("unlock").do = "unlock"
    BY <1>1, <1>5, StepTypes DEF Abandon, Ops
  <2>2. 1 \in 1 .. Len(todo'[c]) /\ todo'[c][1].do = "unlock"
    BY <2>1
  <2> QED BY <2>2 DEF Ahead
<1>6. /\ Head(todo[c]).onError \in {"abort", "ignore"}
      /\ Head(todo[c]).do # "find"
  BY <1>1, <1>2 DEF Guarded
<1> QED BY <1>4, <1>5, <1>6 DEF Leaves

\* An answered request keeps every call in order, and the lock with its owner.
LEMMA RequestInvariant ==
  ASSUME IInv, NEW c \in Calls, Request(c), Witness
  PROVE  IInv'
<1>1. /\ status[c] = "running" /\ todo[c] # << >>
      /\ UNCHANGED <<kind, status, args, critical>>
      /\ Leaves(c) /\ Affects(c) /\ Locks(c)
      /\ lock' \in LockStates /\ active' \in BOOLEAN
  BY RequestShape DEF IInv, InOrder, frame
<1>2. /\ TypeOK /\ todo \in [Calls -> Seq(Step)] /\ handle \in [Calls -> BOOLEAN]
      /\ result \in [Calls -> {"none", "ok", "found", "assumed", "error"}]
      /\ lock \in LockStates /\ unlockFailed \subseteq Calls
  BY DEF IInv, TypeOK
<1>3. /\ todo'[c] \in Seq(Step) /\ todo' = [todo EXCEPT ![c] = todo'[c]]
      /\ result' = [result EXCEPT ![c] = result'[c]]
      /\ result'[c] \in {result[c], "found", "assumed", "error"}
  BY <1>1, LeftInOrder
<1>4. /\ handle' \in [Calls -> BOOLEAN] /\ unlockFailed' \subseteq Calls
      /\ unlockFailed \subseteq unlockFailed'
      /\ \A d \in Calls : d # c => handle'[d] = handle[d]
  BY <1>1, <1>2 DEF Locks, Holders
<1>5. /\ there' \in BOOLEAN /\ did \subseteq did' /\ did' \subseteq did \cup {c}
      /\ did' \subseteq Calls
  BY <1>1, <1>2 DEF Affects, TypeOK
<1>6. /\ saw \subseteq saw' /\ saw' \subseteq Calls
      /\ shown \subseteq shown' /\ shown' \subseteq Calls
  BY <1>2, <1>5 DEF Witness, TypeOK
<1>7. TypeOK'
  <2>1. /\ todo' \in [Calls -> Seq(Step)]
        /\ result' \in [Calls -> {"none", "ok", "found", "assumed", "error"}]
    BY <1>2, <1>3
  <2> QED BY <1>1, <1>2, <1>4, <1>5, <1>6, <2>1 DEF TypeOK
<1>8. Counted'
  BY <1>1 DEF IInv, Counted, InSection
<1>9. ASSUME NEW d \in Calls, d # c
      PROVE  /\ todo'[d] = todo[d] /\ result'[d] = result[d]
             /\ handle'[d] = handle[d] /\ (d \in did' <=> d \in did)
  BY <1>2, <1>3, <1>4, <1>5, <1>9
<1>10. ASSUME NEW d \in Calls, d # c
       PROVE  InOrder(d)' /\ Meant(d)'
  <2>1. InOrder(d) /\ Meant(d)
    BY DEF IInv
  <2> QED BY <1>1, <1>6, <1>9, <1>10, <2>1
          DEF InOrder, Meant, Guarded, Underway, Done, Shown, Ahead
<1>11. InOrder(c)' /\ Meant(c)'
  BY CallStaysInOrder
<1>12. OwnerKnown'
  <2>1. ASSUME NEW d \in Calls, d # c, lock'.owner = d, lock.owner = d
        PROVE  /\ status'[d] # "idle"
               /\ \/ d \in unlockFailed'
                  \/ /\ status'[d] = "running" /\ handle'[d]
                     /\ Ahead(d, {"unlock", "release"})'
    BY <1>1, <1>4, <1>9, <2>1 DEF IInv, OwnerKnown, Ahead
  <2>2. CASE /\ Holders
             /\ Head(todo[c]).do \in {"unlock", "release"} => c \in unlockFailed'
    <3>1. lock'.owner = lock.owner /\ handle' = handle
      BY <2>2 DEF Holders
    <3>2. ASSUME lock.owner = c
          PROVE  \/ c \in unlockFailed'
                 \/ handle'[c] /\ Ahead(c, {"unlock", "release"})'
      BY <1>1, <1>4, <2>2, <3>1, <3>2, UnlockStaysAhead DEF IInv, OwnerKnown
    <3> QED BY <1>1, <2>1, <3>1, <3>2 DEF OwnerKnown
  <2>3. CASE /\ Head(todo[c]).do = "lock" /\ Proceed(c)
             /\ lock'.owner = c /\ handle' = [handle EXCEPT ![c] = TRUE]
    <3>1. /\ Head(todo[c]) = todo[c][1] /\ 1 \in 1 .. Len(todo[c])
          /\ \A i \in 1 + 1 .. Len(todo[c]) :
               i - 1 \in 1 .. Len(Tail(todo[c])) /\ Tail(todo[c])[i - 1] = todo[c][i]
      BY <1>1, <1>2, FirstStep
    <3>2. PICK i \in 1 + 1 .. Len(todo[c]) : todo[c][i].do \in {"unlock", "release"}
      BY <2>3, <3>1 DEF IInv, InOrder, Orderly
    <3>3. todo'[c] = Tail(todo[c]) /\ handle'[c]
      BY <1>2, <2>3 DEF Proceed
    <3>4. /\ i - 1 \in 1 .. Len(todo'[c])
          /\ todo'[c][i - 1].do \in {"unlock", "release"}
      BY <3>1, <3>2, <3>3
    <3>5. Ahead(c, {"unlock", "release"})'
      BY <3>4 DEF Ahead
    <3> QED BY <1>1, <2>3, <3>3, <3>5 DEF OwnerKnown
  <2>4. CASE lock'.owner = Nobody
    BY <2>4, ConstantsAssumption DEF OwnerKnown
  <2> QED BY <1>1, <2>2, <2>3, <2>4 DEF Locks
<1> QED BY <1>7, <1>8, <1>10, <1>11, <1>12 DEF IInv

\* Every step keeps the invariant.
LEMMA StepInvariant ==
  ASSUME IInv, [Next]_vars
  PROVE  IInv'
<1>1. CASE Next
  BY <1>1, BeginInvariant, RequestInvariant, AnswerInvariant DEF Next
<1>2. CASE UNCHANGED vars
  <2>1. UNCHANGED <<kind, status, args, todo, handle, result, critical, there,
                    active, lock, did, saw, shown, unlockFailed>>
    BY <1>2 DEF vars, frame, object, history
  <2>2. TypeOK' /\ Counted' /\ OwnerKnown'
    BY <2>1 DEF IInv, TypeOK, Counted, InSection, OwnerKnown, Ahead
  <2>3. \A c \in Calls : InOrder(c)' /\ Meant(c)'
    BY <2>1 DEF IInv, InOrder, Meant, Guarded, Underway, Done, Shown, Ahead
  <2> QED BY <2>2, <2>3 DEF IInv
<1> QED BY <1>1, <1>2

-----------------------------------------------------------------------------
(* Theorems.                                                               *)

\* The strengthened invariant holds in every reachable state.
THEOREM Invariance == Spec => []IInv
<1>1. Init => IInv
  BY InitInvariant
<1>2. IInv /\ [Next]_vars => IInv'
  BY StepInvariant
<1> QED BY <1>1, <1>2, PTL DEF Spec

\* The variables keep their types, whatever the interleaving of the calls; no
\* critical section is left that was not entered.
THEOREM TypeCorrect == Spec => []TypeOK
<1>1. IInv => TypeOK
  BY DEF IInv
<1> QED BY <1>1, Invariance, PTL

\* Whichever request of a create or delete tool fails, and however it ends, the
\* object stays locked only if an unlock request failed.
THEOREM LocksReleased == Spec => []NoOrphanLock
<1>1. IInv => NoOrphanLock
  BY DEF IInv, OwnerKnown, NoOrphanLock
<1> QED BY <1>1, Invariance, PTL

\* A create tool that was asked to activate, and answers at the regular end of
\* its handler, has created the object, and it had an active version before the
\* call ended.  It says nothing of a success that is assumed (function groups)
\* or of an object that is found (classes), though both answers report one.
THEOREM ActivationReported == Spec => []ReportsActivation
<1>1. IInv => ReportsActivation
  BY DEF IInv, Meant, Shown, ReportsActivation
<1> QED BY <1>1, Invariance, PTL

-----------------------------------------------------------------------------
(* The contract.                                                           *)

Phases    == [c \in Calls |-> Wants(c)]
Answers   == [c \in Calls |-> Outcome(c)]
Unchanged == UNCHANGED <<there, status, Phases, did, Answers>>

\* What a call finds there while it runs, it has found there.
LEMMA Observed ==
  ASSUME TypeOK, Witness
  PROVE  Contract!Observe
BY DEF Witness, TypeOK, Contract!Observe

\* A call begins: it is invoked.
LEMMA BeginRefines ==
  ASSUME IInv, NEW c \in Calls, Begin(c)
  PROVE  Contract!Invoke(c)
<1>1. TypeOK /\ InOrder(c) /\ status \in [Calls -> {"idle", "running", "returned"}]
      /\ args \in [Calls -> Arguments]
  BY DEF IInv, TypeOK
<1>2. /\ status[c] = "idle" /\ status' = [status EXCEPT ![c] = "running"]
      /\ UNCHANGED <<result, there, did>>
      /\ \A d \in Calls : d # c => args'[d] = args[d]
  BY <1>1 DEF Begin, object
<1>3. Answers' = Answers
  BY <1>1, <1>2 DEF Answers, Outcome
<1>4. \A d \in Calls : d # c => Wants(d)' = Wants(d)
  BY <1>1, <1>2 DEF Wants
<1>5. Wants(c)' \in {"make", "remove", "keep"}
  BY <1>1, <1>2 DEF Wants
<1>6. Phases' = [Phases EXCEPT ![c] = Wants(c)']
  BY <1>4 DEF Phases
<1> QED BY <1>2, <1>3, <1>5, <1>6 DEF Contract!Invoke, Phases, Answers

\* A request takes effect, or changes nothing that the caller can see.
LEMMA RequestRefines ==
  ASSUME IInv, NEW c \in Calls, Request(c)
  PROVE  Contract!TakeEffect(c) \/ Unchanged
<1>1. /\ status[c] = "running" /\ todo[c] # << >>
      /\ UNCHANGED <<status, args>>
      /\ Leaves(c) /\ Affects(c)
  BY RequestShape DEF IInv, InOrder, frame
<1>2. /\ result' = [result EXCEPT ![c] = result'[c]]
      /\ result \in [Calls -> {"none", "ok", "found", "assumed", "error"}]
      /\ there \in BOOLEAN /\ args \in [Calls -> Arguments]
      /\ todo[c] \in Seq(Step)
  BY <1>1, LeftInOrder DEF IInv, TypeOK
<1>3. Phases' = Phases
  BY <1>1 DEF Phases, Wants
<1>4. Answers' = Answers
  <2>1. \A d \in Calls : Outcome(d)' = Outcome(d)
    BY <1>1, <1>2 DEF Outcome
  <2> QED BY <2>1 DEF Answers
<1>5. CASE UNCHANGED <<there, did>>
  BY <1>1, <1>3, <1>4, <1>5 DEF Unchanged
<1>6. CASE /\ did' = did \cup {c} /\ there' = ~ there
           /\ Head(todo[c]).do = IF there THEN "delete" ELSE "create"
  <2>1. Head(todo[c]) = todo[c][1] /\ 1 \in 1 .. Len(todo[c])
    BY <1>1, <1>2, FirstStep
  <2>2. Head(todo[c]).do \in Effects
    BY <1>6 DEF Effects
  <2>3. c \notin did
    BY <2>1, <2>2 DEF IInv, InOrder, Ahead
  <2>4. Head(todo[c]).do = EffectOf(args[c])
    BY <2>1, <2>2 DEF IInv, InOrder, Orderly, Fit
  <2>5. IF there THEN Wants(c) = "remove" ELSE Wants(c) = "make"
    BY <1>1, <1>6, <2>4 DEF EffectOf, Wants
  <2> QED BY <1>1, <1>3, <1>4, <1>6, <2>3, <2>5
          DEF Contract!TakeEffect, Phases, Answers
<1> QED BY <1>1, <1>5, <1>6 DEF Affects

\* A call answers: it responds.
LEMMA AnswerRefines ==
  ASSUME IInv, NEW c \in Calls, Answer(c), Witness
  PROVE  Contract!Respond(c)
<1>1. /\ status[c] = "running" /\ status' = [status EXCEPT ![c] = "returned"]
      /\ UNCHANGED <<args, there, did>>
      /\ result' = [result EXCEPT ![c] = IF @ = "none" THEN "ok" ELSE @]
  BY DEF Answer, object
<1>2. /\ status \in [Calls -> {"idle", "running", "returned"}]
      /\ result \in [Calls -> {"none", "ok", "found", "assumed", "error"}]
      /\ status'[c] = "returned"
  BY <1>1 DEF IInv, TypeOK
<1>3. Meant(c)' /\ TypeOK'
  BY AnswerInvariant DEF IInv
<1>4. \A d \in Calls : Wants(d)' = Wants(d)
  BY <1>1, <1>2 DEF Wants
<1>5. Phases' = Phases
  BY <1>4 DEF Phases
<1>6. \A d \in Calls : d # c => Outcome(d)' = Outcome(d)
  BY <1>1, <1>2 DEF Outcome
<1>7. Answers' = [Answers EXCEPT ![c] = Outcome(c)']
  BY <1>6 DEF Answers
<1>8. /\ result'[c] \in {"ok", "found", "assumed", "error"}
      /\ result'[c] = "ok" => Done(c)'
      /\ result'[c] = "found" => c \in saw
  BY <1>1, <1>2, <1>3 DEF IInv, Meant, TypeOK
<1>9. Outcome(c)' \in {"done", "found", "unsure", "error"}
  BY <1>2, <1>8 DEF Outcome
<1>10. Outcome(c)' = "done" => result'[c] = "ok"
  BY <1>2, <1>8 DEF Outcome
<1>11. Outcome(c)' = "found" => result'[c] = "found"
  BY <1>2, <1>8 DEF Outcome
<1>12. Done(c)' => c \in did \/ Wants(c) = "keep"
  BY <1>1 DEF Done, EffectOf, Wants
<1>13. \E r \in {"done", "found", "unsure", "error"} :
         /\ r = "done" => c \in did \/ Wants(c) = "keep"
         /\ r = "found" => c \in saw
         /\ Answers' = [Answers EXCEPT ![c] = r]
  BY <1>7, <1>8, <1>9, <1>10, <1>11, <1>12
<1>14. Phases[c] = Wants(c)
  BY DEF Phases
<1> QED BY <1>1, <1>5, <1>13, <1>14
        DEF Contract!Respond, Phases, Answers

\* The calls, however they are interleaved, keep the promise of ObjectContract:
\* "done" is answered by a call that brought the object into being, or out of
\* it, itself, and "found" by one that could have found it.
THEOREM ContractKept == Spec => KeepsContract
<1>1. Init => Contract!Init
  BY DEF Init, Contract!Init, Wants, Outcome
<1>2. ASSUME IInv, [Next]_vars
      PROVE  [Contract!Next]_(Contract!vars)
  <2>1. ASSUME NEW c \in Calls, Begin(c), Witness
        PROVE  Contract!Next
    BY <1>2, <2>1, BeginRefines, Observed DEF IInv, Contract!Next
  <2>2. ASSUME NEW c \in Calls, Request(c), Witness
        PROVE  Contract!Next
    <3>1. Contract!Observe
      BY <1>2, <2>2, Observed DEF IInv
    <3>2. CASE Contract!TakeEffect(c)
      BY <3>1, <3>2 DEF Contract!Next
    <3>3. CASE Unchanged
      BY <3>1, <3>3 DEF Unchanged, Phases, Answers, Contract!Next
    <3> QED BY <1>2, <2>2, <3>2, <3>3, RequestRefines
  <2>3. ASSUME NEW c \in Calls, Answer(c), Witness
        PROVE  Contract!Next
    BY <1>2, <2>3, AnswerRefines, Observed DEF IInv, Contract!Next
  <2>4. CASE UNCHANGED vars
    <3>1. UNCHANGED <<there, status, args, result, did, saw>>
      BY <2>4 DEF vars, frame, object, history
    <3>2. UNCHANGED <<[c \in Calls |-> Wants(c)], [c \in Calls |-> Outcome(c)]>>
      BY <3>1 DEF Wants, Outcome
    <3> QED BY <3>1, <3>2 DEF Contract!vars
  <2> QED BY <1>2, <2>1, <2>2, <2>3, <2>4 DEF Next
<1> QED BY <1>1, <1>2, Invariance, PTL DEF Spec, KeepsContract, Contract!Spec

=============================================================================
