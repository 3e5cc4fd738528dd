------------------------ MODULE UpdateHandlersProofs ------------------------
(***************************************************************************)
(* The order of the requests in the programs of UpdateHandlers: what takes *)
(* a lock is followed by what releases it, nothing is released after the   *)
(* last read-back, and a handler that is given a lock handle neither locks *)
(* nor unlocks.                                                            *)
(***************************************************************************)
EXTENDS UpdateHandlers, Naturals, SequenceTheorems, TLAPS

Reads == {"readBack", "verify", "verifyStamp", "verifyField"}
Plain == Ops \ {"lock", "unlock", "stamp"}

\* A program made of the requests in S only.
Uses(p, S) == p \in Seq(Step) /\ \A i \in 1 .. Len(p) : p[i].do \in S

\* Every lock request is followed by an unlock request, which no read-back
\* comes before; the change timestamp is not read first.
Steady(p) ==
  /\ p \in Seq(Step)
  /\ \A i \in 1 .. Len(p) :
       /\ p[i].do # "stamp"
       /\ p[i].do = "lock" => \E j \in i + 1 .. Len(p) : p[j].do = "unlock"
       /\ p[i].do \in Reads => \A j \in i + 1 .. Len(p) : p[j].do # "unlock"

\* Steady, or a timestamp and then requests that take no lock.
Orderly(p) ==
  \/ Steady(p)
  \/ p \in Seq(Step) /\ p # << >> /\ Head(p).do = "stamp" /\ Uses(Tail(p), Plain)

-----------------------------------------------------------------------------
(* How the parts of a program compose.                                     *)

\* The steps a program is written with are steps.
LEMMA StepTypes ==
  ASSUME NEW op \in Ops
  PROVE  /\ Must(op) \in Step /\ May(op) \in Step
         /\ Must(op).do = op /\ May(op).do = op
  BY DEF Must, May, Step, Policies

\* One request.
LEMMA UsesOne ==
  ASSUME NEW S, NEW x \in Step, x.do \in S
  PROVE  Uses(<< x >>, S)
  BY DEF Uses

\* Two requests.
LEMMA UsesTwo ==
  ASSUME NEW S, NEW x \in Step, NEW y \in Step, x.do \in S, y.do \in S
  PROVE  Uses(<< x, y >>, S)
  BY DEF Uses

\* No request.
LEMMA UsesNone == ASSUME NEW S PROVE Uses(<< >>, S)
  BY DEF Uses

\* An optional part.
LEMMA UsesOnly ==
  ASSUME NEW S, NEW p, Uses(p, S), NEW b
  PROVE  Uses(Only(b, p), S)
  BY UsesNone DEF Only

\* A larger set of requests.
LEMMA UsesMore ==
  ASSUME NEW S, NEW T, S \subseteq T, NEW p, Uses(p, S)
  PROVE  Uses(p, T)
  BY DEF Uses

\* One part after the other.
LEMMA UsesConcat ==
  ASSUME NEW S, NEW p, NEW q, Uses(p, S), Uses(q, S)
  PROVE  Uses(p \o q, S)
<1>1. /\ p \o q \in Seq(Step)
      /\ Len(p \o q) = Len(p) + Len(q)
      /\ \A i \in 1 .. Len(p) + Len(q) :
           (p \o q)[i] = IF i <= Len(p) THEN p[i] ELSE q[i - Len(p)]
  BY ConcatProperties DEF Uses
<1>2. Len(p) \in Nat /\ Len(q) \in Nat
  BY LenProperties DEF Uses
<1>3. ASSUME NEW i \in 1 .. Len(p) + Len(q)
      PROVE  (p \o q)[i].do \in S
  <2>1. CASE i <= Len(p)
    BY <1>1, <1>2, <2>1 DEF Uses
  <2>2. CASE ~ (i <= Len(p))
    <3>1. i - Len(p) \in 1 .. Len(q)
      BY <1>2, <2>2
    <3> QED BY <1>1, <2>2, <3>1 DEF Uses
  <2> QED BY <2>1, <2>2
<1> QED BY <1>1, <1>3 DEF Uses

\* Requests that neither lock nor unlock.
LEMMA SteadyPlain ==
  ASSUME NEW p, Uses(p, Plain)
  PROVE  Steady(p)
  BY LenProperties DEF Uses, Plain, Steady

\* The part of a program after its first request.
LEMMA SteadyTail ==
  ASSUME NEW p, Steady(p), p # << >>
  PROVE  Steady(Tail(p))
<1>1. /\ Tail(p) \in Seq(Step)
      /\ Len(Tail(p)) = Len(p) - 1
      /\ \A i \in 1 .. Len(Tail(p)) : Tail(p)[i] = p[i + 1]
      /\ Len(p) \in Nat /\ Len(p) > 0
  BY HeadTailProperties, LenProperties, EmptySeq DEF Steady
<1>2. ASSUME NEW i \in 1 .. Len(Tail(p))
      PROVE  /\ Tail(p)[i].do # "stamp"
             /\ Tail(p)[i].do = "lock"
                  => \E j \in i + 1 .. Len(Tail(p)) : Tail(p)[j].do = "unlock"
             /\ Tail(p)[i].do \in Reads
                  => \A j \in i + 1 .. Len(Tail(p)) : Tail(p)[j].do # "unlock"
  <2>1. i + 1 \in 1 .. Len(p) /\ Tail(p)[i] = p[i + 1]
    BY <1>1
  <2>2. ASSUME NEW j \in i + 2 .. Len(p)
        PROVE  j - 1 \in i + 1 .. Len(Tail(p)) /\ Tail(p)[j - 1] = p[j]
    BY <1>1
  <2>3. ASSUME NEW j \in i + 1 .. Len(Tail(p))
        PROVE  j + 1 \in i + 2 .. Len(p) /\ Tail(p)[j] = p[j + 1]
    BY <1>1
  <2>4. ASSUME Tail(p)[i].do = "lock"
        PROVE  \E j \in i + 1 .. Len(Tail(p)) : Tail(p)[j].do = "unlock"
    <3>1. PICK j \in i + 2 .. Len(p) : p[j].do = "unlock"
      BY <2>1, <2>4 DEF Steady
    <3> QED BY <2>2, <3>1
  <2>5. ASSUME Tail(p)[i].do \in Reads, NEW j \in i + 1 .. Len(Tail(p))
        PROVE  Tail(p)[j].do # "unlock"
    BY <2>1, <2>3, <2>5 DEF Steady
  <2> QED BY <2>1, <2>4, <2>5 DEF Steady
<1> QED BY <1>1, <1>2 DEF Steady

\* Requests that take no lock may follow.
LEMMA SteadyThen ==
  ASSUME NEW p, NEW q, Steady(p), Uses(q, Plain)
  PROVE  Steady(p \o q)
<1> DEFINE r == p \o q
<1>1. /\ r \in Seq(Step)
      /\ Len(r) = Len(p) + Len(q)
      /\ \A i \in 1 .. Len(p) + Len(q) :
           r[i] = IF i <= Len(p) THEN p[i] ELSE q[i - Len(p)]
  BY ConcatProperties DEF Steady, Uses
<1>2. Len(p) \in Nat /\ Len(q) \in Nat
  BY LenProperties DEF Steady, Uses
<1>3. ASSUME NEW i \in 1 .. Len(p)
      PROVE  i \in 1 .. Len(r) /\ r[i] = p[i]
  BY <1>1, <1>2
<1>4. ASSUME NEW i \in Len(p) + 1 .. Len(r)
      PROVE  r[i].do \in Plain
  <2>1. r[i] = q[i - Len(p)] /\ i - Len(p) \in 1 .. Len(q)
    BY <1>1, <1>2
  <2> QED BY <2>1 DEF Uses
<1>5. ASSUME NEW i \in 1 .. Len(r)
      PROVE  /\ r[i].do # "stamp"
             /\ r[i].do = "lock"
                  => \E j \in i + 1 .. Len(r) : r[j].do = "unlock"
             /\ r[i].do \in Reads
                  => \A j \in i + 1 .. Len(r) : r[j].do # "unlock"
  <2>1. CASE i \in 1 .. Len(p)
    <3>1. r[i].do # "stamp"
      BY <1>3, <2>1 DEF Steady
    <3>2. ASSUME r[i].do = "lock"
          PROVE  \E j \in i + 1 .. Len(r) : r[j].do = "unlock"
      <4>1. PICK j \in i + 1 .. Len(p) : p[j].do = "unlock"
        BY <1>3, <2>1, <3>2 DEF Steady
      <4>2. j \in 1 .. Len(p) /\ j \in i + 1 .. Len(r)
        BY <1>1, <1>2, <2>1
      <4> QED BY <1>3, <4>1, <4>2
    <3>3. ASSUME r[i].do \in Reads, NEW j \in i + 1 .. Len(r)
          PROVE  r[j].do # "unlock"
      <4>1. CASE j \in 1 .. Len(p)
        <5>1. j \in i + 1 .. Len(p)
          BY <1>2, <2>1, <4>1
        <5> QED BY <1>3, <2>1, <3>3, <4>1, <5>1 DEF Steady
      <4>2. CASE j \in Len(p) + 1 .. Len(r)
        BY <1>4, <4>2 DEF Plain
      <4> QED BY <1>1, <1>2, <2>1, <4>1, <4>2
    <3> QED BY <3>1, <3>2, <3>3
  <2>2. CASE i \in Len(p) + 1 .. Len(r)
    <3>1. ASSUME NEW j \in i + 1 .. Len(r)
          PROVE  r[j].do # "unlock"
      <4>1. j \in Len(p) + 1 .. Len(r)
        BY <1>1, <1>2, <2>2
      <4> QED BY <1>4, <4>1 DEF Plain
    <3> QED BY <1>4, <2>2, <3>1 DEF Plain
  <2> QED BY <1>1, <1>2, <2>1, <2>2
<1> QED BY <1>1, <1>5 DEF Steady

\* Requests that take no lock and read nothing back may come first.
LEMMA ThenSteady ==
  ASSUME NEW p, NEW q, Uses(p, Plain \ Reads), Steady(q)
  PROVE  Steady(p \o q)
<1> DEFINE r == p \o q
<1>1. /\ r \in Seq(Step)
      /\ Len(r) = Len(p) + Len(q)
      /\ \A i \in 1 .. Len(p) + Len(q) :
           r[i] = IF i <= Len(p) THEN p[i] ELSE q[i - Len(p)]
  BY ConcatProperties DEF Steady, Uses
<1>2. Len(p) \in Nat /\ Len(q) \in Nat
  BY LenProperties DEF Steady, Uses
<1>3. ASSUME NEW i \in 1 .. Len(r)
      PROVE  /\ r[i].do # "stamp"
             /\ r[i].do = "lock"
                  => \E j \in i + 1 .. Len(r) : r[j].do = "unlock"
             /\ r[i].do \in Reads
                  => \A j \in i + 1 .. Len(r) : r[j].do # "unlock"
  <2>1. CASE i <= Len(p)
    <3>1. r[i] = p[i] /\ i \in 1 .. Len(p)
      BY <1>1, <1>2, <2>1
    <3> QED BY <3>1 DEF Uses, Plain
  <2>2. CASE ~ (i <= Len(p))
    <3> DEFINE k == i - Len(p)
    <3>1. k \in 1 .. Len(q) /\ r[i] = q[k]
      BY <1>1, <1>2, <2>2
    <3>2. ASSUME NEW j \in i + 1 .. Len(r)
          PROVE  j - Len(p) \in k + 1 .. Len(q) /\ r[j] = q[j - Len(p)]
      BY <1>1, <1>2, <2>2
    <3>3. ASSUME NEW j \in k + 1 .. Len(q)
          PROVE  j + Len(p) \in i + 1 .. Len(r) /\ r[j + Len(p)] = q[j]
      <4>1. j + Len(p) \in 1 .. Len(p) + Len(q) /\ ~ (j + Len(p) <= Len(p))
        BY <1>2, <3>1
      <4> QED BY <1>1, <1>2, <2>2, <4>1
    <3>4. ASSUME r[i].do = "lock"
          PROVE  \E j \in i + 1 .. Len(r) : r[j].do = "unlock"
      <4>1. PICK j \in k + 1 .. Len(q) : q[j].do = "unlock"
        BY <3>1, <3>4 DEF Steady
      <4> QED BY <3>3, <4>1
    <3>5. ASSUME r[i].do \in Reads, NEW j \in i + 1 .. Len(r)
          PROVE  r[j].do # "unlock"
      BY <3>1, <3>2, <3>5 DEF Steady
    <3> QED BY <3>1, <3>4, <3>5 DEF Steady
  <2> QED BY <2>1, <2>2
<1> QED BY <1>1, <1>3 DEF Steady

\* What runs under the lock of the handler takes no lock and reads nothing back.
LEMMA SteadySection ==
  ASSUME NEW b, Uses(b, Plain \ Reads), NEW u \in Step, u.do = "unlock"
  PROVE  Steady(Section(b, u))
<1> DEFINE p == << Must("lock") >> \o b
           r == p \o << u >>
<1>1. << Must("lock") >> \in Seq(Step) /\ Must("lock").do = "lock"
  BY StepTypes DEF Ops
<1>2. << u >> \in Seq(Step) /\ Len(<< u >>) = 1 /\ << u >>[1] = u
  OBVIOUS
<1>3. b \in Seq(Step) /\ Len(b) \in Nat
  BY LenProperties DEF Uses
<1>4. /\ p \in Seq(Step) /\ Len(p) = 1 + Len(b)
      /\ \A i \in 1 .. 1 + Len(b) :
           p[i] = IF i <= 1 THEN << Must("lock") >>[i] ELSE b[i - 1]
  BY <1>1, <1>3, ConcatProperties
<1>5. /\ r \in Seq(Step) /\ Len(r) = Len(p) + 1
      /\ \A i \in 1 .. Len(p) + 1 :
           r[i] = IF i <= Len(p) THEN p[i] ELSE << u >>[i - Len(p)]
  BY <1>2, <1>4, ConcatProperties
<1>6. r[1].do = "lock" /\ r[Len(r)].do = "unlock" /\ Len(r) \in Nat
  BY <1>1, <1>2, <1>3, <1>4, <1>5
<1>7. ASSUME NEW i \in 2 .. Len(r) - 1
      PROVE  r[i].do \in Plain \ Reads
  <2>1. r[i] = b[i - 1] /\ i - 1 \in 1 .. Len(b)
    BY <1>3, <1>4, <1>5
  <2> QED BY <2>1 DEF Uses
<1>8. ASSUME NEW i \in 1 .. Len(r)
      PROVE  /\ r[i].do # "stamp"
             /\ r[i].do \notin Reads
             /\ r[i].do = "lock" => Len(r) \in i + 1 .. Len(r)
  <2>1. CASE i = 1
    BY <1>3, <1>4, <1>5, <1>6, <2>1 DEF Reads
  <2>2. CASE i \in 2 .. Len(r) - 1
    BY <1>7, <2>2 DEF Plain
  <2>3. CASE i = Len(r)
    BY <1>6, <2>3 DEF Reads
  <2> QED BY <1>6, <2>1, <2>2, <2>3
<1>9. Steady(r)
  BY <1>5, <1>6, <1>8 DEF Steady
<1> QED BY <1>9 DEF Section

-----------------------------------------------------------------------------
(* The handlers.                                                           *)

\* The parts the handlers are written with.
LEMMA Parts ==
  ASSUME NEW b
  PROVE  /\ Uses(<< Must("put") >>, Plain \ Reads)
         /\ Uses(<< Must("checkNew") >>, Plain \ Reads)
         /\ Uses(<< Must("checkSaved") >>, Plain \ Reads)
         /\ Uses(<< Must("ask") >>, Plain \ Reads)
         /\ Uses(<< Must("probe") >>, Plain \ Reads)
         /\ Uses(<< Must("publish") >>, Plain \ Reads)
         /\ Uses(<< Must("put"), Must("checkSaved") >>, Plain \ Reads)
         /\ Uses(<< Must("ask"), Must("put") >>, Plain \ Reads)
         /\ Uses(<< May("ask") >>, Plain)
         /\ Uses(<< Must("readBack") >>, Plain)
         /\ Uses(Only(b, << Must("activate") >>), Plain)
         /\ Uses(Only(b, << Must("activateGroup") >>), Plain)
         /\ Uses(Only(b, << May("checkSaved"), Must("activate") >>), Plain)
         /\ Uses(Only(b, << Must("checkNew") >>) \o << Must("put") >>,
                 Plain \ Reads)
<1>1. \A op \in Ops : /\ Must(op) \in Step /\ May(op) \in Step
                      /\ Must(op).do = op /\ May(op).do = op
  BY StepTypes
<1>2. {"put", "checkNew", "checkSaved", "ask", "probe", "publish"}
        \subseteq Plain \ Reads
  BY DEF Plain, Ops, Reads
<1>3. {"ask", "readBack", "activate", "activateGroup", "checkSaved"} \subseteq Plain
  BY DEF Plain, Ops
<1>4. \A op \in {"put", "checkNew", "checkSaved", "ask", "probe", "publish"} :
        Uses(<< Must(op) >>, Plain \ Reads)
  BY <1>1, <1>2, UsesOne DEF Plain
<1>5. /\ Uses(<< Must("put"), Must("checkSaved") >>, Plain \ Reads)
      /\ Uses(<< Must("ask"), Must("put") >>, Plain \ Reads)
  BY <1>1, <1>2, UsesTwo DEF Plain
<1>6. Uses(<< May("ask") >>, Plain)
  BY <1>1, <1>3, UsesOne DEF Plain
<1>7. ASSUME NEW op \in {"readBack", "activate", "activateGroup"}
      PROVE  Uses(<< Must(op) >>, Plain)
  <2>1. op \in Ops /\ op \in Plain
    BY <1>3 DEF Plain
  <2> QED BY <1>1, <2>1, UsesOne
<1>8. Uses(<< May("checkSaved"), Must("activate") >>, Plain)
  BY <1>1, <1>3, UsesTwo DEF Plain
<1>9. Uses(Only(b, << Must("checkNew") >>), Plain \ Reads)
  BY <1>4, UsesOnly
<1>10. Uses(Only(b, << Must("checkNew") >>) \o << Must("put") >>, Plain \ Reads)
  BY <1>4, <1>9, UsesConcat
<1>11. /\ Uses(Only(b, << Must("activate") >>), Plain)
       /\ Uses(Only(b, << Must("activateGroup") >>), Plain)
       /\ Uses(Only(b, << May("checkSaved"), Must("activate") >>), Plain)
  BY <1>7, <1>8, UsesOnly
<1> QED BY <1>4, <1>5, <1>6, <1>7, <1>10, <1>11

\* The part of a handler that runs under its lock.
LEMMA SteadyLocked ==
  ASSUME NEW b, Uses(b, Plain \ Reads)
  PROVE  Steady(Locked(b))
<1>1. May("unlock") \in Step /\ May("unlock").do = "unlock"
  BY StepTypes DEF Ops
<1> QED BY <1>1, SteadySection DEF Locked

\* One update() call of the client library.
LEMMA SteadyChain ==
  ASSUME NEW before, NEW after, NEW activate,
         Uses(before, Plain \ Reads), Uses(after, Plain \ Reads)
  PROVE  Steady(UpdateChain(before, after, activate))
<1>1. Must("unlock") \in Step /\ Must("unlock").do = "unlock"
  BY StepTypes DEF Ops
<1>2. Uses(before \o << Must("put") >> \o after, Plain \ Reads)
  BY Parts, UsesConcat
<1>3. Steady(Section(before \o << Must("put") >> \o after, Must("unlock")))
  BY <1>1, <1>2, SteadySection
<1> QED BY <1>3, Parts, SteadyThen DEF UpdateChain

\* Each handler locks and unlocks in order.
LEMMA SteadyHandlers ==
  ASSUME NEW a
  PROVE  /\ Steady(HandleUpdateClass(a))
         /\ Steady(HandleUpdateDdl(a))
         /\ Steady(HandleUpdateTable(a))
         /\ Steady(HandleUpdateStructure(a))
         /\ Steady(HandleUpdateInterface(a))
         /\ Steady(HandleUpdateProgram(a))
         /\ Steady(HandleUpdateDomain(a))
         /\ Steady(HandleUpdateDataElement(a))
         /\ Steady(HandleUpdateServiceDefinition(a))
         /\ Steady(HandleUpdateFunctionModule(a))
         /\ Steady(HandleUpdateBehaviorDefinition(a))
         /\ Steady(HandleUpdateMetadataExtension(a))
         /\ Steady(HandleUpdateFunctionGroup(a))
         /\ Steady(HandleUpdateInclude(a))
         /\ Steady(HandleUpdateLocalDefinitions(a))
         /\ Steady(HandleUpdateLocalMacros(a))
         /\ Steady(HandleUpdateLocalTestClass(a))
         /\ Steady(HandleUpdateLocalTypes(a))
         /\ Steady(HandleUpdateBehaviorImplementation(a))
         /\ Steady(HandleUpdateFunctionInclude(a))
         /\ Steady(HandleUpdateCdsUnitTest(a))
         /\ Steady(HandleUpdateMessageClass(a))
         /\ Steady(HandleUpdateMessageClassMessage(a))
         /\ Steady(HandleUpdateServiceBinding(a))
<1> DEFINE checked == Locked(Only(a.activate, << Must("checkNew") >>)
                               \o << Must("put") >>)
           saves   == Locked(<< Must("put"), Must("checkSaved") >>)
           writes  == Locked(<< Must("put") >>)
<1>1. Steady(checked) /\ Steady(saves) /\ Steady(writes)
  BY Parts, SteadyLocked
<1> HIDE DEF checked, saves, writes
<1>2. Steady(checked \o Only(a.activate, << May("checkSaved"), Must("activate") >>))
  BY <1>1, Parts, SteadyThen
<1>3. /\ Steady(HandleUpdateClass(a))     /\ Steady(HandleUpdateDdl(a))
      /\ Steady(HandleUpdateTable(a))     /\ Steady(HandleUpdateStructure(a))
      /\ Steady(HandleUpdateInterface(a))
  BY <1>2 DEF checked, HandleUpdateClass, HandleUpdateDdl, HandleUpdateTable,
              HandleUpdateStructure, HandleUpdateInterface
<1>4. Steady(HandleUpdateProgram(a))
  <2>1. Steady(<< Must("probe") >> \o checked)
    BY <1>1, Parts, ThenSteady
  <2>2. Steady(<< Must("probe") >> \o checked \o << Must("readBack") >>)
    BY <2>1, Parts, SteadyThen
  <2>3. Steady(<< Must("probe") >> \o checked \o << Must("readBack") >>
                 \o Only(a.activate, << May("checkSaved"), Must("activate") >>))
    BY <2>2, Parts, SteadyThen
  <2> QED BY <2>3 DEF checked, HandleUpdateProgram
<1>5. Steady(saves \o << May("ask") >> \o Only(a.activate, << Must("activate") >>))
  BY <1>1, Parts, SteadyThen
<1>6. /\ Steady(HandleUpdateDomain(a))
      /\ Steady(HandleUpdateServiceDefinition(a))
      /\ Steady(HandleUpdateFunctionModule(a))
  BY <1>5 DEF saves, HandleUpdateDomain, HandleUpdateServiceDefinition,
              HandleUpdateFunctionModule
<1>7. Steady(HandleUpdateDataElement(a))
  <2>1. Steady(<< Must("ask") >> \o saves)
    BY <1>1, Parts, ThenSteady
  <2>2. Steady(<< Must("ask") >> \o saves \o << May("ask") >>)
    BY <2>1, Parts, SteadyThen
  <2>3. Steady(<< Must("ask") >> \o saves \o << May("ask") >>
                 \o Only(a.activate, << Must("activate") >>))
    BY <2>2, Parts, SteadyThen
  <2> QED BY <2>3 DEF saves, HandleUpdateDataElement
<1>8. /\ Steady(HandleUpdateBehaviorDefinition(a))
      /\ Steady(HandleUpdateMetadataExtension(a))
  <2> DEFINE write == IF a.ownLock THEN writes ELSE << Must("put") >>
  <2>1. Steady(<< Must("put") >>)
    BY Parts, UsesMore, SteadyPlain
  <2>2. Steady(write)
    BY <1>1, <2>1
  <2> HIDE DEF write
  <2>3. Steady(write \o << May("ask") >> \o Only(a.activate, << Must("activate") >>))
    BY <2>2, Parts, SteadyThen
  <2> QED BY <2>3 DEF write, writes, HandleUpdateBehaviorDefinition,
                      HandleUpdateMetadataExtension
<1>9. Steady(HandleUpdateFunctionGroup(a))
  BY Parts, SteadyLocked DEF HandleUpdateFunctionGroup
<1>10. Steady(HandleUpdateInclude(a))
  <2>1. Steady(writes \o << Must("readBack") >>
                 \o Only(a.activate, << Must("activateGroup") >>))
    BY <1>1, Parts, SteadyThen
  <2> QED BY <2>1 DEF writes, HandleUpdateInclude
<1>11. /\ Steady(HandleUpdateLocalDefinitions(a))
       /\ Steady(HandleUpdateLocalMacros(a))
       /\ Steady(HandleUpdateLocalTestClass(a))
       /\ Steady(HandleUpdateLocalTypes(a))
       /\ Steady(HandleUpdateBehaviorImplementation(a))
  BY Parts, UsesNone, SteadyChain
  DEF HandleUpdateLocalDefinitions, HandleUpdateLocalMacros,
      HandleUpdateLocalTestClass, HandleUpdateLocalTypes,
      HandleUpdateBehaviorImplementation
<1>12. /\ Steady(HandleUpdateFunctionInclude(a))
       /\ Steady(HandleUpdateCdsUnitTest(a))
       /\ Steady(HandleUpdateMessageClass(a))
       /\ Steady(HandleUpdateMessageClassMessage(a))
  BY UsesNone, SteadyChain
  DEF HandleUpdateFunctionInclude, HandleUpdateCdsUnitTest,
      HandleUpdateMessageClass, HandleUpdateMessageClassMessage
<1>13. Steady(HandleUpdateServiceBinding(a))
  BY Parts, UsesMore, SteadyPlain DEF HandleUpdateServiceBinding
<1> QED BY <1>3, <1>4, <1>6, <1>7, <1>8, <1>9, <1>10, <1>11, <1>12, <1>13

\* Whatever the tool, its handler locks and unlocks in order.
LEMMA SteadyHandler ==
  ASSUME NEW a, a.tool \in Tools
  PROVE  Steady(Handler(a))
<1> USE SteadyHandlers
<1>1. CASE a.tool \in {"UpdateClass", "UpdateDdl", "UpdateTable",
                      "UpdateStructure", "UpdateInterface", "UpdateProgram"}
  BY <1>1 DEF Handler
<1>2. CASE a.tool \in {"UpdateDomain", "UpdateDataElement",
                      "UpdateServiceDefinition", "UpdateFunctionModule",
                      "UpdateBehaviorDefinition", "UpdateMetadataExtension"}
  BY <1>2 DEF Handler
<1>3. CASE a.tool \in {"UpdateFunctionGroup", "UpdateInclude",
                      "UpdateBehaviorImplementation", "UpdateFunctionInclude",
                      "UpdateLocalDefinitions", "UpdateLocalMacros"}
  BY <1>3 DEF Handler
<1>4. CASE a.tool \in {"UpdateLocalTestClass", "UpdateLocalTypes",
                      "UpdateCdsUnitTest", "UpdateMessageClass",
                      "UpdateMessageClassMessage", "UpdateServiceBinding"}
  BY <1>4 DEF Handler
<1> QED BY <1>1, <1>2, <1>3, <1>4
        DEF Tools, SOURCE_WRITE_TOOLS, METADATA_WRITE_TOOLS

\* A program is orderly, with the read-backs the wrappers add.
LEMMA OrderlyProgram ==
  ASSUME NEW a, a.tool \in Tools
  PROVE  Orderly(Program(a))
<1> DEFINE v == Only(a.tool \in SOURCE_WRITE_TOOLS \ VerifiesInline,
                     << May("verify") >>)
           w == WithWriteVerification(a, Handler(a))
           f == Only(a.tool \in HasVersions, << May("findActive") >>)
           d == Only(a.tool \in METADATA_WRITE_TOOLS.description,
                     << May("verifyField") >>)
<1>1. ASSUME NEW op \in {"verify", "verifyStamp", "findActive", "verifyField"}
      PROVE  Uses(<< May(op) >>, Plain)
  <2>1. op \in Ops /\ op \in Plain
    BY DEF Plain, Ops
  <2> QED BY <2>1, StepTypes, UsesOne
<1>2. Uses(v, Plain) /\ Uses(f, Plain) /\ Uses(d, Plain)
  BY <1>1, UsesOnly
<1>3. Steady(Handler(a))
  BY SteadyHandler
<1> HIDE DEF v, f, d
<1>4. Steady(w)
  BY <1>2, <1>3, SteadyThen DEF v, WithWriteVerification
<1>5. CASE a.surface = "high" /\ a.tool \in METADATA_WRITE_TOOLS.changedAt
  <2> DEFINE q == w \o << May("verifyStamp") >>
             p == << May("stamp") >> \o q
  <2>1. w = << Must("publish") >> \o v
    BY <1>5 DEF w, v, WithWriteVerification, Handler, HandleUpdateServiceBinding,
                METADATA_WRITE_TOOLS
  <2> HIDE DEF w
  <2>2. Uses(w, Plain)
    BY <2>1, <1>2, Parts, UsesMore, UsesConcat
  <2>3. Uses(q, Plain)
    BY <1>1, <2>2, UsesConcat
  <2>4. Program(a) = p
    BY <1>5 DEF Program, WithMetadataVerification, w
  <2> HIDE DEF q
  <2>5. << May("stamp") >> \in Seq(Step) /\ May("stamp").do = "stamp"
    BY StepTypes DEF Ops
  <2>6. p \in Seq(Step) /\ p # << >> /\ Head(p) = May("stamp") /\ Tail(p) = q
    BY <2>3, <2>5, ConcatProperties, LenProperties, HeadTailProperties, SeqEqual
    DEF Uses
  <2> QED BY <2>3, <2>4, <2>5, <2>6 DEF Orderly
<1>6. CASE a.surface = "high" /\ a.tool \notin METADATA_WRITE_TOOLS.changedAt
  <2> HIDE DEF w
  <2>1. Program(a) = w \o f \o d
    BY <1>6 DEF Program, WithMetadataVerification, w, f, d
  <2>2. Steady(w \o f \o d)
    BY <1>2, <1>4, SteadyThen
  <2> QED BY <2>1, <2>2 DEF Orderly
<1>7. CASE a.surface # "high"
  BY <1>3, <1>7 DEF Program, Orderly
<1> QED BY <1>5, <1>6, <1>7

\* A program that reads no timestamp first is steady.
LEMMA SteadyProgram ==
  ASSUME NEW a, a.tool \in Tools,
         a.surface = "high" => a.tool \notin METADATA_WRITE_TOOLS.changedAt
  PROVE  Steady(Program(a))
<1> DEFINE v == Only(a.tool \in SOURCE_WRITE_TOOLS \ VerifiesInline,
                     << May("verify") >>)
           f == Only(a.tool \in HasVersions, << May("findActive") >>)
           d == Only(a.tool \in METADATA_WRITE_TOOLS.description,
                     << May("verifyField") >>)
<1>1. ASSUME NEW op \in {"verify", "findActive", "verifyField"}
      PROVE  Uses(<< May(op) >>, Plain)
  <2>1. op \in Ops /\ op \in Plain
    BY DEF Plain, Ops
  <2> QED BY <2>1, StepTypes, UsesOne
<1>2. Uses(v, Plain) /\ Uses(f, Plain) /\ Uses(d, Plain)
  BY <1>1, UsesOnly
<1>3. Steady(Handler(a))
  BY SteadyHandler
<1> HIDE DEF v, f, d
<1>4. Steady(Handler(a) \o v \o f \o d)
  BY <1>2, <1>3, SteadyThen
<1>5. CASE a.surface = "high"
  BY <1>4, <1>5 DEF Program, WithMetadataVerification, WithWriteVerification,
                    v, f, d
<1>6. CASE a.surface # "high"
  BY <1>3, <1>6 DEF Program
<1> QED BY <1>5, <1>6

\* A handler that is given a lock handle neither locks nor unlocks.
LEMMA PassedHandleProgram ==
  ASSUME NEW a, a.tool \in Tools, Possible(a), ~ a.ownLock
  PROVE  Uses(Program(a), Plain)
<1> DEFINE v == Only(a.tool \in SOURCE_WRITE_TOOLS \ VerifiesInline,
                     << May("verify") >>)
           h == << Must("put") >> \o << May("ask") >>
                  \o Only(a.activate, << Must("activate") >>)
<1>1. a.tool \in TakesLockHandle
  BY DEF Possible
<1>2. Handler(a) = h
  BY <1>1 DEF TakesLockHandle, Handler, HandleUpdateBehaviorDefinition,
              HandleUpdateMetadataExtension
<1>3. Uses(h, Plain)
  BY Parts, UsesMore, UsesConcat
<1>4. Uses(v, Plain)
  <2>1. "verify" \in Ops /\ "verify" \in Plain
    BY DEF Plain, Ops
  <2> QED BY <2>1, StepTypes, UsesOne, UsesOnly
<1> HIDE DEF h, v
<1>5. Uses(h \o v, Plain)
  BY <1>3, <1>4, UsesConcat
<1>6. /\ Only(a.tool \in HasVersions, << May("findActive") >>) = << >>
      /\ Only(a.tool \in METADATA_WRITE_TOOLS.description, << May("verifyField") >>)
           = << >>
      /\ a.tool \notin METADATA_WRITE_TOOLS.changedAt
  BY <1>1 DEF TakesLockHandle, HasVersions, METADATA_WRITE_TOOLS, Only
<1>7. CASE a.surface = "high"
  <2>1. Program(a) = h \o v \o << >> \o << >>
    BY <1>2, <1>6, <1>7 DEF Program, WithMetadataVerification,
                            WithWriteVerification, v
  <2> QED BY <1>5, <2>1, UsesNone, UsesConcat
<1>8. CASE a.surface # "high"
  BY <1>2, <1>3, <1>8 DEF Program
<1> QED BY <1>7, <1>8

-----------------------------------------------------------------------------
(* Handlers that check the new source before they write it.                *)

ChecksFirst == {"UpdateClass", "UpdateDdl", "UpdateTable", "UpdateStructure",
                "UpdateInterface", "UpdateProgram"}
Writes  == {"put", "publish"}
Harmless == Ops \ Writes

\* A check that must pass comes before every write.
Guarded(p) ==
  /\ p \in Seq(Step)
  /\ \A j \in 1 .. Len(p) :
       p[j].do \in Writes => \E i \in 1 .. j - 1 : p[i] = Must("checkNew")

\* Requests that write nothing may follow.
LEMMA GuardedThen ==
  ASSUME NEW p, NEW q, Guarded(p), Uses(q, Harmless)
  PROVE  Guarded(p \o q)
<1>1. /\ p \o q \in Seq(Step)
      /\ Len(p \o q) = Len(p) + Len(q)
      /\ \A i \in 1 .. Len(p) + Len(q) :
           (p \o q)[i] = IF i <= Len(p) THEN p[i] ELSE q[i - Len(p)]
  BY ConcatProperties DEF Guarded, Uses
<1>2. Len(p) \in Nat /\ Len(q) \in Nat
  BY LenProperties DEF Guarded, Uses
<1>3. ASSUME NEW j \in 1 .. Len(p) + Len(q), (p \o q)[j].do \in Writes
      PROVE  \E i \in 1 .. j - 1 : (p \o q)[i] = Must("checkNew")
  <2>1. CASE j <= Len(p)
    <3>1. j \in 1 .. Len(p) /\ p[j].do \in Writes
      BY <1>1, <1>2, <1>3, <2>1
    <3>2. PICK i \in 1 .. j - 1 : p[i] = Must("checkNew")
      BY <3>1 DEF Guarded
    <3>3. i \in 1 .. Len(p) + Len(q) /\ i <= Len(p)
      BY <1>2, <2>1, <3>2
    <3> QED BY <1>1, <3>2, <3>3
  <2>2. CASE ~ (j <= Len(p))
    <3>1. j - Len(p) \in 1 .. Len(q)
      BY <1>2, <2>2
    <3>2. (p \o q)[j] = q[j - Len(p)]
      BY <1>1, <2>2
    <3> QED BY <1>3, <3>1, <3>2 DEF Uses, Harmless
  <2> QED BY <2>1, <2>2
<1> QED BY <1>1, <1>3 DEF Guarded

\* Requests that write nothing may come first.
LEMMA ThenGuarded ==
  ASSUME NEW p, NEW q, Uses(p, Harmless), Guarded(q)
  PROVE  Guarded(p \o q)
<1>1. /\ p \o q \in Seq(Step)
      /\ Len(p \o q) = Len(p) + Len(q)
      /\ \A i \in 1 .. Len(p) + Len(q) :
           (p \o q)[i] = IF i <= Len(p) THEN p[i] ELSE q[i - Len(p)]
  BY ConcatProperties DEF Guarded, Uses
<1>2. Len(p) \in Nat /\ Len(q) \in Nat
  BY LenProperties DEF Guarded, Uses
<1>3. ASSUME NEW j \in 1 .. Len(p) + Len(q), (p \o q)[j].do \in Writes
      PROVE  \E i \in 1 .. j - 1 : (p \o q)[i] = Must("checkNew")
  <2>1. CASE j <= Len(p)
    <3>1. j \in 1 .. Len(p) /\ p[j].do \in Writes
      BY <1>1, <1>2, <1>3, <2>1
    <3> QED BY <3>1 DEF Uses, Harmless
  <2>2. CASE ~ (j <= Len(p))
    <3>1. j - Len(p) \in 1 .. Len(q) /\ q[j - Len(p)].do \in Writes
      BY <1>1, <1>2, <1>3, <2>2
    <3>2. PICK i \in 1 .. j - Len(p) - 1 : q[i] = Must("checkNew")
      BY <3>1 DEF Guarded
    <3>3. /\ i + Len(p) \in 1 .. j - 1 /\ i + Len(p) \in 1 .. Len(p) + Len(q)
          /\ ~ (i + Len(p) <= Len(p)) /\ i + Len(p) - Len(p) = i
      BY <1>2, <3>1, <3>2
    <3>4. (p \o q)[i + Len(p)] = q[i]
      BY <1>1, <3>3
    <3> QED BY <3>2, <3>3, <3>4
  <2> QED BY <2>1, <2>2
<1> QED BY <1>1, <1>3 DEF Guarded

\* The first request of such a program is no write; what follows it is
\* guarded, unless it was the check.
LEMMA GuardedTail ==
  ASSUME NEW p, Guarded(p), p # << >>
  PROVE  /\ Head(p).do \notin Writes
         /\ Head(p) # Must("checkNew") => Guarded(Tail(p))
<1>1. /\ Head(p) = p[1] /\ 1 \in 1 .. Len(p) /\ Len(p) \in Nat
      /\ Tail(p) \in Seq(Step) /\ Len(Tail(p)) = Len(p) - 1
      /\ \A i \in 1 .. Len(Tail(p)) : Tail(p)[i] = p[i + 1]
  BY EmptySeq, LenProperties, HeadTailProperties DEF Guarded
<1>2. Head(p).do \notin Writes
  BY <1>1 DEF Guarded
<1>3. ASSUME Head(p) # Must("checkNew"), NEW j \in 1 .. Len(Tail(p)),
             Tail(p)[j].do \in Writes
      PROVE  \E i \in 1 .. j - 1 : Tail(p)[i] = Must("checkNew")
  <2>1. j + 1 \in 1 .. Len(p) /\ p[j + 1].do \in Writes
    BY <1>1, <1>3
  <2>2. PICK i \in 1 .. (j + 1) - 1 : p[i] = Must("checkNew")
    BY <2>1 DEF Guarded
  <2>3. i # 1
    BY <1>1, <1>3, <2>2
  <2>4. i - 1 \in 1 .. j - 1 /\ i - 1 \in 1 .. Len(Tail(p)) /\ (i - 1) + 1 = i
    BY <1>1, <2>2, <2>3
  <2> QED BY <1>1, <2>2, <2>4
<1> QED BY <1>1, <1>2, <1>3 DEF Guarded

\* The six tools check the source they were asked to activate before they
\* write it, with the wrappers or without.
LEMMA GuardedProgram ==
  ASSUME NEW a, a.tool \in ChecksFirst, a.activate
  PROVE  Guarded(Program(a))
<1> DEFINE check == Only(a.activate, << Must("checkNew") >>)
           body  == check \o << Must("put") >>
           after == Only(a.activate, << May("checkSaved"), Must("activate") >>)
           v == Only(a.tool \in SOURCE_WRITE_TOOLS \ VerifiesInline,
                     << May("verify") >>)
<1>1. ASSUME NEW op \in Harmless
      PROVE  Uses(<< Must(op) >>, Harmless) /\ Uses(<< May(op) >>, Harmless)
  BY <1>1, StepTypes, UsesOne DEF Harmless
<1>2. /\ Uses(<< Must("lock") >>, Harmless) /\ Uses(<< Must("probe") >>, Harmless)
      /\ Uses(<< Must("readBack") >>, Harmless)
      /\ Uses(<< May("unlock") >>, Harmless) /\ Uses(<< May("verify") >>, Harmless)
  <2>1. {"lock", "unlock", "probe", "readBack", "verify"} \subseteq Harmless
    BY DEF Harmless, Ops, Writes
  <2> QED BY <1>1, <2>1
<1>3. Uses(<< May("checkSaved"), Must("activate") >>, Harmless)
  <2>1. {"checkSaved", "activate"} \subseteq Harmless
    BY DEF Harmless, Ops, Writes
  <2> QED BY <2>1, StepTypes, UsesTwo DEF Harmless
<1>4. Uses(v, Harmless) /\ Uses(after, Harmless)
  BY <1>2, <1>3, UsesOnly
<1>5. Guarded(body)
  <2>1. /\ Must("checkNew") \in Step /\ Must("put") \in Step
        /\ Must("checkNew").do = "checkNew" /\ Must("put").do = "put"
    BY StepTypes DEF Ops
  <2>2. /\ << Must("checkNew") >> \in Seq(Step) /\ << Must("put") >> \in Seq(Step)
        /\ check = << Must("checkNew") >>
    BY <2>1 DEF Only
  <2>3. /\ body \in Seq(Step) /\ Len(body) = 2
        /\ body[1] = Must("checkNew") /\ body[2] = Must("put")
    <3> HIDE DEF check
    <3>1. body = << Must("checkNew") >> \o << Must("put") >>
      BY <2>2
    <3> QED BY <2>1, <2>2, <3>1, ConcatProperties
  <2> HIDE DEF body
  <2>4. ASSUME NEW j \in 1 .. Len(body), body[j].do \in Writes
        PROVE  \E i \in 1 .. j - 1 : body[i] = Must("checkNew")
    <3>1. j = 1 \/ j = 2
      BY <2>3, <2>4
    <3>2. j # 1
      BY <2>1, <2>3, <2>4 DEF Writes
    <3> QED BY <2>3, <3>1, <3>2
  <2> QED BY <2>3, <2>4 DEF Guarded
<1> HIDE DEF check, body, after, v
<1>6. Guarded(Locked(body))
  BY <1>2, <1>5, ThenGuarded, GuardedThen DEF Locked, Section
<1>7. Guarded(Handler(a))
  <2>1. CASE a.tool # "UpdateProgram"
    <3>1. Handler(a) = Locked(body) \o after
      BY <2>1 DEF ChecksFirst, Handler, HandleUpdateClass, HandleUpdateDdl,
                  HandleUpdateTable, HandleUpdateStructure,
                  HandleUpdateInterface, body, check, after
    <3> QED BY <1>4, <1>6, <3>1, GuardedThen
  <2>2. CASE a.tool = "UpdateProgram"
    <3>1. Handler(a) = << Must("probe") >> \o Locked(body)
                         \o << Must("readBack") >> \o after
      BY <2>2 DEF Handler, HandleUpdateProgram, body, check, after
    <3>2. Guarded(<< Must("probe") >> \o Locked(body))
      BY <1>2, <1>6, ThenGuarded
    <3> QED BY <1>2, <1>4, <3>1, <3>2, GuardedThen
  <2> QED BY <2>1, <2>2
<1>8. CASE a.surface = "high"
  <2>1. /\ a.tool \notin HasVersions
        /\ a.tool \notin METADATA_WRITE_TOOLS.description
        /\ a.tool \notin METADATA_WRITE_TOOLS.changedAt
    BY DEF ChecksFirst, HasVersions, METADATA_WRITE_TOOLS
  <2>2. Program(a) = Handler(a) \o v \o << >> \o << >>
    BY <1>8, <2>1 DEF Program, WithMetadataVerification,
                      WithWriteVerification, v, Only
  <2>3. Guarded(Handler(a) \o v)
    BY <1>4, <1>7, GuardedThen
  <2> QED BY <2>2, <2>3, UsesNone, GuardedThen
<1>9. CASE a.surface # "high"
  BY <1>7, <1>9 DEF Program
<1> QED BY <1>8, <1>9

-----------------------------------------------------------------------------
(* Every handler writes once, and compares after it has written.           *)

Compares == {"readBack", "verify"}
Quiet    == Ops \ (Writes \cup Compares)

\* The requests of the handlers themselves, and those that may surround the
\* handler of a tool whose source is compared.
Bare    == Ops \ {"stamp", "verify", "verifyStamp", "findActive", "verifyField"}
Sourced == Bare \cup {"verify"}

\* Made of requests in S; no write follows a write or a comparison, and a
\* handler that cannot read back fails.
Proper(p, S) ==
  /\ Uses(p, S)
  /\ \A i \in 1 .. Len(p) :
       /\ p[i].do \in Writes \cup Compares
            => \A j \in i + 1 .. Len(p) : p[j].do \notin Writes
       /\ p[i].do = "readBack" => p[i].onError = "abort"

\* Some request compares the source.
Looks(p) == \E i \in 1 .. Len(p) : p[i].do \in Compares

\* Requests that neither write nor compare.
LEMMA ProperQuiet ==
  ASSUME NEW S, NEW p, Uses(p, S), Uses(p, Quiet)
  PROVE  Proper(p, S)
  BY DEF Proper, Uses, Quiet, Compares

\* One request.
LEMMA ProperOne ==
  ASSUME NEW S, NEW op \in Ops, op \in S
  PROVE  /\ Proper(<< Must(op) >>, S)
         /\ op # "readBack" => Proper(<< May(op) >>, S)
         /\ op \in Compares => Looks(<< Must(op) >>) /\ Looks(<< May(op) >>)
<1>1. ASSUME NEW x \in Step, x.do = op,
             op = "readBack" => x.onError = "abort"
      PROVE  Proper(<< x >>, S)
  <2>1. Uses(<< x >>, S)
    BY <1>1, UsesOne
  <2>2. Len(<< x >>) = 1 /\ << x >>[1] = x
    OBVIOUS
  <2> QED BY <1>1, <2>1, <2>2 DEF Proper
<1>2. ASSUME NEW x, x.do = op, op \in Compares
      PROVE  Looks(<< x >>)
  BY <1>2 DEF Looks
<1>3. Must(op).onError = "abort"
  BY DEF Must
<1> QED BY <1>1, <1>2, <1>3, StepTypes

\* Two requests of which the first is the write, or neither is.
LEMMA ProperTwo ==
  ASSUME NEW S, NEW x \in Step, NEW y \in Step, x.do \in S, y.do \in S,
         x.do \notin Compares, y.do \notin Compares,
         ~ (x.do \in Writes /\ y.do \in Writes)
  PROVE  Proper(<< x, y >>, S)
<1>1. Uses(<< x, y >>, S)
  BY UsesTwo
<1>2. Len(<< x, y >>) = 2 /\ << x, y >>[1] = x /\ << x, y >>[2] = y
  OBVIOUS
<1>3. ASSUME NEW i \in 1 .. 2
      PROVE  /\ << x, y >>[i].do \in Writes \cup Compares
                  => \A j \in i + 1 .. 2 : << x, y >>[j].do \notin Writes
             /\ << x, y >>[i].do # "readBack"
  <2>1. CASE i = 1
    <3>1. \A j \in i + 1 .. 2 : j = 2
      BY <2>1
    <3> QED BY <1>2, <2>1, <3>1 DEF Compares
  <2>2. CASE i = 2
    <3>1. \A j \in i + 1 .. 2 : FALSE
      BY <2>2
    <3> QED BY <1>2, <2>2, <3>1 DEF Compares
  <2> QED BY <2>1, <2>2
<1> QED BY <1>1, <1>2, <1>3 DEF Proper

\* A part follows another: the first is quiet, or the second writes nothing.
LEMMA ProperConcat ==
  ASSUME NEW S, NEW p, NEW q, Proper(p, S), Proper(q, S),
         Uses(p, Quiet) \/ Uses(q, Harmless)
  PROVE  Proper(p \o q, S)
<1>1. Uses(p, S) /\ Uses(q, S) /\ p \in Seq(Step) /\ q \in Seq(Step)
  BY DEF Proper, Uses
<1>2. /\ Len(p \o q) = Len(p) + Len(q)
      /\ \A i \in 1 .. Len(p) + Len(q) :
           (p \o q)[i] = IF i <= Len(p) THEN p[i] ELSE q[i - Len(p)]
  BY <1>1, ConcatProperties
<1>3. Len(p) \in Nat /\ Len(q) \in Nat
  BY <1>1, LenProperties
<1>4. Uses(p \o q, S)
  BY <1>1, UsesConcat
<1> DEFINE r == p \o q
<1> HIDE DEF r
<1>5. ASSUME NEW i \in 1 .. Len(p) + Len(q)
      PROVE  /\ i <= Len(p) => i \in 1 .. Len(p) /\ r[i] = p[i]
             /\ ~ (i <= Len(p)) => /\ i - Len(p) \in 1 .. Len(q)
                                   /\ r[i] = q[i - Len(p)]
  <2>1. i <= Len(p) => i \in 1 .. Len(p)
    BY <1>3
  <2>2. ~ (i <= Len(p)) => i - Len(p) \in 1 .. Len(q)
    BY <1>3
  <2> QED BY <1>2, <2>1, <2>2 DEF r
<1>6. ASSUME NEW i \in 1 .. Len(p) + Len(q), r[i].do = "readBack"
      PROVE  r[i].onError = "abort"
  BY <1>5, <1>6 DEF Proper
<1>7. ASSUME NEW i \in 1 .. Len(p) + Len(q), r[i].do \in Writes \cup Compares,
             NEW j \in i + 1 .. Len(p) + Len(q)
      PROVE  r[j].do \notin Writes
  <2>1. j \in 1 .. Len(p) + Len(q)
    BY <1>3
  <2>2. CASE j <= Len(p)
    <3>1. i <= Len(p) /\ j \in i + 1 .. Len(p)
      BY <1>3, <2>2
    <3> QED BY <1>5, <1>7, <2>1, <2>2, <3>1 DEF Proper
  <2>3. CASE ~ (i <= Len(p))
    <3>1. ~ (j <= Len(p)) /\ j - Len(p) \in (i - Len(p)) + 1 .. Len(q)
      BY <1>3, <2>3
    <3> QED BY <1>5, <1>7, <2>1, <2>3, <3>1 DEF Proper
  <2>4. CASE i <= Len(p) /\ ~ (j <= Len(p))
    <3>1. ~ Uses(p, Quiet)
      BY <1>5, <1>7, <2>4 DEF Uses, Quiet
    <3>2. r[j].do \in Harmless
      BY <1>5, <2>1, <2>4, <3>1 DEF Uses
    <3> QED BY <3>2 DEF Harmless
  <2> QED BY <2>2, <2>3, <2>4
<1> QED BY <1>2, <1>4, <1>6, <1>7 DEF Proper, r

\* A comparison is not lost among other parts.
LEMMA LooksConcat ==
  ASSUME NEW p \in Seq(Step), NEW q \in Seq(Step), Looks(p) \/ Looks(q)
  PROVE  Looks(p \o q)
<1>1. /\ Len(p \o q) = Len(p) + Len(q) /\ Len(p) \in Nat /\ Len(q) \in Nat
      /\ \A i \in 1 .. Len(p) + Len(q) :
           (p \o q)[i] = IF i <= Len(p) THEN p[i] ELSE q[i - Len(p)]
  BY ConcatProperties, LenProperties
<1>2. CASE Looks(p)
  <2>1. PICK i \in 1 .. Len(p) : p[i].do \in Compares
    BY <1>2 DEF Looks
  <2>2. i \in 1 .. Len(p) + Len(q) /\ i <= Len(p)
    BY <1>1
  <2> QED BY <1>1, <2>1, <2>2 DEF Looks
<1>3. CASE Looks(q)
  <2>1. PICK i \in 1 .. Len(q) : q[i].do \in Compares
    BY <1>3 DEF Looks
  <2>2. /\ i + Len(p) \in 1 .. Len(p) + Len(q) /\ ~ (i + Len(p) <= Len(p))
        /\ (i + Len(p)) - Len(p) = i
    BY <1>1
  <2> QED BY <1>1, <2>1, <2>2 DEF Looks
<1> QED BY <1>2, <1>3

\* The parts the handlers are written with, as writes and comparisons.
LEMMA ProperParts ==
  ASSUME NEW b
  PROVE  /\ Uses(<< >>, Quiet) /\ Proper(<< >>, Bare)
         /\ \A op \in {"lock", "ask", "probe", "checkNew", "checkSaved"} :
              Uses(<< Must(op) >>, Quiet) /\ Proper(<< Must(op) >>, Bare)
         /\ \A op \in {"put", "publish", "readBack"} : Proper(<< Must(op) >>, Bare)
         /\ Uses(<< Must("readBack") >>, Harmless)
         /\ Uses(<< May("ask") >>, Quiet) /\ Proper(<< May("ask") >>, Bare)
         /\ \A op \in {"activate", "activateGroup"} :
              /\ Uses(Only(b, << Must(op) >>), Harmless)
              /\ Proper(Only(b, << Must(op) >>), Bare)
         /\ LET check == Only(b, << May("checkSaved"), Must("activate") >>)
            IN  Uses(check, Harmless) /\ Proper(check, Bare)
         /\ Proper(<< Must("put"), Must("checkSaved") >>, Bare)
         /\ Proper(<< Must("ask"), Must("put") >>, Bare)
         /\ Proper(Only(b, << Must("checkNew") >>) \o << Must("put") >>, Bare)
<1>1. /\ \A op \in Ops : /\ Must(op) \in Step /\ May(op) \in Step
                         /\ Must(op).do = op /\ May(op).do = op
      /\ {"lock", "ask", "probe", "checkNew", "checkSaved", "activate",
          "activateGroup"} \subseteq Quiet \cap Bare \cap Ops
      /\ {"put", "publish", "readBack"} \subseteq Bare \cap Ops
      /\ Quiet \subseteq Harmless /\ "readBack" \in Harmless
  BY StepTypes DEF Quiet, Bare, Ops, Writes, Compares, Harmless
<1>2. ASSUME NEW op \in {"lock", "ask", "probe", "checkNew", "checkSaved",
                         "activate", "activateGroup"}
      PROVE  /\ Uses(<< Must(op) >>, Quiet) /\ Proper(<< Must(op) >>, Bare)
             /\ Uses(<< May(op) >>, Quiet) /\ Proper(<< May(op) >>, Bare)
  <2>1. op \in Ops /\ op \in Quiet /\ op \in Bare
    BY <1>1
  <2>2. /\ Uses(<< Must(op) >>, Quiet) /\ Uses(<< May(op) >>, Quiet)
        /\ Uses(<< Must(op) >>, Bare) /\ Uses(<< May(op) >>, Bare)
    BY <1>1, <2>1, UsesOne
  <2> QED BY <2>2, ProperQuiet
<1>3. \A op \in {"put", "publish", "readBack"} : Proper(<< Must(op) >>, Bare)
  BY <1>1, ProperOne
<1>4. Uses(<< >>, Quiet) /\ Uses(<< >>, Bare) /\ Proper(<< >>, Bare)
  BY UsesNone, ProperQuiet
<1>5. Uses(<< Must("readBack") >>, Harmless)
  BY <1>1, UsesOne
<1>6. ASSUME NEW op \in {"activate", "activateGroup"}
      PROVE  /\ Uses(Only(b, << Must(op) >>), Harmless)
             /\ Proper(Only(b, << Must(op) >>), Bare)
  BY <1>1, <1>2, <1>4, UsesMore DEF Only
<1>7. /\ Uses(<< May("checkSaved"), Must("activate") >>, Harmless)
      /\ Proper(<< May("checkSaved"), Must("activate") >>, Bare)
  <2>1. /\ May("checkSaved") \in Step /\ Must("activate") \in Step
        /\ May("checkSaved").do = "checkSaved" /\ Must("activate").do = "activate"
        /\ {"checkSaved", "activate"} \subseteq Quiet \cap Bare
    BY <1>1
  <2>2. /\ Uses(<< May("checkSaved"), Must("activate") >>, Quiet)
        /\ Uses(<< May("checkSaved"), Must("activate") >>, Bare)
    BY <2>1, UsesTwo
  <2> QED BY <1>1, <2>2, UsesMore, ProperQuiet
<1>8. LET check == Only(b, << May("checkSaved"), Must("activate") >>)
      IN  Uses(check, Harmless) /\ Proper(check, Bare)
  BY <1>1, <1>4, <1>7, UsesMore DEF Only
<1>9. /\ Proper(<< Must("put"), Must("checkSaved") >>, Bare)
      /\ Proper(<< Must("ask"), Must("put") >>, Bare)
  <2>1. /\ \A op \in {"put", "ask", "checkSaved"} :
             Must(op) \in Step /\ Must(op).do = op /\ op \in Bare
        /\ {"put", "ask", "checkSaved"} \cap Compares = {}
        /\ "ask" \notin Writes /\ "checkSaved" \notin Writes
    BY <1>1 DEF Compares, Writes
  <2> QED BY <2>1, ProperTwo
<1>10. Proper(Only(b, << Must("checkNew") >>) \o << Must("put") >>, Bare)
  <2>1. /\ Uses(Only(b, << Must("checkNew") >>), Quiet)
        /\ Proper(Only(b, << Must("checkNew") >>), Bare)
    BY <1>2, <1>4 DEF Only
  <2> QED BY <1>3, <2>1, ProperConcat
<1> QED BY <1>2, <1>3, <1>4, <1>5, <1>6, <1>8, <1>9, <1>10

\* The part of a handler that runs under its lock.
LEMMA ProperSection ==
  ASSUME NEW b, Proper(b, Bare)
  PROVE  /\ Proper(Locked(b), Bare)
         /\ Proper(Section(b, Must("unlock")), Bare)
<1>1. ASSUME NEW u \in {Must("unlock"), May("unlock")}
      PROVE  Proper(Section(b, u), Bare)
  <2>1. "unlock" \in Ops /\ "unlock" \in Quiet /\ "unlock" \in Bare
        /\ "unlock" \in Harmless
    BY DEF Quiet, Bare, Ops, Writes, Compares, Harmless
  <2>2. u \in Step /\ u.do = "unlock"
    BY <2>1, StepTypes
  <2>3. Uses(<< u >>, Quiet) /\ Uses(<< u >>, Harmless) /\ Uses(<< u >>, Bare)
    BY <2>1, <2>2, UsesOne
  <2>4. Proper(<< u >>, Bare)
    BY <2>3, ProperQuiet
  <2>5. Proper(<< Must("lock") >> \o b, Bare)
    BY ProperParts, ProperConcat
  <2> QED BY <2>3, <2>4, <2>5, ProperConcat DEF Section
<1> QED BY <1>1 DEF Locked

\* One update() call of the client library.
LEMMA ProperChain ==
  ASSUME NEW before, NEW after, NEW activate,
         before = << >> \/ before = << Must("checkNew") >>,
         after = << >> \/ after = << Must("checkSaved") >>
  PROVE  Proper(UpdateChain(before, after, activate), Bare)
<1>1. Quiet \subseteq Harmless
  BY DEF Quiet, Harmless
<1>2. /\ Uses(before, Quiet) /\ Proper(before, Bare)
      /\ Uses(after, Harmless) /\ Proper(after, Bare)
  BY <1>1, ProperParts, UsesMore
<1>3. Proper(before \o << Must("put") >>, Bare)
  BY <1>2, ProperParts, ProperConcat
<1>4. Proper(before \o << Must("put") >> \o after, Bare)
  BY <1>2, <1>3, ProperConcat
<1>5. Proper(Section(before \o << Must("put") >> \o after, Must("unlock")), Bare)
  BY <1>4, ProperSection
<1> QED BY <1>5, ProperParts, ProperConcat DEF UpdateChain

\* Each handler writes once, and compares afterwards.
LEMMA ProperHandlers ==
  ASSUME NEW a
  PROVE  /\ Proper(HandleUpdateClass(a), Bare)
         /\ Proper(HandleUpdateDdl(a), Bare)
         /\ Proper(HandleUpdateTable(a), Bare)
         /\ Proper(HandleUpdateStructure(a), Bare)
         /\ Proper(HandleUpdateInterface(a), Bare)
         /\ Proper(HandleUpdateProgram(a), Bare) /\ Looks(HandleUpdateProgram(a))
         /\ Proper(HandleUpdateDomain(a), Bare)
         /\ Proper(HandleUpdateDataElement(a), Bare)
         /\ Proper(HandleUpdateServiceDefinition(a), Bare)
         /\ Proper(HandleUpdateFunctionModule(a), Bare)
         /\ Proper(HandleUpdateBehaviorDefinition(a), Bare)
         /\ Proper(HandleUpdateMetadataExtension(a), Bare)
         /\ Proper(HandleUpdateFunctionGroup(a), Bare)
         /\ Proper(HandleUpdateInclude(a), Bare) /\ Looks(HandleUpdateInclude(a))
         /\ Proper(HandleUpdateLocalDefinitions(a), Bare)
         /\ Proper(HandleUpdateLocalMacros(a), Bare)
         /\ Proper(HandleUpdateLocalTestClass(a), Bare)
         /\ Proper(HandleUpdateLocalTypes(a), Bare)
         /\ Proper(HandleUpdateBehaviorImplementation(a), Bare)
         /\ Proper(HandleUpdateFunctionInclude(a), Bare)
         /\ Proper(HandleUpdateCdsUnitTest(a), Bare)
         /\ Proper(HandleUpdateMessageClass(a), Bare)
         /\ Proper(HandleUpdateMessageClassMessage(a), Bare)
         /\ Proper(HandleUpdateServiceBinding(a), Bare)
<1> DEFINE checked == Locked(Only(a.activate, << Must("checkNew") >>)
                               \o << Must("put") >>)
           saves   == Locked(<< Must("put"), Must("checkSaved") >>)
           writes  == Locked(<< Must("put") >>)
<1>1. Proper(checked, Bare) /\ Proper(saves, Bare) /\ Proper(writes, Bare)
  BY ProperParts, ProperSection
<1>2. Quiet \subseteq Harmless
  BY DEF Quiet, Harmless
<1>3. Uses(<< May("ask") >>, Harmless)
  BY <1>2, ProperParts, UsesMore
<1>5. \A p : Proper(p, Bare) => p \in Seq(Step)
  BY DEF Proper, Uses
<1>6. Looks(<< Must("readBack") >>)
  <2>1. "readBack" \in Ops /\ "readBack" \in Bare /\ "readBack" \in Compares
    BY DEF Ops, Bare, Compares
  <2> QED BY <2>1, ProperOne
<1> HIDE DEF checked, saves, writes
<1>7. Proper(checked \o Only(a.activate, << May("checkSaved"), Must("activate") >>),
             Bare)
  BY <1>1, ProperParts, ProperConcat
<1>8. /\ Proper(HandleUpdateClass(a), Bare) /\ Proper(HandleUpdateDdl(a), Bare)
      /\ Proper(HandleUpdateTable(a), Bare) /\ Proper(HandleUpdateStructure(a), Bare)
      /\ Proper(HandleUpdateInterface(a), Bare)
  BY <1>7 DEF checked, HandleUpdateClass, HandleUpdateDdl, HandleUpdateTable,
              HandleUpdateStructure, HandleUpdateInterface
<1>9. Proper(HandleUpdateProgram(a), Bare) /\ Looks(HandleUpdateProgram(a))
  <2> DEFINE p == << Must("probe") >> \o checked
             q == Only(a.activate, << May("checkSaved"), Must("activate") >>)
  <2>1. Proper(p, Bare)
    BY <1>1, ProperParts, ProperConcat
  <2>2. Uses(q, Harmless) /\ Proper(q, Bare)
    BY ProperParts
  <2> HIDE DEF p, q
  <2>3. Proper(p \o << Must("readBack") >>, Bare)
    BY <2>1, ProperParts, ProperConcat
  <2>4. Proper(p \o << Must("readBack") >> \o q, Bare)
    BY <2>2, <2>3, ProperConcat
  <2>5. Proper(<< Must("readBack") >>, Bare)
    BY ProperParts
  <2>6. Looks(p \o << Must("readBack") >>)
    BY <1>5, <1>6, <2>1, <2>5, LooksConcat
  <2>7. Looks(p \o << Must("readBack") >> \o q)
    BY <1>5, <2>2, <2>3, <2>6, LooksConcat
  <2> QED BY <2>4, <2>7 DEF p, q, checked, HandleUpdateProgram
<1>10. Proper(saves \o << May("ask") >>, Bare)
  BY <1>1, <1>3, ProperParts, ProperConcat
<1>11. Proper(saves \o << May("ask") >> \o Only(a.activate, << Must("activate") >>),
              Bare)
  BY <1>10, ProperParts, ProperConcat
<1>12. /\ Proper(HandleUpdateDomain(a), Bare)
       /\ Proper(HandleUpdateServiceDefinition(a), Bare)
       /\ Proper(HandleUpdateFunctionModule(a), Bare)
  BY <1>11 DEF saves, HandleUpdateDomain, HandleUpdateServiceDefinition,
               HandleUpdateFunctionModule
<1>13. Proper(HandleUpdateDataElement(a), Bare)
  <2>1. Proper(<< Must("ask") >> \o saves, Bare)
    BY <1>1, ProperParts, ProperConcat
  <2>2. Proper(<< Must("ask") >> \o saves \o << May("ask") >>, Bare)
    BY <1>3, <2>1, ProperParts, ProperConcat
  <2>3. Proper(<< Must("ask") >> \o saves \o << May("ask") >>
                 \o Only(a.activate, << Must("activate") >>), Bare)
    BY <2>2, ProperParts, ProperConcat
  <2> QED BY <2>3 DEF saves, HandleUpdateDataElement
<1>14. /\ Proper(HandleUpdateBehaviorDefinition(a), Bare)
       /\ Proper(HandleUpdateMetadataExtension(a), Bare)
  <2> DEFINE write == IF a.ownLock THEN writes ELSE << Must("put") >>
  <2>1. Proper(write, Bare)
    BY <1>1, ProperParts
  <2> HIDE DEF write
  <2>2. Proper(write \o << May("ask") >>, Bare)
    BY <1>3, <2>1, ProperParts, ProperConcat
  <2>3. Proper(write \o << May("ask") >> \o Only(a.activate, << Must("activate") >>),
               Bare)
    BY <2>2, ProperParts, ProperConcat
  <2> QED BY <2>3 DEF write, writes, HandleUpdateBehaviorDefinition,
                      HandleUpdateMetadataExtension
<1>15. Proper(HandleUpdateFunctionGroup(a), Bare)
  BY ProperParts, ProperSection DEF HandleUpdateFunctionGroup
<1>16. Proper(HandleUpdateInclude(a), Bare) /\ Looks(HandleUpdateInclude(a))
  <2> DEFINE q == Only(a.activate, << Must("activateGroup") >>)
  <2>1. Uses(q, Harmless) /\ Proper(q, Bare) /\ Proper(<< Must("readBack") >>, Bare)
    BY ProperParts
  <2> HIDE DEF q
  <2>2. Proper(writes \o << Must("readBack") >>, Bare)
    BY <1>1, ProperParts, ProperConcat
  <2>3. Proper(writes \o << Must("readBack") >> \o q, Bare)
    BY <2>1, <2>2, ProperConcat
  <2>4. Looks(writes \o << Must("readBack") >>)
    BY <1>1, <1>5, <1>6, <2>1, LooksConcat
  <2>5. Looks(writes \o << Must("readBack") >> \o q)
    BY <1>5, <2>1, <2>2, <2>4, LooksConcat
  <2> QED BY <2>3, <2>5 DEF q, writes, HandleUpdateInclude
<1>17. /\ Proper(HandleUpdateLocalDefinitions(a), Bare)
       /\ Proper(HandleUpdateLocalMacros(a), Bare)
       /\ Proper(HandleUpdateLocalTestClass(a), Bare)
       /\ Proper(HandleUpdateLocalTypes(a), Bare)
       /\ Proper(HandleUpdateBehaviorImplementation(a), Bare)
       /\ Proper(HandleUpdateFunctionInclude(a), Bare)
       /\ Proper(HandleUpdateCdsUnitTest(a), Bare)
       /\ Proper(HandleUpdateMessageClass(a), Bare)
       /\ Proper(HandleUpdateMessageClassMessage(a), Bare)
  BY ProperChain
  DEF HandleUpdateLocalDefinitions, HandleUpdateLocalMacros,
      HandleUpdateLocalTestClass, HandleUpdateLocalTypes,
      HandleUpdateBehaviorImplementation, HandleUpdateFunctionInclude,
      HandleUpdateCdsUnitTest, HandleUpdateMessageClass,
      HandleUpdateMessageClassMessage
<1>18. Proper(HandleUpdateServiceBinding(a), Bare)
  BY ProperParts DEF HandleUpdateServiceBinding
<1> QED BY <1>8, <1>9, <1>12, <1>13, <1>14, <1>15, <1>16, <1>17, <1>18

\* Whatever the tool, its handler writes once, and compares afterwards.
LEMMA ProperHandler ==
  ASSUME NEW a, a.tool \in Tools
  PROVE  /\ Proper(Handler(a), Bare)
         /\ a.tool \in VerifiesInline => Looks(Handler(a))
<1> USE ProperHandlers
<1>1. CASE a.tool \in {"UpdateClass", "UpdateDdl", "UpdateTable",
                      "UpdateStructure", "UpdateInterface", "UpdateProgram"}
  BY <1>1 DEF Handler, VerifiesInline
<1>2. CASE a.tool \in {"UpdateDomain", "UpdateDataElement",
                      "UpdateServiceDefinition", "UpdateFunctionModule",
                      "UpdateBehaviorDefinition", "UpdateMetadataExtension"}
  BY <1>2 DEF Handler, VerifiesInline
<1>3. CASE a.tool \in {"UpdateFunctionGroup", "UpdateInclude",
                      "UpdateBehaviorImplementation", "UpdateFunctionInclude",
                      "UpdateLocalDefinitions", "UpdateLocalMacros"}
  BY <1>3 DEF Handler, VerifiesInline
<1>4. CASE a.tool \in {"UpdateLocalTestClass", "UpdateLocalTypes",
                      "UpdateCdsUnitTest", "UpdateMessageClass",
                      "UpdateMessageClassMessage", "UpdateServiceBinding"}
  BY <1>4 DEF Handler, VerifiesInline
<1> QED BY <1>1, <1>2, <1>3, <1>4
        DEF Tools, SOURCE_WRITE_TOOLS, METADATA_WRITE_TOOLS

\* So does a program, with what the wrappers add; and the program of a
\* high-level tool whose source is compared compares it.
LEMMA ProperProgram ==
  ASSUME NEW a, a.tool \in Tools
  PROVE  /\ Proper(Program(a), Ops)
         /\ a.surface = "high" /\ a.tool \in SOURCE_WRITE_TOOLS
              => Uses(Program(a), Sourced) /\ Looks(Program(a))
         /\ a.surface # "high" => Uses(Program(a), Bare)
<1> DEFINE v == Only(a.tool \in SOURCE_WRITE_TOOLS \ VerifiesInline,
                     << May("verify") >>)
           h == Handler(a)
           w == h \o v
           f == Only(a.tool \in HasVersions, << May("findActive") >>)
           d == Only(a.tool \in METADATA_WRITE_TOOLS.description,
                     << May("verifyField") >>)
<1>1. /\ "verify" \in Ops /\ "verify" \in Harmless /\ "verify" \in Sourced
      /\ "verify" \in Compares
      /\ {"stamp", "verifyStamp", "findActive", "verifyField"}
           \subseteq Ops \cap Harmless \cap Quiet
      /\ Bare \subseteq Ops /\ Bare \subseteq Sourced /\ Quiet \subseteq Harmless
  BY DEF Ops, Harmless, Sourced, Bare, Writes, Compares, Quiet
<1>2. /\ Uses(<< >>, Harmless) /\ Uses(<< >>, Sourced)
      /\ Proper(<< >>, Ops)
  BY UsesNone, ProperQuiet
<1>3. /\ Uses(<< May("verify") >>, Harmless) /\ Uses(<< May("verify") >>, Sourced)
      /\ Proper(<< May("verify") >>, Ops) /\ Looks(<< May("verify") >>)
  BY <1>1, StepTypes, UsesOne, ProperOne
<1>4. /\ Uses(v, Harmless) /\ Uses(v, Sourced) /\ Proper(v, Ops)
  BY <1>2, <1>3 DEF Only
<1>5. ASSUME NEW op \in {"stamp", "verifyStamp", "findActive", "verifyField"}
      PROVE  /\ Uses(<< May(op) >>, Quiet) /\ Uses(<< May(op) >>, Harmless)
             /\ Proper(<< May(op) >>, Ops)
  <2>1. op \in Ops /\ op \in Quiet /\ op \in Harmless
    BY <1>1
  <2>2. /\ Uses(<< May(op) >>, Quiet) /\ Uses(<< May(op) >>, Harmless)
        /\ Uses(<< May(op) >>, Ops)
    BY <2>1, StepTypes, UsesOne
  <2> QED BY <2>2, ProperQuiet
<1>6. Proper(h, Bare) /\ (a.tool \in VerifiesInline => Looks(h))
  BY ProperHandler
<1>7. Uses(h, Bare) /\ Uses(h, Ops) /\ Uses(h, Sourced) /\ Proper(h, Ops)
  <2>1. Uses(h, Bare)
    BY <1>6 DEF Proper
  <2>2. Uses(h, Ops) /\ Uses(h, Sourced)
    BY <1>1, <2>1, UsesMore
  <2> QED BY <1>6, <2>1, <2>2 DEF Proper
<1>8. /\ Uses(f, Harmless) /\ Proper(f, Ops)
      /\ Uses(d, Harmless) /\ Proper(d, Ops)
  BY <1>2, <1>5 DEF Only
<1>9. a.tool \in SOURCE_WRITE_TOOLS \ VerifiesInline => v = << May("verify") >>
  BY DEF Only
<1> HIDE DEF v, f, d, h
<1>10. Proper(w, Ops) /\ Uses(w, Sourced)
  BY <1>4, <1>7, ProperConcat, UsesConcat
<1>11. a.tool \in SOURCE_WRITE_TOOLS => Looks(w)
  <2>1. h \in Seq(Step) /\ v \in Seq(Step)
    BY <1>4, <1>7 DEF Uses
  <2> QED BY <1>3, <1>6, <1>9, <2>1, LooksConcat
<1>12. WithWriteVerification(a, Handler(a)) = w
  BY DEF WithWriteVerification, v, h
<1> HIDE DEF w
<1>13. CASE a.surface = "high" /\ a.tool \in METADATA_WRITE_TOOLS.changedAt
  <2>1. Program(a) = << May("stamp") >> \o (w \o << May("verifyStamp") >>)
    BY <1>12, <1>13 DEF Program, WithMetadataVerification
  <2>2. Proper(w \o << May("verifyStamp") >>, Ops)
    BY <1>5, <1>10, ProperConcat
  <2>3. Proper(<< May("stamp") >> \o (w \o << May("verifyStamp") >>), Ops)
    BY <1>5, <2>2, ProperConcat
  <2>4. a.tool \notin SOURCE_WRITE_TOOLS
    BY <1>13 DEF SOURCE_WRITE_TOOLS, METADATA_WRITE_TOOLS
  <2> QED BY <1>13, <2>1, <2>3, <2>4
<1>14. CASE a.surface = "high" /\ a.tool \notin METADATA_WRITE_TOOLS.changedAt
  <2>1. Program(a) = w \o f \o d
    BY <1>12, <1>14 DEF Program, WithMetadataVerification, f, d
  <2>2. Proper(w \o f, Ops)
    BY <1>8, <1>10, ProperConcat
  <2>3. Proper(w \o f \o d, Ops)
    BY <1>8, <2>2, ProperConcat
  <2>4. ASSUME a.tool \in SOURCE_WRITE_TOOLS
        PROVE  w \o f \o d = w
    <3>1. a.tool \notin HasVersions /\ a.tool \notin METADATA_WRITE_TOOLS.description
      BY <2>4 DEF SOURCE_WRITE_TOOLS, HasVersions, METADATA_WRITE_TOOLS
    <3>2. f = << >> /\ d = << >>
      BY <3>1 DEF f, d, Only
    <3>3. w \in Seq(Step)
      BY <1>10 DEF Uses
    <3> QED BY <3>2, <3>3, ConcatEmptySeq
  <2> QED BY <1>10, <1>11, <1>14, <2>1, <2>3, <2>4
<1>15. CASE a.surface # "high"
  BY <1>7, <1>15 DEF Program, h
<1> QED BY <1>13, <1>14, <1>15

=============================================================================
