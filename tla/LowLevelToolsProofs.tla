------------------------- MODULE LowLevelToolsProofs -------------------------
(***************************************************************************)
(* Theorems about LowLevelTools, for every set of callers, sessions and    *)
(* requests, and for both kinds of system.                                 *)
(***************************************************************************)
EXTENDS LowLevelTools, SequenceTheorems, TLAPS

-----------------------------------------------------------------------------
(* The handlers.                                                           *)

Tells == {"tellGiven", "tellActual", "tellFresh", "tellHandle"}

\* What the handler of an operation does once the session is restored.
Bodies(operation) ==
  CASE operation = "lock" -> {<< Must("lock"), Must(tell) >> : tell \in Tells}
    [] operation = "unlock" -> {<< Must("unlock") >>}
    [] operation = "update" -> {<< Must("put") >>}
    [] operation = "create" ->
         {<< Must("create") >>, << OrLook("create") >>,
          << Must("create"), May("ask") >>, << Must("ask") >>}
    [] operation = "delete" -> {<< Must("delete") >>}
    [] operation = "activate" -> {<< Must("activate") >>}
    [] operation \in {"validate", "check", "run", "status", "result",
                         "list", "view"} ->
         {<< Must("ask") >>, << OrVerdict("ask") >>}

\* The operations that depend on the session of the lock, of a caller that
\* passes one.
NeedsSession(a, operation) ==
  /\ operation \in {"lock", "update", "unlock"}
  /\ a.session /\ a.state /\ Kind(a.type) # "CLASS"

\* Is p what the handler of an operation may do?
Fits(a, operation, p) ==
  \/ p = << Must("refuse") >>
  \/ p = << Must("restore") >> \o << Must("refuse") >>
  \/ \E b \in Bodies(operation) : p = << Must("restore") >> \o b
  \/ ~ NeedsSession(a, operation) /\ p \in Bodies(operation)

\* Bodies are programs.
LEMMA BodiesAreSteps ==
  ASSUME NEW operation \in Operations, NEW b \in Bodies(operation)
  PROVE  b \in Seq(Step)
<1>1. \/ \E op \in {"put", "unlock", "create", "ask", "delete", "activate"} :
           b \in {<< Must(op) >>, << OrLook(op) >>, << OrVerdict(op) >>}
      \/ b = << Must("create"), May("ask") >>
      \/ \E tell \in Tells : b = << Must("lock"), Must(tell) >>
  BY DEF Bodies, Operations
<1>2. \A op \in Ops : {Must(op), May(op), OrLook(op), OrVerdict(op)} \subseteq Step
  BY DEF Step, Policies, Must, May, OrLook, OrVerdict
<1>3. /\ \A x \in Step : << x >> \in Seq(Step)
      /\ \A x, y \in Step : << x, y >> \in Seq(Step)
  OBVIOUS
<1>4. /\ Tells \cup {"put", "unlock", "create", "ask", "delete", "activate"}
            \subseteq Ops
      /\ {"create", "ask", "lock"} \subseteq Ops
  BY DEF Ops, Tells
<1> QED BY <1>1, <1>2, <1>3, <1>4

\* The notation of the handlers.
LEMMA RestoredFits ==
  ASSUME NEW a \in Arguments, NEW operation \in Operations,
         NEW b \in Bodies(operation)
  PROVE  Fits(a, operation, Restored(a, b))
<1>1. b \in Seq(Step)
  BY BodiesAreSteps
<1>2. a.session \in BOOLEAN /\ a.state \in BOOLEAN
  BY DEF Arguments
<1>3. CASE a.session /\ a.state
  BY <1>3 DEF Restored, Only, Fits
<1>4. CASE ~ (a.session /\ a.state)
  <2>1. << >> \o b = b
    BY <1>1
  <2> QED BY <1>4, <2>1 DEF Restored, Only, Fits, NeedsSession
<1> QED BY <1>2, <1>3, <1>4

\* A refusal fits, too.
LEMMA RefusalFits ==
  \A a, operation : Fits(a, operation, << Must("refuse") >>)
BY DEF Fits

\* And so does what depends on a condition.
LEMMA GivenFits ==
  ASSUME NEW a, NEW operation, NEW condition \in BOOLEAN, NEW p,
         condition => Fits(a, operation, p)
  PROVE  Fits(a, operation, Given(condition, p))
BY DEF Given, Fits

\* Bodies that need no session.
LEMMA BareFits ==
  ASSUME NEW a, NEW operation, NEW b \in Bodies(operation),
         ~ NeedsSession(a, operation)
  PROVE  Fits(a, operation, b)
BY DEF Fits

\* Bodies of the handlers, by operation.
LEMMA BodyFacts ==
  /\ \A tell \in Tells : << Must("lock"), Must(tell) >> \in Bodies("lock")
  /\ << Must("unlock") >> \in Bodies("unlock")
  /\ << Must("put") >> \in Bodies("update")
  /\ << Must("delete") >> \in Bodies("delete")
  /\ << Must("activate") >> \in Bodies("activate")
  /\ {<< Must("create") >>, << OrLook("create") >>, << Must("ask") >>,
      << Must("create"), May("ask") >>} \subseteq Bodies("create")
  /\ \A operation \in {"validate", "check", "run", "status", "result",
                         "list", "view"} :
       {<< Must("ask") >>, << OrVerdict("ask") >>} \subseteq Bodies(operation)
BY DEF Bodies

\* The tools for packages do what their operations may do.
LEMMA PackageFits ==
  ASSUME NEW a \in Arguments, a.type = "PACKAGE",
         NEW operation \in DOMAIN PackageTools(a)
  PROVE  Fits(a, operation, PackageTools(a)[operation])
<1>1. /\ Fits(a, "create", HandleCreatePackage(a))
      /\ Fits(a, "validate", HandleValidatePackage(a))
      /\ Fits(a, "lock", HandleLockPackage(a))
      /\ Fits(a, "update", HandleUpdatePackage(a))
      /\ Fits(a, "check", HandleCheckPackage(a))
      /\ Fits(a, "unlock", HandleUnlockPackage(a))
      /\ Fits(a, "delete", HandleDeletePackage(a))
  BY RestoredFits, GivenFits, BareFits, BodyFacts
     DEF HandleCreatePackage, HandleValidatePackage, HandleLockPackage,
         HandleUpdatePackage, HandleCheckPackage, HandleUnlockPackage,
         HandleDeletePackage, Arguments, Operations, Tells, NeedsSession,
         Kind
<1> QED BY <1>1 DEF PackageTools

\* The tools for domains do what their operations may do.
LEMMA DomainFits ==
  ASSUME NEW a \in Arguments, a.type = "DOMAIN",
         NEW operation \in DOMAIN DomainTools(a)
  PROVE  Fits(a, operation, DomainTools(a)[operation])
<1>1. /\ Fits(a, "create", HandleCreateDomain(a))
      /\ Fits(a, "validate", HandleValidateDomain(a))
      /\ Fits(a, "lock", HandleLockDomain(a))
      /\ Fits(a, "update", HandleUpdateDomain(a))
      /\ Fits(a, "check", HandleCheckDomain(a))
      /\ Fits(a, "unlock", HandleUnlockDomain(a))
      /\ Fits(a, "activate", HandleActivateDomain(a))
      /\ Fits(a, "delete", HandleDeleteDomain(a))
  BY RestoredFits, GivenFits, BareFits, BodyFacts
     DEF HandleCreateDomain, HandleValidateDomain, HandleLockDomain,
         HandleUpdateDomain, HandleCheckDomain, HandleUnlockDomain,
         HandleActivateDomain, HandleDeleteDomain, Arguments, Operations,
         Tells, NeedsSession, Kind
<1> QED BY <1>1 DEF DomainTools

\* The tools for data elements do what their operations may do.
LEMMA DataElementFits ==
  ASSUME NEW a \in Arguments, a.type = "DATA_ELEMENT",
         NEW operation \in DOMAIN DataElementTools(a)
  PROVE  Fits(a, operation, DataElementTools(a)[operation])
<1>1. /\ Fits(a, "create", HandleCreateDataElement(a))
      /\ Fits(a, "validate", HandleValidateDataElement(a))
      /\ Fits(a, "lock", HandleLockDataElement(a))
      /\ Fits(a, "update", HandleUpdateDataElement(a))
      /\ Fits(a, "check", HandleCheckDataElement(a))
      /\ Fits(a, "unlock", HandleUnlockDataElement(a))
      /\ Fits(a, "activate", HandleActivateDataElement(a))
      /\ Fits(a, "delete", HandleDeleteDataElement(a))
  BY RestoredFits, GivenFits, BareFits, BodyFacts
     DEF HandleCreateDataElement, HandleValidateDataElement,
         HandleLockDataElement, HandleUpdateDataElement,
         HandleCheckDataElement, HandleUnlockDataElement,
         HandleActivateDataElement, HandleDeleteDataElement, Arguments,
         Operations, Tells, NeedsSession, Kind
<1> QED BY <1>1 DEF DataElementTools

\* The tools for transports do what their operations may do.
LEMMA TransportFits ==
  ASSUME NEW a \in Arguments, a.type = "TRANSPORT",
         NEW operation \in DOMAIN TransportTools(a)
  PROVE  Fits(a, operation, TransportTools(a)[operation])
<1>1. /\ Fits(a, "create", HandleCreateTransport(a))
  BY RestoredFits, GivenFits, BareFits, BodyFacts
     DEF HandleCreateTransport, Arguments, Operations, Tells,
         NeedsSession, Kind
<1> QED BY <1>1 DEF TransportTools

\* The tools for tables do what their operations may do.
LEMMA TableFits ==
  ASSUME NEW a \in Arguments, a.type = "TABLE",
         NEW operation \in DOMAIN TableTools(a)
  PROVE  Fits(a, operation, TableTools(a)[operation])
<1>1. /\ Fits(a, "create", HandleCreateTable(a))
      /\ Fits(a, "validate", HandleValidateTable(a))
      /\ Fits(a, "lock", HandleLockTable(a))
      /\ Fits(a, "update", HandleUpdateTable(a))
      /\ Fits(a, "check", HandleCheckTable(a))
      /\ Fits(a, "activate", HandleActivateTable(a))
      /\ Fits(a, "delete", HandleDeleteTable(a))
  BY RestoredFits, GivenFits, BareFits, BodyFacts
     DEF HandleCreateTable, HandleValidateTable, HandleLockTable,
         HandleUpdateTable, HandleCheckTable, HandleActivateTable,
         HandleDeleteTable, Arguments, Operations, Tells, NeedsSession,
         Kind
<1>2. Fits(a, "unlock", HandleUnlockTable(a))
  <2>1. << Must("unlock") >> \in Bodies("unlock")
    BY BodyFacts
  <2>2. << Must("unlock") >> \in Seq(Step) /\ << Must("refuse") >> \in Seq(Step)
    BY DEF Must, Step, Ops, Policies
  <2>3. CASE a.state
    BY <2>1, <2>3 DEF HandleUnlockTable, Only, Given, Fits
  <2>4. CASE ~ a.state
    <3>1. /\ << >> \o << Must("unlock") >> = << Must("unlock") >>
          /\ << >> \o << Must("refuse") >> = << Must("refuse") >>
      BY <2>2
    <3> QED
      BY <2>1, <2>4, <3>1 DEF HandleUnlockTable, Only, Given, Fits, NeedsSession
  <2> QED BY <2>3, <2>4
<1> QED BY <1>1, <1>2 DEF TableTools

\* The tools for structures do what their operations may do.
LEMMA StructureFits ==
  ASSUME NEW a \in Arguments, a.type = "STRUCTURE",
         NEW operation \in DOMAIN StructureTools(a)
  PROVE  Fits(a, operation, StructureTools(a)[operation])
<1>1. /\ Fits(a, "create", HandleCreateStructure(a))
      /\ Fits(a, "validate", HandleValidateStructure(a))
      /\ Fits(a, "lock", HandleLockStructure(a))
      /\ Fits(a, "update", HandleUpdateStructure(a))
      /\ Fits(a, "check", HandleCheckStructure(a))
      /\ Fits(a, "unlock", HandleUnlockStructure(a))
      /\ Fits(a, "activate", HandleActivateStructure(a))
      /\ Fits(a, "delete", HandleDeleteStructure(a))
  BY RestoredFits, GivenFits, BareFits, BodyFacts
     DEF HandleCreateStructure, HandleValidateStructure,
         HandleLockStructure, HandleUpdateStructure,
         HandleCheckStructure, HandleUnlockStructure,
         HandleActivateStructure, HandleDeleteStructure, Arguments,
         Operations, Tells, NeedsSession, Kind
<1> QED BY <1>1 DEF StructureTools

\* The tools for DDL sources do what their operations may do.
LEMMA DdlFits ==
  ASSUME NEW a \in Arguments, a.type = "DDL",
         NEW operation \in DOMAIN DdlTools(a)
  PROVE  Fits(a, operation, DdlTools(a)[operation])
<1>1. /\ Fits(a, "create", HandleCreateDdl(a))
      /\ Fits(a, "validate", HandleValidateDdl(a))
      /\ Fits(a, "lock", HandleLockDdl(a))
      /\ Fits(a, "update", HandleUpdateDdl(a))
      /\ Fits(a, "check", HandleCheckDdl(a))
      /\ Fits(a, "unlock", HandleUnlockDdl(a))
      /\ Fits(a, "activate", HandleActivateDdl(a))
      /\ Fits(a, "delete", HandleDeleteDdl(a))
  BY RestoredFits, GivenFits, BareFits, BodyFacts
     DEF HandleCreateDdl, HandleValidateDdl, HandleLockDdl,
         HandleUpdateDdl, HandleCheckDdl, HandleUnlockDdl,
         HandleActivateDdl, HandleDeleteDdl, Arguments, Operations,
         Tells, NeedsSession, Kind
<1> QED BY <1>1 DEF DdlTools

\* The tools for classes do what their operations may do.
LEMMA ClassFits ==
  ASSUME NEW a \in Arguments, a.type = "CLASS",
         NEW operation \in DOMAIN ClassTools(a)
  PROVE  Fits(a, operation, ClassTools(a)[operation])
<1>1. /\ Fits(a, "create", HandleCreateClass(a))
      /\ Fits(a, "validate", HandleValidateClass(a))
      /\ Fits(a, "lock", HandleLockClass(a))
      /\ Fits(a, "update", HandleUpdateClass(a))
      /\ Fits(a, "check", HandleCheckClass(a))
      /\ Fits(a, "unlock", HandleUnlockClass(a))
      /\ Fits(a, "activate", HandleActivateClass(a))
      /\ Fits(a, "delete", HandleDeleteClass(a))
  BY RestoredFits, GivenFits, BareFits, BodyFacts
     DEF HandleCreateClass, HandleValidateClass, HandleLockClass,
         HandleUpdateClass, HandleCheckClass, HandleUnlockClass,
         HandleActivateClass, HandleDeleteClass, Arguments, Operations,
         Tells, NeedsSession, Kind
<1> QED BY <1>1 DEF ClassTools

\* The tools for test classes do what their operations may do.
LEMMA ClassTestClassesFits ==
  ASSUME NEW a \in Arguments, a.type = "TEST_CLASSES",
         NEW operation \in DOMAIN ClassTestClassesTools(a)
  PROVE  Fits(a, operation, ClassTestClassesTools(a)[operation])
<1>1. /\ Fits(a, "lock", HandleLockClassTestClasses(a))
      /\ Fits(a, "update", HandleUpdateClassTestClasses(a))
      /\ Fits(a, "unlock", HandleUnlockClassTestClasses(a))
      /\ Fits(a, "activate", HandleActivateClassTestClasses(a))
      /\ Fits(a, "run", HandleRunClassUnitTests(a))
      /\ Fits(a, "status", HandleGetClassUnitTestStatus(a))
      /\ Fits(a, "result", HandleGetClassUnitTestResult(a))
  BY RestoredFits, GivenFits, BareFits, BodyFacts
     DEF HandleLockClassTestClasses, HandleUpdateClassTestClasses,
         HandleUnlockClassTestClasses, HandleActivateClassTestClasses,
         HandleRunClassUnitTests, HandleGetClassUnitTestStatus,
         HandleGetClassUnitTestResult, Arguments, Operations, Tells,
         NeedsSession, Kind
<1> QED BY <1>1 DEF ClassTestClassesTools

\* The tools for programs do what their operations may do.
LEMMA ProgramFits ==
  ASSUME NEW a \in Arguments, a.type = "PROGRAM",
         NEW operation \in DOMAIN ProgramTools(a)
  PROVE  Fits(a, operation, ProgramTools(a)[operation])
<1>1. /\ Fits(a, "create", HandleCreateProgram(a))
      /\ Fits(a, "validate", HandleValidateProgram(a))
      /\ Fits(a, "lock", HandleLockProgram(a))
      /\ Fits(a, "update", HandleUpdateProgram(a))
      /\ Fits(a, "check", HandleCheckProgram(a))
      /\ Fits(a, "unlock", HandleUnlockProgram(a))
      /\ Fits(a, "activate", HandleActivateProgram(a))
      /\ Fits(a, "delete", HandleDeleteProgram(a))
  BY RestoredFits, GivenFits, BareFits, BodyFacts
     DEF HandleCreateProgram, HandleValidateProgram, HandleLockProgram,
         HandleUpdateProgram, HandleCheckProgram, HandleUnlockProgram,
         HandleActivateProgram, HandleDeleteProgram, Arguments,
         Operations, Tells, NeedsSession, Kind
<1> QED BY <1>1 DEF ProgramTools

\* The tools for interfaces do what their operations may do.
LEMMA InterfaceFits ==
  ASSUME NEW a \in Arguments, a.type = "INTERFACE",
         NEW operation \in DOMAIN InterfaceTools(a)
  PROVE  Fits(a, operation, InterfaceTools(a)[operation])
<1>1. /\ Fits(a, "create", HandleCreateInterface(a))
      /\ Fits(a, "validate", HandleValidateInterface(a))
      /\ Fits(a, "lock", HandleLockInterface(a))
      /\ Fits(a, "update", HandleUpdateInterface(a))
      /\ Fits(a, "check", HandleCheckInterface(a))
      /\ Fits(a, "unlock", HandleUnlockInterface(a))
      /\ Fits(a, "activate", HandleActivateInterface(a))
      /\ Fits(a, "delete", HandleDeleteInterface(a))
  BY RestoredFits, GivenFits, BareFits, BodyFacts
     DEF HandleCreateInterface, HandleValidateInterface,
         HandleLockInterface, HandleUpdateInterface,
         HandleCheckInterface, HandleUnlockInterface,
         HandleActivateInterface, HandleDeleteInterface, Arguments,
         Operations, Tells, NeedsSession, Kind
<1> QED BY <1>1 DEF InterfaceTools

\* The tools for function groups do what their operations may do.
LEMMA FunctionGroupFits ==
  ASSUME NEW a \in Arguments, a.type = "FUNCTION_GROUP",
         NEW operation \in DOMAIN FunctionGroupTools(a)
  PROVE  Fits(a, operation, FunctionGroupTools(a)[operation])
<1>1. /\ Fits(a, "create", HandleCreateFunctionGroup(a))
      /\ Fits(a, "validate", HandleValidateFunctionGroup(a))
      /\ Fits(a, "lock", HandleLockFunctionGroup(a))
      /\ Fits(a, "check", HandleCheckFunctionGroup(a))
      /\ Fits(a, "unlock", HandleUnlockFunctionGroup(a))
      /\ Fits(a, "activate", HandleActivateFunctionGroup(a))
      /\ Fits(a, "delete", HandleDeleteFunctionGroup(a))
  BY RestoredFits, GivenFits, BareFits, BodyFacts
     DEF HandleCreateFunctionGroup, HandleValidateFunctionGroup,
         HandleLockFunctionGroup, HandleCheckFunctionGroup,
         HandleUnlockFunctionGroup, HandleActivateFunctionGroup,
         HandleDeleteFunctionGroup, Arguments, Operations, Tells,
         NeedsSession, Kind
<1> QED BY <1>1 DEF FunctionGroupTools

\* The tools for function modules do what their operations may do.
LEMMA FunctionModuleFits ==
  ASSUME NEW a \in Arguments, a.type = "FUNCTION_MODULE",
         NEW operation \in DOMAIN FunctionModuleTools(a)
  PROVE  Fits(a, operation, FunctionModuleTools(a)[operation])
<1>1. /\ Fits(a, "create", HandleCreateFunctionModule(a))
      /\ Fits(a, "validate", HandleValidateFunctionModule(a))
      /\ Fits(a, "lock", HandleLockFunctionModule(a))
      /\ Fits(a, "update", HandleUpdateFunctionModule(a))
      /\ Fits(a, "check", HandleCheckFunctionModule(a))
      /\ Fits(a, "unlock", HandleUnlockFunctionModule(a))
      /\ Fits(a, "activate", HandleActivateFunctionModule(a))
      /\ Fits(a, "delete", HandleDeleteFunctionModule(a))
  BY RestoredFits, GivenFits, BareFits, BodyFacts
     DEF HandleCreateFunctionModule, HandleValidateFunctionModule,
         HandleLockFunctionModule, HandleUpdateFunctionModule,
         HandleCheckFunctionModule, HandleUnlockFunctionModule,
         HandleActivateFunctionModule, HandleDeleteFunctionModule,
         Arguments, Operations, Tells, NeedsSession, Kind
<1> QED BY <1>1 DEF FunctionModuleTools

\* The tools for behavior definitions do what their operations may do.
LEMMA BehaviorDefinitionFits ==
  ASSUME NEW a \in Arguments, a.type = "BEHAVIOR_DEFINITION",
         NEW operation \in DOMAIN BehaviorDefinitionTools(a)
  PROVE  Fits(a, operation, BehaviorDefinitionTools(a)[operation])
<1>1. /\ Fits(a, "create", HandleCreateBehaviorDefinition(a))
      /\ Fits(a, "validate", HandleValidateBehaviorDefinition(a))
      /\ Fits(a, "lock", HandleLockBehaviorDefinition(a))
      /\ Fits(a, "update", HandleUpdateBehaviorDefinition(a))
      /\ Fits(a, "check", HandleCheckBehaviorDefinition(a))
      /\ Fits(a, "unlock", HandleUnlockBehaviorDefinition(a))
      /\ Fits(a, "activate", HandleActivateBehaviorDefinition(a))
      /\ Fits(a, "delete", HandleDeleteBehaviorDefinition(a))
  BY RestoredFits, GivenFits, BareFits, BodyFacts
     DEF HandleCreateBehaviorDefinition,
         HandleValidateBehaviorDefinition, HandleLockBehaviorDefinition,
         HandleUpdateBehaviorDefinition, HandleCheckBehaviorDefinition,
         HandleUnlockBehaviorDefinition,
         HandleActivateBehaviorDefinition,
         HandleDeleteBehaviorDefinition, Arguments, Operations, Tells,
         NeedsSession, Kind
<1> QED BY <1>1 DEF BehaviorDefinitionTools

\* The tools for behavior implementations do what their operations may do.
LEMMA BehaviorImplementationFits ==
  ASSUME NEW a \in Arguments, a.type = "BEHAVIOR_IMPLEMENTATION",
         NEW operation \in DOMAIN BehaviorImplementationTools(a)
  PROVE  Fits(a, operation, BehaviorImplementationTools(a)[operation])
<1>1. /\ Fits(a, "create", HandleCreateBehaviorImplementation(a))
      /\ Fits(a, "validate", HandleValidateBehaviorImplementation(a))
      /\ Fits(a, "lock", HandleLockBehaviorImplementation(a))
  BY RestoredFits, GivenFits, BareFits, BodyFacts
     DEF HandleCreateBehaviorImplementation,
         HandleValidateBehaviorImplementation,
         HandleLockBehaviorImplementation, Arguments, Operations, Tells,
         NeedsSession, Kind
<1> QED BY <1>1 DEF BehaviorImplementationTools

\* The tools for metadata extensions do what their operations may do.
LEMMA MetadataExtensionFits ==
  ASSUME NEW a \in Arguments, a.type = "METADATA_EXTENSION",
         NEW operation \in DOMAIN MetadataExtensionTools(a)
  PROVE  Fits(a, operation, MetadataExtensionTools(a)[operation])
<1>1. /\ Fits(a, "create", HandleCreateMetadataExtension(a))
      /\ Fits(a, "validate", HandleValidateMetadataExtension(a))
      /\ Fits(a, "lock", HandleLockMetadataExtension(a))
      /\ Fits(a, "update", HandleUpdateMetadataExtension(a))
      /\ Fits(a, "check", HandleCheckMetadataExtension(a))
      /\ Fits(a, "unlock", HandleUnlockMetadataExtension(a))
      /\ Fits(a, "activate", HandleActivateMetadataExtension(a))
      /\ Fits(a, "delete", HandleDeleteMetadataExtension(a))
  BY RestoredFits, GivenFits, BareFits, BodyFacts
     DEF HandleCreateMetadataExtension, HandleValidateMetadataExtension,
         HandleLockMetadataExtension, HandleUpdateMetadataExtension,
         HandleCheckMetadataExtension, HandleUnlockMetadataExtension,
         HandleActivateMetadataExtension, HandleDeleteMetadataExtension,
         Arguments, Operations, Tells, NeedsSession, Kind
<1> QED BY <1>1 DEF MetadataExtensionTools

\* The tools for service definitions do what their operations may do.
LEMMA ServiceDefinitionFits ==
  ASSUME NEW a \in Arguments, a.type = "SERVICE_DEFINITION",
         NEW operation \in DOMAIN ServiceDefinitionTools(a)
  PROVE  Fits(a, operation, ServiceDefinitionTools(a)[operation])
<1>1. /\ Fits(a, "activate", HandleActivateServiceDefinition(a))
  BY RestoredFits, GivenFits, BareFits, BodyFacts
     DEF HandleActivateServiceDefinition, Arguments, Operations, Tells,
         NeedsSession, Kind
<1> QED BY <1>1 DEF ServiceDefinitionTools

\* The tools for service bindings do what their operations may do.
LEMMA ServiceBindingFits ==
  ASSUME NEW a \in Arguments, a.type = "SERVICE_BINDING",
         NEW operation \in DOMAIN ServiceBindingTools(a)
  PROVE  Fits(a, operation, ServiceBindingTools(a)[operation])
<1>1. /\ Fits(a, "activate", HandleActivateServiceBinding(a))
  BY RestoredFits, GivenFits, BareFits, BodyFacts
     DEF HandleActivateServiceBinding, Arguments, Operations, Tells,
         NeedsSession, Kind
<1> QED BY <1>1 DEF ServiceBindingTools

\* The compact tools do what their operations may do.
LEMMA CompactFits ==
  ASSUME NEW a \in Arguments, NEW operation \in DOMAIN CompactTools(a)
  PROVE  Fits(a, operation, CompactTools(a)[operation])
<1>1. /\ Fits(a, "lock", HandleLockObject(a))
      /\ Fits(a, "unlock", HandleUnlockObject(a))
  BY RestoredFits, RefusalFits, BodyFacts
     DEF HandleLockObject, HandleUnlockObject, Given, Arguments, Operations, Tells
<1>2. /\ Fits(a, "check", HandleCheckObject(a))
      /\ Fits(a, "validate", HandleValidateObject(a))
  BY RestoredFits, RefusalFits, BodyFacts
     DEF HandleCheckObject, HandleValidateObject, Given, Operations
<1>3. /\ Fits(a, "activate", HandleHandlerActivate(a))
      /\ Fits(a, "validate", << Must("ask") >>)
  BY BareFits, BodyFacts
     DEF HandleHandlerActivate, HandleActivateObject, NeedsSession
<1>4. /\ Fits(a, "lock", HandleHandlerLock(a))
      /\ Fits(a, "unlock", HandleHandlerUnlock(a))
      /\ Fits(a, "check", HandleHandlerCheckRun(a))
      /\ Fits(a, "validate", HandleHandlerValidate(a))
  BY <1>1, <1>2, <1>3, RefusalFits
     DEF Given, HandleHandlerLock, HandleHandlerUnlock, HandleHandlerCheckRun,
         HandleHandlerValidate, HandleValidateServiceBinding
<1>5. ASSUME NEW op \in {"create", "run", "status", "result", "list", "view",
                         "validate"}
      PROVE  Fits(a, op, << Must("ask") >>)
  BY BareFits, BodyFacts DEF NeedsSession
<1>6. DOMAIN LifecycleTools(a) \subseteq
        {"lock", "unlock", "check", "validate", "activate"}
  BY DEF LifecycleTools
<1>7. CASE a.type = "UNIT_TEST"
  <2>1. CompactTools(a) = UnitTestTools(a)
    BY <1>7 DEF CompactTools
  <2> QED
    BY <2>1, <1>5, RefusalFits
       DEF UnitTestTools, HandleCreateUnitTest, HandleUpdateUnitTest,
           HandleDeleteUnitTest, HandleHandlerUnitTestRun, HandleRunUnitTest,
           HandleHandlerUnitTestStatus, HandleGetUnitTestStatus,
           HandleHandlerUnitTestResult, HandleGetUnitTestResult
<1>8. CASE a.type = "CDS_UNIT_TEST"
  <2>1. CompactTools(a) = CdsUnitTestTools(a)
    BY <1>8 DEF CompactTools
  <2> QED
    BY <2>1, <1>5
       DEF CdsUnitTestTools, HandleHandlerCdsUnitTestStatus,
           HandleGetCdsUnitTestStatus, HandleHandlerCdsUnitTestResult,
           HandleGetCdsUnitTestResult
<1>9. CASE a.type \in {"CLASS_PROFILE", "PROGRAM_PROFILE"}
  <2>1. CompactTools(a) = ProfileTools(a)
    BY <1>9 DEF CompactTools
  <2> QED
    BY <2>1, <1>5
       DEF ProfileTools, HandleHandlerProfileRun, HandleHandlerProfileList,
           HandleHandlerProfileView, HandleRuntimeRunClassWithProfiling,
           HandleRuntimeRunProgramWithProfiling,
           HandleRuntimeListProfilerTraceFiles,
           HandleRuntimeGetProfilerTraceData
<1>10. CASE a.type \in {"RUNTIME_DUMP", "BINDING_TYPE", "TRANSPORT"}
  <2>1. CompactTools(a) =
          CASE a.type = "RUNTIME_DUMP" -> DumpTools(a)
            [] a.type = "BINDING_TYPE" -> ServiceBindingTypeTools(a)
            [] a.type = "TRANSPORT" -> CompactTransportTools(a)
    BY <1>10 DEF CompactTools
  <2> QED
    BY <2>1, <1>5, <1>10
       DEF DumpTools, HandleHandlerDumpList, HandleHandlerDumpView,
           HandleRuntimeListFeeds, HandleRuntimeGetDumpById,
           ServiceBindingTypeTools, HandleHandlerServiceBindingListTypes,
           HandleListServiceBindingTypes, CompactTransportTools,
           HandleHandlerServiceBindingValidate, HandleValidateServiceBinding,
           HandleHandlerTransportCreate
<1>11. CASE a.type \notin RuntimeTypes \cup {"TRANSPORT"}
  <2>1. CompactTools(a) = LifecycleTools(a)
    BY <1>11 DEF CompactTools, RuntimeTypes
  <2> QED BY <2>1, <1>3, <1>4, <1>6 DEF LifecycleTools
<1> QED BY <1>7, <1>8, <1>9, <1>10, <1>11 DEF RuntimeTypes

\* Every tool takes and releases a lock only where its name says so; one that
\* is given a session restores it before.
LEMMA EveryProgramFits ==
  ASSUME NEW a \in Arguments, Possible(a)
  PROVE  Fits(a, a.operation, Program(a))
<1>1. CASE a.surface = "compact"
  BY <1>1, CompactFits DEF Possible, Program, Tools
<1>2. CASE a.surface # "compact"
  <2>1. a.type \in Types
    BY DEF Arguments
  <2>2. CASE a.type \in RuntimeTypes
    <3>1. Tools(a) = << >>
      BY <1>2, <2>2 DEF Tools, RuntimeTypes
    <3>2. DOMAIN << >> = {}
      OBVIOUS
    <3> QED BY <3>1, <3>2 DEF Possible
  <2>3. CASE a.type \notin RuntimeTypes
    BY <1>2, <2>1, <2>3,
       PackageFits, DomainFits, DataElementFits, TransportFits,
       TableFits, StructureFits, DdlFits, ClassFits,
       ClassTestClassesFits, ProgramFits, InterfaceFits,
       FunctionGroupFits, FunctionModuleFits, BehaviorDefinitionFits,
       BehaviorImplementationFits, MetadataExtensionFits,
       ServiceDefinitionFits, ServiceBindingFits
       DEF Possible, Program, Tools, Types, LowTypes, Lockable
  <2> QED BY <2>2, <2>3
<1> QED BY <1>1, <1>2

-----------------------------------------------------------------------------
(* The invariant.                                                          *)

Told1 == {<< Must(tell) >> : tell \in Tells}

Refusal == << Must("refuse") >>

\* What a handler may have left to do, the session restored.
Left(operation) ==
  Bodies(operation) \cup {Refusal, << >>}
    \cup (IF operation = "lock" THEN Told1 ELSE {})
    \cup (IF operation = "create" THEN {<< May("ask") >>} ELSE {})

\* What it may have left to do, the session still to be restored.
Unrestored(operation) ==
  {<< Must("restore") >> \o b : b \in Bodies(operation) \cup {Refusal}}

Fitting(c) ==
  /\ status[c] = "idle" => todo[c] = << >> /\ ~ failed[c]
  /\ status[c] = "waiting" =>
       todo[c] \in Left(args[c].operation) \cup Unrestored(args[c].operation)
  /\ failed[c] => todo[c] = << >>

WellFormed == \A c \in Callers : Fitting(c)

\* A lock tool is about to answer; an unlock tool is about to report success.
Telling(c) == status[c] = "waiting" /\ todo[c] \in Told1

Released(c) ==
  /\ status[c] = "waiting" /\ todo[c] = << >>
  /\ args[c].operation = "unlock" /\ ~ failed[c]

\* What HandlesMatchLocks becomes while a call is under way.
Matches(c) ==
  /\ Telling(c) => lock.owner = c
  /\ Released(c) => lock.owner # c
  /\ ~ Telling(c) /\ ~ Released(c) => (handle[c] <=> lock.owner = c)

HandlesKept == \A c \in Callers : c \notin unsure => Matches(c)

OneAtATime ==
  ~ overlap =>
    \A c, d \in Callers :
      status[c] = "waiting" /\ status[d] = "waiting" => c = d

IInv == TypeOK /\ WellFormed /\ HandlesKept /\ OneAtATime /\ LocksInOwnSession

-----------------------------------------------------------------------------
(* What the next request of a handler says of the rest.                    *)

\* Requests that neither lock nor unlock.
Plain ==
  {Must("put"), Must("create"), OrLook("create"), Must("ask"),
   OrVerdict("ask"), Must("delete"), Must("activate"), May("ask")}

\* What a handler has left, one by one.
LEMMA LeftCases ==
  ASSUME NEW operation \in Operations, NEW t \in Left(operation)
  PROVE  \/ t = << >>
         \/ t = Refusal
         \/ /\ operation = "lock"
            /\ \E tell \in Tells :
                 t = << Must(tell) >> \/ t = << Must("lock"), Must(tell) >>
         \/ operation = "unlock" /\ t = << Must("unlock") >>
         \/ /\ operation \notin {"lock", "unlock"}
            /\ \E x \in Plain : t = << x >>
         \/ operation = "create" /\ t = << Must("create"), May("ask") >>
<1>1. CASE t \in {<< >>, Refusal}
  BY <1>1
<1>2. CASE operation = "lock"
  BY <1>1, <1>2 DEF Left, Told1, Bodies
<1>3. CASE operation = "create" /\ t = << May("ask") >>
  BY <1>3 DEF Plain
<1>4. CASE operation # "lock" /\ t \in Bodies(operation)
  BY <1>4 DEF Bodies, Plain, Operations
<1> QED BY <1>1, <1>2, <1>3, <1>4 DEF Left

\* The steps of the notation are steps.
LEMMA PlainAreSteps ==
  /\ Plain \subseteq Step
  /\ \A tell \in Tells : Must(tell) \in Step
  /\ {Must("lock"), Must("unlock"), Must("refuse"), Must("restore")}
       \subseteq Step
<1>1. \A op \in Ops : {Must(op), May(op), OrLook(op), OrVerdict(op)} \subseteq Step
  BY DEF Step, Policies, Must, May, OrLook, OrVerdict
<1>2. /\ Tells \subseteq Ops
      /\ {"put", "create", "ask", "delete", "activate", "lock", "unlock",
          "refuse", "restore"} \subseteq Ops
  BY DEF Ops, Tells
<1> QED BY <1>1, <1>2 DEF Plain

\* What is left is a program.
LEMMA LeftAreSteps ==
  ASSUME NEW operation \in Operations, NEW t \in Left(operation)
  PROVE  t \in Seq(Step)
<1>1. /\ \A x \in Step : << x >> \in Seq(Step)
      /\ \A x, y \in Step : << x, y >> \in Seq(Step)
      /\ << >> \in Seq(Step)
  OBVIOUS
<1>2. CASE t = << >> \/ t = Refusal
  BY <1>1, <1>2, PlainAreSteps DEF Refusal
<1>3. CASE \E tell \in Tells :
             t = << Must(tell) >> \/ t = << Must("lock"), Must(tell) >>
  BY <1>1, <1>3, PlainAreSteps
<1>4. CASE \E x \in Plain \cup {Must("unlock")} : t = << x >>
  BY <1>1, <1>4, PlainAreSteps
<1>5. CASE t = << Must("create"), May("ask") >>
  <2>1. Must("create") \in Step /\ May("ask") \in Step
    BY PlainAreSteps DEF Plain
  <2> QED BY <1>1, <1>5, <2>1
<1> QED BY <1>2, <1>3, <1>4, <1>5, LeftCases

\* So is what is left with the session still to be restored.
LEMMA UnrestoredAreSteps ==
  ASSUME NEW operation \in Operations, NEW t \in Unrestored(operation)
  PROVE  t \in Seq(Step)
<1>1. PICK b \in Bodies(operation) \cup {Refusal} :
        t = << Must("restore") >> \o b
  BY DEF Unrestored
<1>2. b \in Seq(Step) /\ << Must("restore") >> \in Seq(Step)
  BY LeftAreSteps, PlainAreSteps DEF Left
<1> QED BY <1>1, <1>2

\* A restoring comes first, and the rest after it.
LEMMA RestoreFirst ==
  ASSUME NEW b \in Seq(Step)
  PROVE  /\ << Must("restore") >> \o b # << >>
         /\ Head(<< Must("restore") >> \o b) = Must("restore")
         /\ Tail(<< Must("restore") >> \o b) = b
<1>1. \A x \in Step : /\ << x >> \o b # << >>
                     /\ Head(<< x >> \o b) = x
                     /\ Tail(<< x >> \o b) = b
  OBVIOUS
<1> QED BY <1>1, PlainAreSteps

\* What a step of the notation does.
LEMMA StepNames ==
  /\ \A op : /\ Must(op).do = op /\ Must(op).onError = "abort"
             /\ May(op).do = op
  /\ \A x \in Plain : x.do \in {"ask", "activate", "put", "create", "delete"}
BY DEF Must, May, OrLook, OrVerdict, Plain

\* The first of what is left, and what is left after it.
LEMMA LeftHeads ==
  /\ \A x : << x >> # << >> /\ Head(<< x >>) = x /\ Tail(<< x >>) = << >>
  /\ \A x, y : /\ << x, y >> # << >> /\ Head(<< x, y >>) = x
               /\ Tail(<< x, y >>) = << y >>
OBVIOUS

\* No body is empty, and none begins by answering.
LEMMA BodyHeads ==
  ASSUME NEW operation \in Operations,
         NEW b \in Bodies(operation) \cup {Refusal}
  PROVE  b # << >> /\ b \notin Told1
<1>1. \A tell \in Tells : << Must(tell) >> # << Must("lock"), Must(tell) >>
  OBVIOUS
<1>2. Head(b).do \notin Tells /\ b # << >>
  <2>1. CASE operation = "lock" /\ b # Refusal
    BY <2>1, StepNames, LeftHeads DEF Bodies, Tells
  <2>2. CASE operation = "unlock" \/ b = Refusal
    BY <2>2, StepNames, LeftHeads DEF Bodies, Tells, Refusal
  <2>3. CASE operation \notin {"lock", "unlock"} /\ b # Refusal
    <3>1. \/ \E x \in Plain : b = << x >>
          \/ b = << Must("create"), May("ask") >>
      BY <2>3 DEF Bodies, Plain, Operations
    <3> QED BY <3>1, StepNames, LeftHeads DEF Tells
  <2> QED BY <2>1, <2>2, <2>3
<1> QED BY <1>2, StepNames, LeftHeads DEF Told1

\* A call that does not await a restoring has none ahead.
LEMMA StageLeft ==
  ASSUME TypeOK, WellFormed, NEW c \in Callers, NEW ops, Awaits(c, ops),
         "restore" \notin ops
  PROVE  /\ args[c].operation \in Operations /\ ~ failed[c]
         /\ todo[c] \in Left(args[c].operation)
<1>1. args[c].operation \in Operations
  BY DEF TypeOK, Arguments
<1>2. todo[c] \notin Unrestored(args[c].operation)
  <2>1. ASSUME NEW b \in Bodies(args[c].operation) \cup {Refusal},
               todo[c] = << Must("restore") >> \o b
        PROVE  FALSE
    <3>1. b \in Seq(Step)
      BY <1>1, LeftAreSteps DEF Left
    <3> QED BY <2>1, <3>1, RestoreFirst, StepNames DEF Awaits
  <2> QED BY <2>1 DEF Unrestored
<1> QED BY <1>1, <1>2 DEF WellFormed, Fitting, Awaits

\* After a restoring comes the body of the handler, or a refusal.
LEMMA StageRestore ==
  ASSUME TypeOK, WellFormed, NEW c \in Callers, Awaits(c, {"restore"})
  PROVE  /\ args[c].operation \in Operations /\ ~ failed[c]
         /\ Tail(todo[c]) \in Bodies(args[c].operation) \cup {Refusal}
<1>1. args[c].operation \in Operations
  BY DEF TypeOK, Arguments
<1>2. ~ failed[c] /\ status[c] = "waiting"
  BY DEF WellFormed, Fitting, Awaits
<1>3. todo[c] \notin Left(args[c].operation)
  BY <1>1, LeftCases, LeftHeads, StepNames DEF Awaits, Tells, Refusal
<1>4. PICK b \in Bodies(args[c].operation) \cup {Refusal} :
        todo[c] = << Must("restore") >> \o b
  BY <1>2, <1>3 DEF WellFormed, Fitting, Unrestored
<1>5. b \in Seq(Step)
  BY <1>1, LeftAreSteps DEF Left
<1> QED BY <1>1, <1>2, <1>4, <1>5, RestoreFirst

\* First request of what is left, and the rest.
LEMMA LeftNext ==
  ASSUME NEW operation \in Operations, NEW t \in Left(operation) \ {<< >>}
  PROVE  \/ Head(t).do = "refuse"
         \/ Head(t).do \in Tells /\ t \in Told1
         \/ /\ operation = "lock" /\ Head(t) = Must("lock")
            /\ Head(t).do = "lock" /\ Tail(t) \in Told1
         \/ /\ operation = "unlock" /\ t = << Must("unlock") >>
            /\ Head(t).do = "unlock"
         \/ /\ operation \notin {"lock", "unlock"}
            /\ Head(t).do \in {"ask", "activate", "put", "create", "delete"}
            /\ \/ Tail(t) = << >>
               \/ operation = "create" /\ Tail(t) = << May("ask") >>
<1>1. CASE t = Refusal
  BY <1>1, LeftHeads, StepNames DEF Refusal
<1>2. CASE operation = "lock" /\ \E tell \in Tells : t = << Must(tell) >>
  BY <1>2, LeftHeads, StepNames DEF Told1
<1>3. CASE operation = "lock"
           /\ \E tell \in Tells : t = << Must("lock"), Must(tell) >>
  BY <1>3, LeftHeads, StepNames DEF Told1
<1>4. CASE operation = "unlock" /\ t = << Must("unlock") >>
  BY <1>4, LeftHeads, StepNames
<1>5. CASE operation \notin {"lock", "unlock"} /\ \E x \in Plain : t = << x >>
  BY <1>5, LeftHeads, StepNames
<1>6. CASE operation = "create" /\ t = << Must("create"), May("ask") >>
  BY <1>6, LeftHeads, StepNames
<1> QED BY <1>1, <1>2, <1>3, <1>4, <1>5, <1>6, LeftCases

\* A request that neither locks nor unlocks is of another operation, and at
\* most one more such request follows it.
LEMMA StagePlain ==
  ASSUME TypeOK, WellFormed, NEW c \in Callers,
         Awaits(c, {"ask", "activate", "put", "create", "delete"})
  PROVE  /\ ~ failed[c]
         /\ args[c].operation \in Operations \ {"lock", "unlock"}
         /\ \/ Tail(todo[c]) = << >>
            \/ /\ args[c].operation = "create"
               /\ Tail(todo[c]) = << May("ask") >>
<1>1. /\ args[c].operation \in Operations /\ ~ failed[c]
      /\ todo[c] \in Left(args[c].operation)
  BY StageLeft
<1> QED
  BY <1>1, LeftNext DEF Awaits, Tells

\* A lock request is followed by its answer.
LEMMA StageLock ==
  ASSUME TypeOK, WellFormed, NEW c \in Callers, Awaits(c, {"lock"})
  PROVE  /\ ~ failed[c] /\ args[c].operation = "lock"
         /\ Head(todo[c]) = Must("lock")
         /\ Tail(todo[c]) \in Told1
<1>1. /\ args[c].operation \in Operations /\ ~ failed[c]
      /\ todo[c] \in Left(args[c].operation)
  BY StageLeft
<1> QED
  BY <1>1, LeftNext DEF Awaits, Tells

\* An unlock request is the last of an unlock tool.
LEMMA StageUnlock ==
  ASSUME TypeOK, WellFormed, NEW c \in Callers, Awaits(c, {"unlock"})
  PROVE  /\ ~ failed[c] /\ args[c].operation = "unlock"
         /\ todo[c] = << Must("unlock") >>
<1>1. /\ args[c].operation \in Operations /\ ~ failed[c]
      /\ todo[c] \in Left(args[c].operation)
  BY StageLeft
<1> QED
  BY <1>1, LeftNext DEF Awaits, Tells

\* Only a lock tool answers with a handle.
LEMMA StageTell ==
  ASSUME TypeOK, WellFormed, NEW c \in Callers, Awaits(c, Tells)
  PROVE  ~ failed[c] /\ Telling(c)
<1>1. /\ args[c].operation \in Operations /\ ~ failed[c]
      /\ todo[c] \in Left(args[c].operation)
  BY StageLeft DEF Tells
<1> QED BY <1>1, LeftNext DEF Awaits, Tells, Telling

-----------------------------------------------------------------------------
(* Every step keeps the invariant.                                         *)

\* A step of one caller: what has to be shown of it, if nobody else has a
\* call under way unless calls may overlap.
LEMMA StepOfOne ==
  ASSUME IInv, NEW c \in Callers,
         overlap' = overlap, kind' = kind, TypeOK',
         ~ overlap => \A d \in Callers \ {c} : status[d] = "idle",
         \A d \in Callers \ {c} :
           /\ status'[d] = status[d] /\ args'[d] = args[d]
           /\ todo'[d] = todo[d] /\ failed'[d] = failed[d]
           /\ handle'[d] = handle[d]
           /\ lock'.owner = d <=> lock.owner = d
           /\ d \in unsure' <=> d \in unsure,
         Fitting(c)',
         c \notin unsure' => Matches(c)',
         ~ overlap /\ KeepsSessions => InOwnSession(c)'
  PROVE  IInv'
<1>1. WellFormed'
  <2> SUFFICES ASSUME NEW d \in Callers \ {c} PROVE Fitting(d)'
    BY DEF WellFormed
  <2>1. Fitting(d)
    BY DEF IInv, WellFormed
  <2> QED BY <2>1 DEF Fitting
<1>2. HandlesKept'
  <2> SUFFICES ASSUME NEW d \in Callers \ {c}, d \notin unsure'
               PROVE  Matches(d)'
    BY DEF HandlesKept
  <2>1. Matches(d)
    BY DEF IInv, HandlesKept
  <2> QED BY <2>1 DEF Matches, Telling, Released
<1>3. OneAtATime'
  BY DEF OneAtATime
<1>4. LocksInOwnSession'
  <2> SUFFICES ASSUME NEW d \in Callers \ {c}, ~ overlap PROVE InOwnSession(d)'
    BY DEF LocksInOwnSession, KeepsSessions
  <2> QED BY DEF InOwnSession, Awaits
<1> QED BY <1>1, <1>2, <1>3, <1>4 DEF IInv

\* A caller at work has nobody beside it unless calls may overlap.
LEMMA Alone ==
  ASSUME IInv, NEW c \in Callers, status[c] = "waiting", ~ overlap
  PROVE  \A d \in Callers \ {c} : status[d] = "idle"
BY DEF IInv, OneAtATime, TypeOK

\* A caller makes up a session id between its calls.
LEMMA GetSessionStep ==
  ASSUME IInv, ConstantsAssumption, NEW c \in Callers, GetSession(c)
  PROVE  IInv'
<1>1. TypeOK'
  BY DEF IInv, TypeOK, GetSession, ConstantsAssumption
<1>2. WellFormed' /\ OneAtATime'
  BY DEF IInv, WellFormed, Fitting, OneAtATime, GetSession
<1>3. HandlesKept'
  BY DEF IInv, HandlesKept, Matches, Telling, Released, GetSession
<1>4. LocksInOwnSession'
  BY DEF IInv, LocksInOwnSession, KeepsSessions, InOwnSession, Awaits,
         GetSession, TypeOK
<1> QED BY <1>1, <1>2, <1>3, <1>4 DEF IInv

\* The requests keep the types if the rest of the program does.
LEMMA RequestTypes ==
  ASSUME TypeOK, NEW c \in Callers, unchangedByRequests' = unchangedByRequests,
         \/ Proceed(c) /\ todo[c] # << >>
         \/ Abandon(c),
         conn' \in Session \cup {NoSession},
         handle' = handle \/ handle' = [handle EXCEPT ![c] = FALSE],
         there' \in BOOLEAN,
         lock' \in [owner : Callers \cup {NoOne},
                    id : Session \cup {NoSession}, live : BOOLEAN],
         unsure' \subseteq Callers
  PROVE  TypeOK'
<1>1. todo[c] \in Seq(Step) /\ << >> \in Seq(Step)
  BY DEF TypeOK
<1>2. todo[c] # << >> => Tail(todo[c]) \in Seq(Step)
  <2>1. \A t \in Seq(Step) : t # << >> => Tail(t) \in Seq(Step)
    OBVIOUS
  <2> QED BY <1>1, <2>1
<1>3. todo' \in [Callers -> Seq(Step)] /\ failed' \in [Callers -> BOOLEAN]
  <2>1. todo \in [Callers -> Seq(Step)] /\ failed \in [Callers -> BOOLEAN]
    BY DEF TypeOK
  <2>2. CASE Proceed(c) /\ todo[c] # << >>
    BY <1>2, <2>1, <2>2 DEF Proceed
  <2>3. CASE Abandon(c)
    BY <1>1, <2>1, <2>3 DEF Abandon
  <2> QED BY <2>2, <2>3
<1>4. /\ kind' = kind /\ overlap' = overlap /\ status' = status
      /\ args' = args /\ sid' = sid
  BY DEF unchangedByRequests
<1>5. handle' \in [Callers -> BOOLEAN]
  BY DEF TypeOK
<1> QED BY <1>3, <1>4, <1>5 DEF TypeOK

\* A lock stays of its type, and its owner's, when a request fails.
LEMMA LockTypes ==
  ASSUME TypeOK, LockAfterFailure \/ lock' = lock
  PROVE  /\ lock' \in [owner : Callers \cup {NoOne},
                       id : Session \cup {NoSession}, live : BOOLEAN]
         /\ lock'.owner = lock.owner
BY DEF TypeOK, LockAfterFailure

\* A request that fails is followed by the rest, or by none.
LEMMA FailIs ==
  ASSUME NEW c \in Callers, Fail(c)
  PROVE  Abandon(c) \/ (Proceed(c) /\ Head(todo[c]).onError # "abort")
BY DEF Fail

\* No handler begins by answering with a handle.
LEMMA ProgramBegins ==
  ASSUME NEW a \in Arguments, Possible(a)
  PROVE  /\ Program(a) \in Seq(Step) /\ Program(a) # << >>
         /\ Program(a) \notin Told1
<1> DEFINE t == Program(a)
<1>1. a.operation \in Operations /\ Fits(a, a.operation, t)
  BY EveryProgramFits DEF Arguments
<1> HIDE DEF t
<1>2. \/ t \in Unrestored(a.operation)
      \/ t \in Bodies(a.operation) \cup {Refusal}
  BY <1>1 DEF Fits, Unrestored, Refusal
<1>3. CASE t \in Unrestored(a.operation)
  <2>1. PICK b \in Bodies(a.operation) \cup {Refusal} :
          t = << Must("restore") >> \o b
    BY <1>3 DEF Unrestored
  <2>2. b \in Seq(Step)
    BY <1>1, LeftAreSteps DEF Left
  <2>3. t # << >> /\ Head(t).do = "restore"
    BY <2>1, <2>2, RestoreFirst, StepNames
  <2>4. t \notin Told1
    BY <2>3, LeftHeads, StepNames DEF Told1, Tells
  <2> QED BY <1>1, <1>3, <2>3, <2>4, UnrestoredAreSteps DEF t
<1>4. CASE t \in Bodies(a.operation) \cup {Refusal}
  <2>1. t \in Seq(Step) /\ t # << >> /\ t \notin Told1
    BY <1>1, <1>4, BodyHeads, LeftAreSteps DEF Left
  <2> QED BY <2>1 DEF t
<1> QED BY <1>2, <1>3, <1>4

\* Begin: a handler that begins with a lock, a write or an unlock was not
\* given a session, or keeps none.
LEMMA BeginStep ==
  ASSUME IInv, ConstantsAssumption, NEW c \in Callers, Begin(c)
  PROVE  IInv'
<1> USE DEF IInv
<1>1. PICK r \in Requests[c][kind] :
        /\ args' = [args EXCEPT ![c] = WithKnown(r, handle[c], sid[c])]
        /\ todo' = [todo EXCEPT ![c] = Program(WithKnown(r, handle[c], sid[c]))]
  BY DEF Begin
<1> DEFINE a == WithKnown(r, handle[c], sid[c])
           t == Program(a)
<1>2. a \in Arguments /\ Possible(a) /\ Kind(a.type) = kind
  <2>1. kind \in Kinds /\ handle[c] \in BOOLEAN
        /\ sid[c] \in Session \cup {NoSession}
    BY DEF TypeOK
  <2>2. a.type = r.type
    BY DEF WithKnown
  <2> QED BY <2>1, <2>2 DEF ConstantsAssumption
<1>3. a.operation \in Operations /\ Fits(a, a.operation, t)
  BY <1>2, EveryProgramFits DEF Arguments
<1> HIDE DEF a, t
<1>4. args' = [args EXCEPT ![c] = a] /\ todo' = [todo EXCEPT ![c] = t]
  BY <1>1 DEF a, t
<1>5. /\ status[c] = "idle" /\ todo[c] = << >> /\ ~ failed[c]
      /\ status' = [status EXCEPT ![c] = "waiting"]
      /\ UNCHANGED <<kind, overlap, conn, failed, handle, sid, there, lock,
                     unsure>>
      /\ ~ overlap => \A d \in Callers : status[d] = "idle"
  BY DEF Begin, WellFormed, Fitting
<1>6. \/ t \in Unrestored(a.operation)
      \/ t = Refusal
      \/ t \in Bodies(a.operation) /\ ~ NeedsSession(a, a.operation)
  BY <1>3 DEF Fits, Unrestored, Refusal
<1>7. t \in Seq(Step) /\ t # << >> /\ t \notin Told1
  BY <1>2, ProgramBegins DEF a, t
<1>8. TypeOK'
  BY <1>2, <1>4, <1>5, <1>7 DEF TypeOK
<1>9. /\ status'[c] = "waiting" /\ args'[c] = a /\ todo'[c] = t
      /\ ~ failed'[c] /\ handle'[c] = handle[c] /\ sid'[c] = sid[c]
  BY <1>4, <1>5 DEF TypeOK
<1>10. Fitting(c)'
  BY <1>6, <1>9 DEF Fitting, Left
<1>11. c \notin unsure' => Matches(c)'
  BY <1>5, <1>7, <1>9 DEF Matches, Telling, Released, HandlesKept
<1>12. ~ overlap /\ KeepsSessions => InOwnSession(c)'
  <2> SUFFICES ASSUME KeepsSessions, Head(t).do \in {"lock", "put", "unlock"},
                      a.session, a.state
               PROVE  FALSE
    BY <1>5, <1>9 DEF InOwnSession, Awaits
  <2>1. t \notin Unrestored(a.operation)
    <3> SUFFICES ASSUME NEW b \in Bodies(a.operation) \cup {Refusal},
                        t = << Must("restore") >> \o b
                 PROVE  FALSE
      BY DEF Unrestored
    <3>1. b \in Seq(Step)
      BY <1>3, LeftAreSteps DEF Left
    <3> QED BY <3>1, RestoreFirst, StepNames
  <2>2. t # Refusal
    BY LeftHeads, StepNames DEF Refusal
  <2>3. t \in Bodies(a.operation) /\ ~ NeedsSession(a, a.operation)
    BY <1>6, <2>1, <2>2
  <2>4. a.operation \in {"lock", "update", "unlock"}
    <3> SUFFICES ASSUME a.operation \notin {"lock", "update", "unlock"}
                 PROVE  Head(t).do \notin {"lock", "put", "unlock"}
      OBVIOUS
    <3>1. \/ \E op \in {"create", "delete", "activate", "ask"} :
               t \in {<< Must(op) >>, << OrLook(op) >>, << OrVerdict(op) >>}
          \/ t = << Must("create"), May("ask") >>
      BY <1>3, <2>3 DEF Bodies, Operations
    <3>2. \A op : OrLook(op).do = op /\ OrVerdict(op).do = op
      BY DEF OrLook, OrVerdict
    <3> QED BY <3>1, <3>2, LeftHeads, StepNames
  <2> QED BY <1>2, <2>3, <2>4 DEF NeedsSession, KeepsSessions
<1> QED
  BY <1>4, <1>5, <1>8, <1>10, <1>11, <1>12, StepOfOne DEF TypeOK

\* What a request leaves of the caller's own state, and of the others'.
LEMMA AfterRequest ==
  ASSUME TypeOK, NEW c \in Callers, NEW ops, Awaits(c, ops),
         unchangedByRequests' = unchangedByRequests,
         Proceed(c) \/ Abandon(c)
  PROVE  /\ kind' = kind /\ overlap' = overlap
         /\ status[c] = "waiting" /\ status'[c] = "waiting"
         /\ args'[c] = args[c] /\ sid'[c] = sid[c]
         /\ Proceed(c) => todo'[c] = Tail(todo[c]) /\ failed'[c] = failed[c]
         /\ Abandon(c) => todo'[c] = << >> /\ failed'[c]
         /\ \A d \in Callers \ {c} :
              /\ status'[d] = status[d] /\ args'[d] = args[d]
              /\ todo'[d] = todo[d] /\ failed'[d] = failed[d]
BY DEF TypeOK, Awaits, unchangedByRequests, Proceed, Abandon

\* A call that gives up after a failed request tells nothing.
LEMMA AbandonStep ==
  ASSUME IInv, NEW c \in Callers, NEW ops, Awaits(c, ops), ~ Telling(c),
         unchangedByRequests' = unchangedByRequests, Abandon(c),
         TypeOK', handle' = handle, lock'.owner = lock.owner, unsure' = unsure
  PROVE  IInv'
<1>1. /\ kind' = kind /\ overlap' = overlap
      /\ status[c] = "waiting" /\ status'[c] = "waiting"
      /\ todo'[c] = << >> /\ failed'[c]
      /\ \A d \in Callers \ {c} :
           /\ status'[d] = status[d] /\ args'[d] = args[d]
           /\ todo'[d] = todo[d] /\ failed'[d] = failed[d]
  BY AfterRequest DEF IInv
<1>2. Fitting(c)' /\ (~ overlap /\ KeepsSessions => InOwnSession(c)')
  BY <1>1 DEF Fitting, Left, InOwnSession, Awaits
<1>3. << >> \notin Told1
  BY LeftHeads DEF Told1
<1>4. c \notin unsure => (handle[c] <=> lock.owner = c)
  BY DEF IInv, HandlesKept, Matches, Released, Awaits
<1>5. c \notin unsure' => Matches(c)'
  BY <1>1, <1>3, <1>4 DEF Matches, Telling, Released
<1> QED BY <1>1, <1>2, <1>5, Alone, StepOfOne

\* A call that goes on with what is left of its handler.
LEMMA ProceedStep ==
  ASSUME IInv, NEW c \in Callers, NEW ops, Awaits(c, ops), ~ Telling(c),
         unchangedByRequests' = unchangedByRequests, Proceed(c), ~ failed[c],
         TypeOK', handle' = handle, lock'.owner = lock.owner, unsure' = unsure,
         Tail(todo[c]) \in Left(args[c].operation) \ Told1,
         args[c].operation = "unlock" => Tail(todo[c]) # << >>,
         InOwnSession(c)'
  PROVE  IInv'
<1>1. /\ kind' = kind /\ overlap' = overlap
      /\ status[c] = "waiting" /\ status'[c] = "waiting"
      /\ args'[c] = args[c]
      /\ todo'[c] = Tail(todo[c]) /\ ~ failed'[c]
      /\ \A d \in Callers \ {c} :
           /\ status'[d] = status[d] /\ args'[d] = args[d]
           /\ todo'[d] = todo[d] /\ failed'[d] = failed[d]
  BY AfterRequest DEF IInv
<1>2. Fitting(c)'
  BY <1>1 DEF Fitting
<1>3. c \notin unsure => (handle[c] <=> lock.owner = c)
  BY DEF IInv, HandlesKept, Matches, Released, Awaits
<1>4. c \notin unsure' => Matches(c)'
  BY <1>1, <1>3 DEF Matches, Telling, Released
<1> QED BY <1>1, <1>2, <1>4, Alone, StepOfOne

\* Restore: now the connection has the session that the caller passes.
LEMMA RestoreStep ==
  ASSUME IInv, NEW c \in Callers, Restore(c)
  PROVE  IInv'
<1>1. /\ Awaits(c, {"restore"}) /\ Proceed(c) /\ conn' = sid[c]
      /\ unchangedByRequests' = unchangedByRequests
      /\ handle' = handle /\ there' = there /\ lock' = lock
      /\ unsure' = unsure
  BY DEF Restore, unchangedByRequests
<1>2. /\ args[c].operation \in Operations /\ ~ failed[c]
      /\ Tail(todo[c]) \in Bodies(args[c].operation) \cup {Refusal}
  BY <1>1, StageRestore DEF IInv
<1>3. /\ Tail(todo[c]) \in Left(args[c].operation) \ Told1
      /\ Tail(todo[c]) # << >>
  BY <1>2, BodyHeads DEF Left
<1>4. TypeOK'
  <2>1. sid[c] \in Session \cup {NoSession} /\ there \in BOOLEAN
        /\ unsure \subseteq Callers
    BY DEF IInv, TypeOK
  <2> QED BY <1>1, <2>1, RequestTypes, LockTypes DEF IInv, Awaits
<1>5. ~ Telling(c)
  BY <1>1, LeftHeads, StepNames DEF Telling, Told1, Awaits, Tells
<1>6. InOwnSession(c)'
  BY <1>1, AfterRequest DEF InOwnSession, IInv
<1> QED BY <1>1, <1>2, <1>3, <1>4, <1>5, <1>6, ProceedStep

\* What follows a request that neither locks nor unlocks.
LEMMA PlainStep ==
  ASSUME IInv, NEW c \in Callers,
         Awaits(c, {"ask", "activate", "put", "create", "delete", "refuse"}),
         unchangedByRequests' = unchangedByRequests,
         (Proceed(c) /\ Head(todo[c]).do # "refuse") \/ Abandon(c),
         there' \in BOOLEAN,
         conn' = conn, handle' = handle, lock' = lock \/ LockAfterFailure,
         unsure' = unsure
  PROVE  IInv'
<1>1. TypeOK' /\ lock'.owner = lock.owner
  BY RequestTypes, LockTypes DEF IInv, TypeOK, Awaits
<1>2. ~ Telling(c)
  BY LeftHeads, StepNames DEF Telling, Told1, Awaits, Tells
<1>3. CASE Abandon(c)
  BY <1>1, <1>2, <1>3, AbandonStep
<1>4. CASE Proceed(c) /\ Head(todo[c]).do # "refuse"
  <2>1. /\ ~ failed[c]
        /\ args[c].operation \in Operations \ {"lock", "unlock"}
        /\ \/ Tail(todo[c]) = << >>
           \/ /\ args[c].operation = "create"
              /\ Tail(todo[c]) = << May("ask") >>
    BY <1>4, StagePlain DEF Awaits, IInv
  <2>2. /\ << >> \notin Told1 /\ << May("ask") >> \notin Told1
        /\ << May("ask") >> # << >> /\ Head(<< May("ask") >>).do = "ask"
    BY LeftHeads, StepNames DEF Told1, Tells
  <2>3. Tail(todo[c]) \in Left(args[c].operation) \ Told1
    BY <2>1, <2>2 DEF Left
  <2>4. InOwnSession(c)'
    <3>1. todo'[c] = Tail(todo[c])
      BY <1>4, AfterRequest DEF IInv
    <3> QED BY <2>1, <2>2, <3>1 DEF InOwnSession, Awaits
  <2> QED BY <1>1, <1>2, <1>4, <2>1, <2>3, <2>4, ProceedStep
<1> QED BY <1>3, <1>4

\* Refusals, questions, writes, activations, creates and deletes.
LEMMA PlainSteps ==
  ASSUME IInv, NEW c \in Callers,
         Refuse(c) \/ Ask(c) \/ Create(c) \/ Delete(c)
  PROVE  IInv'
<1>1. there \in BOOLEAN
  BY DEF IInv, TypeOK
<1>2. CASE Refuse(c)
  BY <1>1, <1>2, PlainStep DEF Refuse, Awaits, unchangedByRequests
<1>3. CASE Ask(c)
  <2>1. Proceed(c) \/ Abandon(c)
    BY <1>3, FailIs DEF Ask
  <2>2. lock' = lock \/ LockAfterFailure
    BY <1>3 DEF Ask
  <2> QED
    BY <1>1, <1>3, <2>1, <2>2, PlainStep DEF Ask, Awaits, unchangedByRequests
<1>4. CASE Create(c)
  <2>1. Proceed(c) \/ Abandon(c)
    BY <1>4, FailIs DEF Create
  <2>2. (lock' = lock \/ LockAfterFailure) /\ there' \in BOOLEAN
    BY <1>1, <1>4 DEF Create
  <2> QED
    BY <1>4, <2>1, <2>2, PlainStep DEF Create, Awaits, unchangedByRequests
<1>5. CASE Delete(c)
  <2>1. Proceed(c) \/ Abandon(c)
    BY <1>5, FailIs DEF Delete
  <2>2. (lock' = lock \/ LockAfterFailure) /\ there' \in BOOLEAN
    BY <1>1, <1>5 DEF Delete
  <2> QED
    BY <1>5, <2>1, <2>2, PlainStep DEF Delete, Awaits, unchangedByRequests
<1> QED BY <1>2, <1>3, <1>4, <1>5

\* Lock: the caller has the lock if it goes on to answer, and is unsure if it
\* gives up.
LEMMA LockStep ==
  ASSUME IInv, ConstantsAssumption, NEW c \in Callers, Lock(c)
  PROVE  IInv'
<1>1. /\ Awaits(c, {"lock"})
      /\ unchangedByRequests' = unchangedByRequests
      /\ conn' = conn /\ there' = there
  BY DEF Lock, unchangedByRequests
<1>2. /\ ~ failed[c] /\ args[c].operation = "lock"
      /\ Head(todo[c]).onError = "abort" /\ Tail(todo[c]) \in Told1
  BY <1>1, StageLock, StepNames DEF IInv
<1>3. ~ Telling(c)
  BY <1>1, LeftHeads, StepNames DEF Telling, Told1, Awaits, Tells
<1>4. Fail(c) => Abandon(c)
  BY <1>2, FailIs
<1>5. CASE Fail(c) /\ LockAfterFailure /\ UNCHANGED <<handle, unsure>>
  <2>1. TypeOK' /\ lock'.owner = lock.owner
    BY <1>1, <1>4, <1>5, RequestTypes, LockTypes DEF IInv, TypeOK
  <2> QED BY <1>1, <1>3, <1>4, <1>5, <2>1, AbandonStep
<1>6. CASE /\ lock = Free
           /\ lock' = [owner |-> c, id |-> conn, live |-> TRUE]
           /\ handle' = [handle EXCEPT ![c] = FALSE]
           /\ \/ Proceed(c) /\ unsure' = unsure \ {c}
              \/ Abandon(c) /\ unsure' = unsure \cup {c}
  <2>1. TypeOK'
    <3>1. /\ lock' \in [owner : Callers \cup {NoOne},
                        id : Session \cup {NoSession}, live : BOOLEAN]
          /\ unsure' \subseteq Callers /\ conn' \in Session \cup {NoSession}
          /\ there' \in BOOLEAN
      BY <1>1, <1>6 DEF IInv, TypeOK
    <3> QED BY <1>1, <1>6, <3>1, RequestTypes DEF IInv, Awaits
  <2>2. /\ kind' = kind /\ overlap' = overlap
        /\ status[c] = "waiting" /\ status'[c] = "waiting"
        /\ args'[c] = args[c] /\ sid'[c] = sid[c]
        /\ Proceed(c) => todo'[c] = Tail(todo[c]) /\ failed'[c] = failed[c]
        /\ Abandon(c) => todo'[c] = << >> /\ failed'[c]
        /\ \A d \in Callers \ {c} :
             /\ status'[d] = status[d] /\ args'[d] = args[d]
             /\ todo'[d] = todo[d] /\ failed'[d] = failed[d]
    BY <1>1, <1>6, AfterRequest DEF IInv
  <2>3. todo'[c] \in Told1 \/ todo'[c] = << >>
    BY <1>2, <1>6, <2>2
  <2>4. Fitting(c)'
    BY <1>2, <1>6, <2>2 DEF Fitting, Left
  <2>5. c \notin unsure' => Matches(c)'
    BY <1>2, <1>6, <2>2 DEF Matches, Telling, Released
  <2>6. InOwnSession(c)'
    BY <2>3, LeftHeads, StepNames DEF InOwnSession, Awaits, Told1, Tells
  <2>7. \A d \in Callers \ {c} :
          /\ handle'[d] = handle[d]
          /\ lock'.owner = d <=> lock.owner = d
          /\ d \in unsure' <=> d \in unsure
    BY <1>6 DEF IInv, TypeOK, Free, ConstantsAssumption
  <2> QED BY <2>1, <2>2, <2>4, <2>5, <2>6, <2>7, Alone, StepOfOne
<1> QED BY <1>4, <1>5, <1>6 DEF Lock

\* Unlock: the caller is about to report that its lock is gone, or is unsure.
LEMMA UnlockStep ==
  ASSUME IInv, ConstantsAssumption, NEW c \in Callers, Unlock(c)
  PROVE  IInv'
<1>1. /\ Awaits(c, {"unlock"})
      /\ unchangedByRequests' = unchangedByRequests
      /\ conn' = conn /\ there' = there /\ handle' = handle
  BY DEF Unlock, unchangedByRequests
<1>2. /\ ~ failed[c] /\ args[c].operation = "unlock"
      /\ Head(todo[c]).onError = "abort" /\ Tail(todo[c]) = << >>
  <2>1. /\ ~ failed[c] /\ args[c].operation = "unlock"
        /\ todo[c] = << Must("unlock") >>
    BY <1>1, StageUnlock DEF IInv
  <2>2. Head(todo[c]) = Must("unlock") /\ Tail(todo[c]) = << >>
    BY <2>1, LeftHeads
  <2> QED BY <2>1, <2>2, StepNames
<1>3. ~ Telling(c)
  BY <1>1, LeftHeads, StepNames DEF Telling, Told1, Awaits, Tells
<1>4. Fail(c) => Abandon(c)
  BY <1>2, FailIs
<1>5. CASE Fail(c) /\ LockAfterFailure /\ unsure' = unsure
  <2>1. TypeOK' /\ lock'.owner = lock.owner
    BY <1>1, <1>4, <1>5, RequestTypes, LockTypes DEF IInv, TypeOK
  <2> QED BY <1>1, <1>3, <1>4, <1>5, <2>1, AbandonStep
<1>6. CASE /\ HoldsLock(c) /\ lock' = Free
           /\ \/ Proceed(c) /\ unsure' = unsure \ {c}
              \/ Abandon(c) /\ unsure' = unsure \cup {c}
  <2>1. TypeOK'
    <3>1. /\ lock' \in [owner : Callers \cup {NoOne},
                        id : Session \cup {NoSession}, live : BOOLEAN]
          /\ unsure' \subseteq Callers /\ conn' \in Session \cup {NoSession}
          /\ there' \in BOOLEAN
      BY <1>1, <1>6 DEF IInv, TypeOK, Free
    <3> QED BY <1>1, <1>6, <3>1, RequestTypes DEF IInv, Awaits
  <2>2. /\ kind' = kind /\ overlap' = overlap
        /\ status[c] = "waiting" /\ status'[c] = "waiting"
        /\ args'[c] = args[c] /\ sid'[c] = sid[c]
        /\ Proceed(c) => todo'[c] = Tail(todo[c]) /\ failed'[c] = failed[c]
        /\ Abandon(c) => todo'[c] = << >> /\ failed'[c]
        /\ \A d \in Callers \ {c} :
             /\ status'[d] = status[d] /\ args'[d] = args[d]
             /\ todo'[d] = todo[d] /\ failed'[d] = failed[d]
    BY <1>1, <1>6, AfterRequest DEF IInv
  <2>3. todo'[c] = << >>
    BY <1>2, <1>6, <2>2
  <2>4. Fitting(c)'
    BY <1>2, <2>2, <2>3 DEF Fitting, Left
  <2>5. /\ << >> \notin Told1
        /\ lock'.owner = NoOne /\ lock.owner = c /\ NoOne \notin Callers
    BY <1>6, LeftHeads DEF Told1, HoldsLock, Free, ConstantsAssumption
  <2>6. c \notin unsure' => Matches(c)'
    BY <1>2, <1>6, <2>2, <2>3, <2>5 DEF Matches, Telling, Released
  <2>7. InOwnSession(c)'
    BY <2>3 DEF InOwnSession, Awaits
  <2>8. \A d \in Callers \ {c} :
          /\ handle'[d] = handle[d]
          /\ lock'.owner = d <=> lock.owner = d
          /\ d \in unsure' <=> d \in unsure
    BY <1>1, <1>6, <2>5
  <2> QED BY <2>1, <2>2, <2>4, <2>6, <2>7, <2>8, Alone, StepOfOne
<1> QED BY <1>4, <1>5, <1>6 DEF Unlock

\* The answers: a lock tool's caller has a handle now, and who was told of an
\* unlock has none.
LEMMA AnswerSteps ==
  ASSUME IInv, ConstantsAssumption, NEW c \in Callers,
         AnswerLock(c) \/ Answer(c)
  PROVE  IInv'
<1>1. /\ NoArguments \in Arguments /\ << >> \in Seq(Step)
  BY DEF NoArguments, Arguments, Operations, Types, LowTypes, Lockable
<1>2. CASE AnswerLock(c)
  <2>1. ~ failed[c] /\ Telling(c)
    BY <1>2, StageTell DEF AnswerLock, Tells, IInv
  <2>2. Told(c) \in Session \cup {NoSession}
    BY DEF Told, IInv, TypeOK, ConstantsAssumption
  <2>3. TypeOK'
    BY <1>1, <1>2, <2>2 DEF AnswerLock, IInv, TypeOK
  <2>4. /\ status[c] = "waiting" /\ status'[c] = "idle" /\ handle'[c]
        /\ todo'[c] = << >> /\ ~ failed'[c]
        /\ kind' = kind /\ overlap' = overlap
        /\ lock' = lock /\ unsure' = unsure
        /\ \A d \in Callers \ {c} :
             /\ status'[d] = status[d] /\ args'[d] = args[d]
             /\ todo'[d] = todo[d] /\ failed'[d] = failed[d]
             /\ handle'[d] = handle[d]
    BY <1>2, <2>1 DEF AnswerLock, Awaits, IInv, TypeOK
  <2>5. Fitting(c)' /\ InOwnSession(c)'
    BY <2>4 DEF Fitting, InOwnSession, Awaits
  <2>6. c \notin unsure' => Matches(c)'
    BY <2>1, <2>4 DEF Matches, Telling, Released, IInv, HandlesKept
  <2> QED BY <2>3, <2>4, <2>5, <2>6, Alone, StepOfOne
<1>3. CASE Answer(c)
  <2>1. TypeOK'
    BY <1>1, <1>3 DEF Answer, IInv, TypeOK
  <2>2. /\ status[c] = "waiting" /\ status'[c] = "idle"
        /\ todo[c] = << >> /\ todo'[c] = << >> /\ ~ failed'[c]
        /\ handle'[c] = (handle[c] /\ ~ Released(c))
        /\ kind' = kind /\ overlap' = overlap
        /\ lock' = lock /\ unsure' = unsure
        /\ \A d \in Callers \ {c} :
             /\ status'[d] = status[d] /\ args'[d] = args[d]
             /\ todo'[d] = todo[d] /\ failed'[d] = failed[d]
             /\ handle'[d] = handle[d]
    BY <1>3 DEF Answer, IInv, TypeOK, Released
  <2>3. Fitting(c)' /\ InOwnSession(c)'
    BY <2>2 DEF Fitting, InOwnSession, Awaits
  <2>4. ~ Telling(c)
    BY <2>2, LeftHeads DEF Telling, Told1
  <2>5. c \notin unsure => (Released(c) => lock.owner # c)
                           /\ (~ Released(c) => (handle[c] <=> lock.owner = c))
    BY <2>4 DEF IInv, HandlesKept, Matches
  <2>6. c \notin unsure' => Matches(c)'
    BY <2>2, <2>5 DEF Matches, Telling, Released
  <2> QED BY <2>1, <2>2, <2>3, <2>6, Alone, StepOfOne
<1> QED BY <1>2, <1>3

-----------------------------------------------------------------------------
(* The theorems.                                                           *)

\* Every step keeps the invariant.
LEMMA Invariance ==
  ASSUME IInv, ConstantsAssumption, [Next]_vars
  PROVE  IInv'
<1>1. CASE UNCHANGED vars
  BY <1>1 DEF vars, caller, IInv, TypeOK, WellFormed, Fitting, HandlesKept,
              Matches, Telling, Released, OneAtATime, LocksInOwnSession,
              KeepsSessions, InOwnSession, Awaits
<1>2. ASSUME NEW c \in Callers, GetSession(c) \/ Begin(c) \/ Work(c)
      PROVE  IInv'
  BY <1>2, GetSessionStep, BeginStep, RestoreStep, PlainSteps, LockStep,
     UnlockStep, AnswerSteps DEF Work
<1> QED BY <1>1, <1>2 DEF Next

\* It holds at the start.
LEMMA Initially ==
  ASSUME ConstantsAssumption, Init
  PROVE  IInv
<1>1. NoArguments \in Arguments /\ << >> \in Seq(Step)
  BY DEF NoArguments, Arguments, Operations, Types, LowTypes, Lockable
<1>2. kind \in Kinds /\ overlap \in BOOLEAN
  BY DEF Init, ConstantsAssumption
<1>3. TypeOK
  BY <1>1, <1>2 DEF Init, TypeOK, ConstantsAssumption, Free
<1>4. WellFormed /\ OneAtATime /\ LocksInOwnSession
  BY DEF Init, WellFormed, Fitting, OneAtATime, LocksInOwnSession,
         InOwnSession, Awaits
<1>5. HandlesKept
  BY DEF Init, HandlesKept, Matches, Telling, Released, Free,
         ConstantsAssumption
<1> QED BY <1>3, <1>4, <1>5 DEF IInv

\* And so it always holds.
LEMMA AlwaysIInv == Spec => []IInv
BY ConstantsAssumption, Initially, Invariance, PTL DEF Spec

\* The variables keep their types.
THEOREM TypesCorrect == Spec => []TypeOK
<1>1. IInv => TypeOK
  BY DEF IInv
<1> QED BY <1>1, AlwaysIInv, PTL

\* A caller whose lock and unlock calls were answered has a handle exactly if
\* the lock is its own: for every mix of the tools, of every type of object,
\* whatever fails and whatever session is on the connection.
THEOREM HandlesAlwaysMatch == Spec => []HandlesMatchLocks
<1>1. ASSUME IInv, NEW c \in Callers, status[c] = "idle", c \notin unsure
      PROVE  handle[c] <=> lock.owner = c
  BY <1>1 DEF IInv, HandlesKept, Matches, Telling, Released
<1>2. IInv => HandlesMatchLocks
  BY <1>1 DEF HandlesMatchLocks
<1> QED BY <1>2, AlwaysIInv, PTL

\* As long as calls do not overlap, a lock is taken, used and released in the
\* session that was passed for it.
THEOREM OwnSession == Spec => []LocksInOwnSession
<1>1. IInv => LocksInOwnSession
  BY DEF IInv
<1> QED BY <1>1, AlwaysIInv, PTL

-----------------------------------------------------------------------------
(* Whoever holds a lock can release it.                                    *)

\* The type has a tool to lock with: on a cloud system, the low-level tools for
\* programs are refused.
Serves(type, surface) ==
  type \in Lockable /\ (surface = "compact" \/ type # "PROGRAM" \/ ~ Cloud)

\* A lock tool for a type that is not served refuses the call.
LEMMA LockRefused ==
  ASSUME NEW a \in Arguments, Possible(a), a.operation = "lock",
         Kind(a.type) # "CLASS", ~ Serves(a.type, a.surface)
  PROVE  Program(a) = Refusal
<1>1. a.type \in Types /\ a.surface \in {"low", "compact"}
  BY DEF Arguments
<1>2. a.type \notin {"CLASS", "TEST_CLASSES", "BEHAVIOR_IMPLEMENTATION",
                    "UNIT_TEST", "CLASS_PROFILE"}
  BY DEF Kind
<1>3. CASE a.surface = "compact"
  <2>1. a.type \notin LowTypes
    BY <1>2, <1>3 DEF Serves, LowTypes
  <2>2. CASE a.type \in RuntimeTypes \cup {"TRANSPORT"}
    BY <1>3, <2>2
       DEF RuntimeTypes, Possible, Tools, CompactTools, UnitTestTools,
           CdsUnitTestTools, ProfileTools, DumpTools, ServiceBindingTypeTools,
           CompactTransportTools
  <2>3. CASE a.type \notin RuntimeTypes \cup {"TRANSPORT"}
    <3>1. CompactTools(a) = LifecycleTools(a)
      BY <2>3 DEF CompactTools, RuntimeTypes
    <3>2. Program(a) = HandleHandlerLock(a)
      BY <1>3, <3>1 DEF Program, Tools, LifecycleTools
    <3> QED BY <2>1, <3>2 DEF HandleHandlerLock, Given, Refusal
  <2> QED BY <2>2, <2>3
<1>4. CASE a.surface = "low"
  <2>1. CASE a.type = "PROGRAM"
    <3>3. Tools(a) = ProgramTools(a)
      BY <1>4, <2>1 DEF Tools, RuntimeTypes
    <3>1. Program(a) = HandleLockProgram(a)
      BY <3>3 DEF Program, ProgramTools
    <3>2. Cloud
      BY <1>4, <2>1 DEF Serves, Lockable
    <3> QED BY <3>1, <3>2 DEF HandleLockProgram, Given, Refusal
  <2>2. CASE a.type # "PROGRAM"
    <3>1. a.type \in RuntimeTypes
            \cup {"TRANSPORT", "SERVICE_DEFINITION", "SERVICE_BINDING"}
      BY <1>1, <1>2, <2>2 DEF Serves, Types, LowTypes
    <3>2. CASE a.type \in RuntimeTypes
      <4>1. Tools(a) = << >> /\ DOMAIN << >> = {}
        BY <1>4, <3>2 DEF Tools, RuntimeTypes
      <4> QED BY <4>1 DEF Possible
    <3>3. CASE a.type \in {"TRANSPORT", "SERVICE_DEFINITION", "SERVICE_BINDING"}
      BY <1>4, <3>3
         DEF Possible, Tools, TransportTools, ServiceDefinitionTools,
             ServiceBindingTools
    <3> QED BY <3>1, <3>2, <3>3
  <2> QED BY <2>1, <2>2
<1> QED BY <1>1, <1>3, <1>4

Unlocking == << Must("restore") >> \o << Must("unlock") >>

\* The unlock tool for a type that is served restores the session and unlocks.
LEMMA UnlockServed ==
  ASSUME NEW a \in Arguments, a.operation = "unlock",
         Serves(a.type, a.surface), a.type # "CLASS",
         a.handle, a.session, a.state
  PROVE  Program(a) = Unlocking
<1>1. a.type \in Lockable \ {"CLASS"} /\ a.surface \in {"low", "compact"}
  BY DEF Serves, Arguments
<1>2. Restored(a, << Must("unlock") >>) = Unlocking
  BY DEF Restored, Only, Unlocking
<1>3. CASE a.surface = "compact"
  <2>1. CompactTools(a) = LifecycleTools(a)
    BY <1>1 DEF CompactTools, Lockable
  <2>2. Program(a) = HandleHandlerUnlock(a)
    BY <1>3, <2>1 DEF Program, Tools, LifecycleTools
  <2> QED
    BY <1>1, <1>2, <2>2
       DEF HandleHandlerUnlock, HandleUnlockObject, Given, LowTypes
<1>4. CASE a.surface = "low"
  <2>1. CASE a.type = "PACKAGE"
    <3>1. Tools(a) = PackageTools(a)
      BY <1>4, <2>1 DEF Tools, RuntimeTypes
    <3>2. Program(a) = HandleUnlockPackage(a)
      BY <3>1 DEF Program, PackageTools
    <3> QED BY <1>2, <3>2 DEF HandleUnlockPackage, Given
  <2>2. CASE a.type = "DOMAIN"
    <3>1. Tools(a) = DomainTools(a)
      BY <1>4, <2>2 DEF Tools, RuntimeTypes
    <3>2. Program(a) = HandleUnlockDomain(a)
      BY <3>1 DEF Program, DomainTools
    <3> QED BY <1>2, <3>2 DEF HandleUnlockDomain, Given
  <2>3. CASE a.type = "DATA_ELEMENT"
    <3>1. Tools(a) = DataElementTools(a)
      BY <1>4, <2>3 DEF Tools, RuntimeTypes
    <3>2. Program(a) = HandleUnlockDataElement(a)
      BY <3>1 DEF Program, DataElementTools
    <3> QED BY <1>2, <3>2 DEF HandleUnlockDataElement, Given
  <2>4. CASE a.type = "STRUCTURE"
    <3>1. Tools(a) = StructureTools(a)
      BY <1>4, <2>4 DEF Tools, RuntimeTypes
    <3>2. Program(a) = HandleUnlockStructure(a)
      BY <3>1 DEF Program, StructureTools
    <3> QED BY <1>2, <3>2 DEF HandleUnlockStructure, Given
  <2>5. CASE a.type = "DDL"
    <3>1. Tools(a) = DdlTools(a)
      BY <1>4, <2>5 DEF Tools, RuntimeTypes
    <3>2. Program(a) = HandleUnlockDdl(a)
      BY <3>1 DEF Program, DdlTools
    <3> QED BY <1>2, <3>2 DEF HandleUnlockDdl, Given
  <2>6. CASE a.type = "INTERFACE"
    <3>1. Tools(a) = InterfaceTools(a)
      BY <1>4, <2>6 DEF Tools, RuntimeTypes
    <3>2. Program(a) = HandleUnlockInterface(a)
      BY <3>1 DEF Program, InterfaceTools
    <3> QED BY <1>2, <3>2 DEF HandleUnlockInterface, Given
  <2>7. CASE a.type = "FUNCTION_GROUP"
    <3>1. Tools(a) = FunctionGroupTools(a)
      BY <1>4, <2>7 DEF Tools, RuntimeTypes
    <3>2. Program(a) = HandleUnlockFunctionGroup(a)
      BY <3>1 DEF Program, FunctionGroupTools
    <3> QED BY <1>2, <3>2 DEF HandleUnlockFunctionGroup, Given
  <2>8. CASE a.type = "FUNCTION_MODULE"
    <3>1. Tools(a) = FunctionModuleTools(a)
      BY <1>4, <2>8 DEF Tools, RuntimeTypes
    <3>2. Program(a) = HandleUnlockFunctionModule(a)
      BY <3>1 DEF Program, FunctionModuleTools
    <3> QED BY <1>2, <3>2 DEF HandleUnlockFunctionModule, Given
  <2>9. CASE a.type = "BEHAVIOR_DEFINITION"
    <3>1. Tools(a) = BehaviorDefinitionTools(a)
      BY <1>4, <2>9 DEF Tools, RuntimeTypes
    <3>2. Program(a) = HandleUnlockBehaviorDefinition(a)
      BY <3>1 DEF Program, BehaviorDefinitionTools
    <3> QED BY <1>2, <3>2 DEF HandleUnlockBehaviorDefinition, Given
  <2>10. CASE a.type = "METADATA_EXTENSION"
    <3>1. Tools(a) = MetadataExtensionTools(a)
      BY <1>4, <2>10 DEF Tools, RuntimeTypes
    <3>2. Program(a) = HandleUnlockMetadataExtension(a)
      BY <3>1 DEF Program, MetadataExtensionTools
    <3> QED BY <1>2, <3>2 DEF HandleUnlockMetadataExtension, Given
  <2>11. CASE a.type = "PROGRAM"
    <3>1. Tools(a) = ProgramTools(a)
      BY <1>4, <2>11 DEF Tools, RuntimeTypes
    <3>2. Program(a) = HandleUnlockProgram(a)
      BY <3>1 DEF Program, ProgramTools
    <3>3. ~ Cloud
      BY <1>4, <2>11 DEF Serves
    <3> QED BY <1>2, <3>2, <3>3 DEF HandleUnlockProgram, Given
  <2>12. CASE a.type = "TABLE"
    <3>1. Tools(a) = TableTools(a)
      BY <1>4, <2>12 DEF Tools, RuntimeTypes
    <3>2. Program(a) = HandleUnlockTable(a)
      BY <3>1 DEF Program, TableTools
    <3> QED BY <3>2 DEF HandleUnlockTable, Only, Given, Unlocking
  <2> QED BY <1>1, <2>1, <2>2, <2>3, <2>4, <2>5, <2>6, <2>7, <2>8,
            <2>9, <2>10, <2>11, <2>12 DEF Lockable
<1> QED BY <1>1, <1>3, <1>4

\* A program of one request joined to another.
LEMMA OneAndOne ==
  ASSUME NEW S, NEW p \in Seq(S), NEW q \in Seq(S), Len(p) = 1, Len(q) = 1
  PROVE  /\ DOMAIN (p \o q) = 1 .. 2
         /\ (p \o q)[1] = p[1] /\ (p \o q)[2] = q[1]
<1>1. Len(p \o q) = Len(p) + Len(q) /\ p \o q \in Seq(S)
  BY ONLY ConcatProperties, p \in Seq(S), q \in Seq(S)
<1>2. DOMAIN (p \o q) = 1 .. 2
  BY <1>1
<1>3. \A i \in 1 .. (Len(p) + Len(q)) :
        (p \o q)[i] = IF i <= Len(p) THEN p[i] ELSE q[i - Len(p)]
  BY ONLY ConcatProperties, p \in Seq(S), q \in Seq(S)
<1> DEFINE joined == p \o q
<1>4. \A i \in 1 .. (1 + 1) : joined[i] = IF i <= 1 THEN p[i] ELSE q[i - 1]
  BY <1>3
<1> HIDE DEF joined
<1>5. joined[1] = p[1] /\ joined[2] = q[1]
  BY ONLY <1>4
<1> QED BY <1>2, <1>5 DEF joined

\* The caller has a tool to lock the object with that is served.
CanLock(c) ==
  \E r \in Requests[c][kind] :
    r.operation = "lock" /\ Serves(r.type, r.surface)

\* The call of a lock tool either is refused or is of a tool that is served, and
\* so whoever has the lock has such a tool.
Locker(c) ==
  /\ lock.owner = c => CanLock(c)
  /\ status[c] = "waiting" /\ args[c].operation = "lock"
       => todo[c] \in {Refusal, << >>} \/ CanLock(c)

Lockers == KeepsSessions => \A c \in Callers : Locker(c)

\* A step of one caller that takes no lock.
LEMMA LockersOfOne ==
  ASSUME Lockers, NEW c \in Callers, kind' = kind,
         \A d \in Callers : lock'.owner = d => lock.owner = d,
         \A d \in Callers \ {c} :
           status'[d] = status[d] /\ args'[d] = args[d] /\ todo'[d] = todo[d],
         KeepsSessions => \/ status'[c] # "waiting"
                         \/ args'[c].operation # "lock"
                         \/ todo'[c] \in {Refusal, << >>}
                         \/ CanLock(c)
  PROVE  Lockers'
<1> SUFFICES ASSUME KeepsSessions, NEW d \in Callers
             PROVE  Locker(d)'
  BY DEF Lockers, KeepsSessions
<1>1. Locker(d)
  BY DEF Lockers
<1>2. CanLock(d)' <=> CanLock(d)
  BY DEF CanLock
<1>3. lock'.owner = d => CanLock(d)'
  BY <1>1, <1>2 DEF Locker
<1>4. CASE d = c
  BY <1>2, <1>3, <1>4 DEF Locker
<1>5. CASE d # c
  BY <1>1, <1>2, <1>3, <1>5 DEF Locker
<1> QED BY <1>4, <1>5

\* A call that begins is refused or is served.
LEMMA LockersBegin ==
  ASSUME IInv, Lockers, ConstantsAssumption, NEW c \in Callers, Begin(c)
  PROVE  Lockers'
<1>1. PICK r \in Requests[c][kind] :
        /\ args' = [args EXCEPT ![c] = WithKnown(r, handle[c], sid[c])]
        /\ todo' = [todo EXCEPT ![c] = Program(WithKnown(r, handle[c], sid[c]))]
  BY DEF Begin
<1> DEFINE a == WithKnown(r, handle[c], sid[c])
<1>2. /\ kind' = kind /\ lock' = lock
      /\ status' = [status EXCEPT ![c] = "waiting"]
  BY DEF Begin
<1>3. /\ handle[c] \in BOOLEAN /\ sid[c] \in Session \cup {NoSession}
      /\ kind \in Kinds
  BY DEF IInv, TypeOK
<1>4. a \in Arguments /\ Possible(a) /\ Kind(r.type) = kind
  BY <1>3 DEF ConstantsAssumption
<1>5. /\ a.operation = r.operation /\ a.type = r.type
      /\ a.surface = r.surface
  BY DEF WithKnown
<1>6. args'[c] = a /\ todo'[c] = Program(a)
  BY <1>1 DEF IInv, TypeOK
<1>7. ASSUME KeepsSessions, a.operation = "lock"
      PROVE  todo'[c] = Refusal \/ CanLock(c)
  <2>1. CASE Serves(r.type, r.surface)
    BY <1>5, <1>7, <2>1 DEF CanLock
  <2>2. CASE ~ Serves(r.type, r.surface)
    <3> HIDE DEF a
    <3> QED BY <1>4, <1>5, <1>6, <1>7, <2>2, LockRefused DEF KeepsSessions
  <2> QED BY <2>1, <2>2
<1>8. \A d \in Callers \ {c} :
        status'[d] = status[d] /\ args'[d] = args[d] /\ todo'[d] = todo[d]
  BY <1>1, <1>2 DEF IInv, TypeOK
<1> HIDE DEF a
<1> QED BY <1>2, <1>6, <1>7, <1>8, LockersOfOne

\* Nor does a request make anything of a call that was refused.
LEMMA LockersRequest ==
  ASSUME IInv, Lockers, NEW c \in Callers, NEW ops, Awaits(c, ops),
         unchangedByRequests' = unchangedByRequests,
         (Proceed(c) /\ "refuse" \notin ops) \/ Abandon(c),
         \A d \in Callers : lock'.owner = d => lock.owner = d
  PROVE  Lockers'
<1>1. /\ kind' = kind /\ status[c] = "waiting"
      /\ args'[c] = args[c]
      /\ Proceed(c) => todo'[c] = Tail(todo[c])
      /\ Abandon(c) => todo'[c] = << >>
      /\ \A d \in Callers \ {c} :
           status'[d] = status[d] /\ args'[d] = args[d] /\ todo'[d] = todo[d]
  BY AfterRequest DEF IInv
<1>2. "refuse" \notin ops => todo[c] \notin {Refusal, << >>}
  BY LeftHeads, StepNames DEF Awaits, Refusal
<1>3. KeepsSessions => Locker(c)
  BY DEF Lockers
<1> QED BY <1>1, <1>2, <1>3, LockersOfOne DEF Locker

\* Every step keeps it.
LEMMA LockersKept ==
  ASSUME IInv, IInv', Lockers, ConstantsAssumption, [Next]_vars
  PROVE  Lockers'
<1>1. CASE UNCHANGED vars
  BY <1>1 DEF vars, caller, Lockers, KeepsSessions, Locker, CanLock
<1>2. ASSUME NEW c \in Callers, GetSession(c)
      PROVE  Lockers'
  BY <1>2 DEF GetSession, Lockers, KeepsSessions, Locker, CanLock
<1>3. ASSUME NEW c \in Callers, Restore(c) \/ Refuse(c) \/ Ask(c) \/ Create(c)
                                \/ Delete(c)
      PROVE  Lockers'
  <2>1. \/ Awaits(c, {"restore", "ask", "activate", "put", "create", "delete"})
              /\ (Proceed(c) \/ Abandon(c))
        \/ Awaits(c, {"refuse"}) /\ Abandon(c)
    BY <1>3, FailIs DEF Restore, Refuse, Ask, Create, Delete, Awaits
  <2>2. unchangedByRequests' = unchangedByRequests
    BY <1>3 DEF Restore, Refuse, Ask, Create, Delete, unchangedByRequests
  <2>3. lock' = lock \/ LockAfterFailure
    BY <1>3 DEF Restore, Refuse, Ask, Create, Delete
  <2>4. lock'.owner = lock.owner
    BY <2>3, LockTypes DEF IInv, TypeOK
  <2> QED BY <2>1, <2>2, <2>4, LockersRequest
<1>4. ASSUME NEW c \in Callers, Lock(c)
      PROVE  Lockers'
  <2>1. Awaits(c, {"lock"}) /\ unchangedByRequests' = unchangedByRequests
    BY <1>4 DEF Lock, unchangedByRequests
  <2>2. Proceed(c) \/ Abandon(c)
    BY <1>4, FailIs DEF Lock
  <2>3. CASE LockAfterFailure
    <3>1. lock'.owner = lock.owner
      BY <2>3, LockTypes DEF IInv, TypeOK
    <3> QED BY <2>1, <2>2, <3>1, LockersRequest
  <2>4. CASE lock' = [owner |-> c, id |-> conn, live |-> TRUE]
    <3>1. args[c].operation = "lock"
      BY <2>1, StageLock DEF IInv
    <3>2. todo[c] \notin {Refusal, << >>} /\ status[c] = "waiting"
      BY <2>1, LeftHeads, StepNames DEF Awaits, Refusal
    <3>3. /\ kind' = kind
          /\ \A d \in Callers \ {c} :
               status'[d] = status[d] /\ args'[d] = args[d] /\ todo'[d] = todo[d]
      BY <2>1, <2>2, AfterRequest DEF IInv
    <3> SUFFICES ASSUME KeepsSessions, NEW d \in Callers
                 PROVE  Locker(d)'
      BY <3>3 DEF Lockers, KeepsSessions
    <3>4. Locker(d) /\ Locker(c)
      BY DEF Lockers
    <3>5. CanLock(d)' <=> CanLock(d)
      BY <3>3 DEF CanLock
    <3>6. CASE d = c
      BY <3>1, <3>2, <3>4, <3>5, <3>6 DEF Locker
    <3>7. CASE d # c
      BY <2>4, <3>3, <3>4, <3>5, <3>7 DEF Locker
    <3> QED BY <3>6, <3>7
  <2> QED BY <1>4, <2>3, <2>4 DEF Lock
<1>5. ASSUME NEW c \in Callers, Unlock(c)
      PROVE  Lockers'
  <2>1. Awaits(c, {"unlock"}) /\ unchangedByRequests' = unchangedByRequests
    BY <1>5 DEF Unlock, unchangedByRequests
  <2>2. Proceed(c) \/ Abandon(c)
    BY <1>5, FailIs DEF Unlock
  <2>3. lock' = Free \/ LockAfterFailure
    BY <1>5 DEF Unlock
  <2>4. \A d \in Callers : lock'.owner = d => lock.owner = d
    BY <2>3, LockTypes DEF IInv, TypeOK, Free, ConstantsAssumption
  <2> QED BY <2>1, <2>2, <2>4, LockersRequest
<1>6. ASSUME NEW c \in Callers, AnswerLock(c) \/ Answer(c)
      PROVE  Lockers'
  <2>1. /\ kind' = kind /\ lock' = lock
        /\ status'[c] = "idle"
        /\ \A d \in Callers \ {c} :
             status'[d] = status[d] /\ args'[d] = args[d] /\ todo'[d] = todo[d]
    BY <1>6 DEF AnswerLock, Answer, IInv, TypeOK
  <2> QED BY <2>1, LockersOfOne
<1> QED
  BY <1>1, <1>2, <1>3, <1>4, <1>5, <1>6, LockersBegin DEF Next, Work

\* The caller of a lock tool that is served has the tool to unlock with.
LEMMA ReleaseByCounterpart ==
  ASSUME IInv, Lockers, ConstantsAssumption, UnlockBesideLock(Requests),
         KeepsSessions, NEW c \in Callers, HoldsLiveLock(c),
         lock.id \in Session, lock.id = sid[c]
  PROVE  CanRelease(c)
<1>1. /\ handle[c] /\ sid[c] # NoSession
      /\ kind \in Kinds \ {"CLASS"} /\ sid[c] \in Session \cup {NoSession}
  BY DEF IInv, TypeOK, HandlesKept, Matches, Telling, Released, HoldsLiveLock,
         ConstantsAssumption, KeepsSessions
<1>2. PICK r \in Requests[c][kind] :
        r.operation = "lock" /\ Serves(r.type, r.surface)
  BY DEF Lockers, Locker, HoldsLiveLock, CanLock
<1>3. PICK u \in Requests[c][kind] :
        /\ u.operation = "unlock" /\ u.state
        /\ u.type = r.type /\ u.surface = r.surface
  BY <1>1, <1>2 DEF UnlockBesideLock
<1> DEFINE a == WithKnown(u, handle[c], sid[c])
<1>4. a \in Arguments /\ Kind(u.type) = kind
  BY <1>1 DEF ConstantsAssumption
<1>5. /\ a.operation = "unlock" /\ a.type = u.type /\ a.surface = u.surface
      /\ a.handle /\ a.session /\ a.state
  BY <1>1, <1>3 DEF WithKnown
<1>6. u.type # "CLASS"
  BY <1>1, <1>4 DEF Kind
<1>7. Program(a) = Unlocking
  <2> HIDE DEF a
  <2> QED BY <1>2, <1>3, <1>4, <1>5, <1>6, UnlockServed
<1>8. /\ DOMAIN Unlocking = 1 .. 2
      /\ Unlocking[1].do = "restore" /\ Unlocking[2].do = "unlock"
  <2>1. /\ << Must("restore") >> \in Seq(Step)
        /\ << Must("unlock") >> \in Seq(Step)
    BY PlainAreSteps
  <2>2. /\ DOMAIN Unlocking = 1 .. 2
        /\ Unlocking[1] = Must("restore") /\ Unlocking[2] = Must("unlock")
    BY <2>1, OneAndOne DEF Unlocking
  <2> QED BY <2>2, StepNames
<1> HIDE DEF a, Unlocking
<1> QED
  <2>1. /\ ~ \E i \in DOMAIN Program(a) : Program(a)[i].do = "refuse"
        /\ \E i \in DOMAIN Program(a) : Program(a)[i].do = "restore"
    BY <1>7, <1>8
  <2> QED BY <2>1, <1>5 DEF CanRelease, a

\* Whoever may unlock whatever it may lock can always release the lock it holds:
\* of every type of object, whatever sessions the other callers have put on the
\* connection since.
THEOREM LocksReleasable ==
  ASSUME UnlockBesideLock(Requests)
  PROVE  Spec => []Releasable
<1>1. Init => Lockers
  BY ConstantsAssumption
     DEF Init, Lockers, Locker, Free, ConstantsAssumption
<1>2. IInv /\ IInv' /\ Lockers /\ [Next]_vars => Lockers'
  BY ConstantsAssumption, LockersKept
<1>3. Spec => []Lockers
  BY <1>1, <1>2, AlwaysIInv, PTL DEF Spec
<1>4. IInv /\ Lockers => Releasable
  BY ConstantsAssumption, ReleaseByCounterpart DEF Releasable
<1> QED BY <1>3, <1>4, AlwaysIInv, PTL

-----------------------------------------------------------------------------
(* When what a lock tool returns is enough.                                *)

\* Calls do not overlap, and whoever locks passes a session and its state.
Disciplined ==
  /\ ~ overlap
  /\ \A c \in Callers :
       status[c] = "waiting" /\ args[c].operation = "lock"
         => args[c].session /\ args[c].state

\* The session that a caller passes is that of its lock, also while the lock
\* tool has still to answer.
Keeps(c) ==
  /\ lock.owner = c => lock.id = sid[c] /\ sid[c] \in Session
  /\ Telling(c) => conn = sid[c] /\ sid[c] \in Session
  /\ status[c] = "waiting" /\ args[c].session => sid[c] \in Session

SessionKept == KeepsSessions => \A c \in Callers : Keeps(c)

\* A step of one caller: the session of the connection is its own business, as
\* nobody else is about to answer.
LEMMA KeptByOthers ==
  ASSUME SessionKept, NEW c \in Callers, kind' = kind,
         \A d \in Callers \ {c} :
           /\ status[d] = "idle" \/ conn' = conn
           /\ status'[d] = status[d] /\ args'[d] = args[d]
           /\ todo'[d] = todo[d] /\ sid'[d] = sid[d]
           /\ lock'.owner = d => lock.owner = d /\ lock'.id = lock.id,
         KeepsSessions => Keeps(c)'
  PROVE  SessionKept'
<1> SUFFICES ASSUME KeepsSessions, NEW d \in Callers \ {c}
             PROVE  Keeps(d)'
  BY DEF SessionKept, KeepsSessions
<1>1. Keeps(d)
  BY DEF SessionKept
<1> QED BY <1>1 DEF Keeps, Telling

\* A request that takes no lock, and that no answer with a handle follows.
LEMMA KeptByRequest ==
  ASSUME IInv, SessionKept, Disciplined, NEW c \in Callers, NEW ops,
         Awaits(c, ops), unchangedByRequests' = unchangedByRequests,
         (Proceed(c) /\ Tail(todo[c]) \notin Told1) \/ Abandon(c),
         \A d \in Callers : lock'.owner = d => lock.owner = d /\ lock'.id = lock.id
  PROVE  SessionKept'
<1>1. /\ kind' = kind
      /\ status[c] = "waiting" /\ status'[c] = "waiting"
      /\ args'[c] = args[c] /\ sid'[c] = sid[c]
      /\ Proceed(c) => todo'[c] = Tail(todo[c])
      /\ Abandon(c) => todo'[c] = << >>
      /\ \A d \in Callers \ {c} :
           status'[d] = status[d] /\ args'[d] = args[d] /\ todo'[d] = todo[d]
  BY AfterRequest DEF IInv
<1>2. \A d \in Callers \ {c} : status[d] = "idle" /\ sid'[d] = sid[d]
  BY <1>1, Alone DEF Disciplined, unchangedByRequests
<1>3. << >> \notin Told1
  BY LeftHeads DEF Told1
<1>4. ~ Telling(c)'
  BY <1>1, <1>3 DEF Telling
<1>5. KeepsSessions => Keeps(c)
  BY DEF SessionKept
<1>6. KeepsSessions => Keeps(c)'
  BY <1>1, <1>4, <1>5 DEF Keeps
<1> QED BY <1>1, <1>2, <1>6, KeptByOthers

\* What follows the other requests is no answer with a handle.
LEMMA OtherTails ==
  ASSUME IInv, NEW c \in Callers,
         Awaits(c, {"restore", "ask", "activate", "put", "create", "delete",
                    "unlock"})
  PROVE  Tail(todo[c]) \notin Told1
<1>1. /\ << >> \notin Told1 /\ << May("ask") >> \notin Told1
  BY LeftHeads, StepNames DEF Told1, Tells
<1>2. CASE Awaits(c, {"restore"})
  BY <1>2, StageRestore, BodyHeads DEF IInv
<1>3. CASE Awaits(c, {"ask", "activate", "put", "create", "delete"})
  BY <1>1, <1>3, StagePlain DEF IInv
<1>4. CASE Awaits(c, {"unlock"})
  BY <1>1, <1>4, StageUnlock, LeftHeads DEF IInv
<1> QED BY <1>2, <1>3, <1>4 DEF Awaits

\* The lock is taken in the session that the caller passes.
LEMMA KeptByLock ==
  ASSUME IInv, SessionKept, Disciplined, ConstantsAssumption,
         NEW c \in Callers, Lock(c)
  PROVE  SessionKept'
<1>1. /\ Awaits(c, {"lock"}) /\ unchangedByRequests' = unchangedByRequests
      /\ conn' = conn
      /\ (Proceed(c) \/ Abandon(c)) /\ (Fail(c) => Abandon(c))
  BY FailIs, StageLock, StepNames DEF Lock, unchangedByRequests, IInv
<1>2. CASE Fail(c) /\ LockAfterFailure
  <2>1. lock'.owner = lock.owner /\ lock'.id = lock.id
    BY <1>2 DEF LockAfterFailure, IInv, TypeOK
  <2> QED BY <1>1, <1>2, <2>1, KeptByRequest
<1>3. CASE lock' = [owner |-> c, id |-> conn, live |-> TRUE]
  <2>1. /\ kind' = kind
        /\ status[c] = "waiting" /\ status'[c] = "waiting"
        /\ args'[c] = args[c] /\ sid'[c] = sid[c]
        /\ \A d \in Callers \ {c} :
             status'[d] = status[d] /\ args'[d] = args[d] /\ todo'[d] = todo[d]
    BY <1>1, AfterRequest DEF IInv
  <2>2. args[c].operation = "lock"
    BY <1>1, StageLock DEF IInv
  <2>3. args[c].session /\ args[c].state
    BY <2>1, <2>2 DEF Disciplined
  <2>4. KeepsSessions => conn = sid[c] /\ sid[c] \in Session
    BY <1>1, <2>1, <2>3
       DEF IInv, LocksInOwnSession, InOwnSession, Awaits, Disciplined,
           SessionKept, Keeps
  <2>5. KeepsSessions => Keeps(c)'
    BY <1>1, <1>3, <2>1, <2>4 DEF Keeps
  <2>6. \A d \in Callers \ {c} : sid'[d] = sid[d] /\ lock'.owner # d
    BY <1>1, <1>3 DEF unchangedByRequests
  <2> QED BY <1>1, <2>1, <2>5, <2>6, KeptByOthers
<1> QED BY <1>2, <1>3 DEF Lock

\* The answer to a lock names the session that was passed.
LEMMA KeptByAnswer ==
  ASSUME IInv, SessionKept, ConstantsAssumption, NEW c \in Callers,
         AnswerLock(c) \/ Answer(c)
  PROVE  SessionKept'
<1>1. /\ kind' = kind /\ conn' = conn /\ lock' = lock
      /\ status'[c] = "idle"
      /\ \A d \in Callers \ {c} :
           /\ status'[d] = status[d] /\ args'[d] = args[d]
           /\ todo'[d] = todo[d] /\ sid'[d] = sid[d]
  BY DEF AnswerLock, Answer, IInv, TypeOK
<1>2. KeepsSessions => sid'[c] = sid[c]
  <2>1. CASE AnswerLock(c)
    <3>1. Telling(c)
      BY <2>1, StageTell DEF AnswerLock, Tells, IInv
    <3>2. KeepsSessions => conn = sid[c] /\ sid[c] # NoSession
      BY <3>1 DEF SessionKept, Keeps, ConstantsAssumption
    <3>3. KeepsSessions => Told(c) = sid[c]
      BY <3>2 DEF Told
    <3> QED BY <2>1, <3>3 DEF AnswerLock, IInv, TypeOK
  <2> QED BY <2>1 DEF Answer
<1>3. KeepsSessions => Keeps(c)
  BY DEF SessionKept
<1>4. KeepsSessions => Keeps(c)'
  BY <1>1, <1>2, <1>3 DEF Keeps, Telling
<1> QED BY <1>1, <1>4, KeptByOthers

\* A call that begins passes the session that its caller has.
LEMMA KeptByBegin ==
  ASSUME IInv, SessionKept, ConstantsAssumption, NEW c \in Callers, Begin(c)
  PROVE  SessionKept'
<1>1. PICK r \in Requests[c][kind] :
        /\ args' = [args EXCEPT ![c] = WithKnown(r, handle[c], sid[c])]
        /\ todo' = [todo EXCEPT ![c] = Program(WithKnown(r, handle[c], sid[c]))]
  BY DEF Begin
<1> DEFINE a == WithKnown(r, handle[c], sid[c])
<1>2. /\ handle[c] \in BOOLEAN /\ sid[c] \in Session \cup {NoSession}
      /\ kind \in Kinds
  BY DEF IInv, TypeOK
<1>3. a \in Arguments /\ Possible(a)
  BY <1>2 DEF ConstantsAssumption
<1>4. a.session => sid[c] \in Session
  BY <1>2 DEF WithKnown
<1>5. args'[c] = a /\ todo'[c] = Program(a)
  BY <1>1 DEF IInv, TypeOK
<1> HIDE DEF a
<1>6. ~ Telling(c)'
  BY <1>3, <1>5, ProgramBegins DEF Telling
<1>7. /\ kind' = kind /\ conn' = conn /\ lock' = lock /\ sid' = sid
      /\ \A d \in Callers \ {c} :
           status'[d] = status[d] /\ args'[d] = args[d] /\ todo'[d] = todo[d]
  BY <1>1 DEF Begin, IInv, TypeOK
<1>8. KeepsSessions => Keeps(c)
  BY DEF SessionKept
<1>9. KeepsSessions => Keeps(c)'
  BY <1>4, <1>5, <1>6, <1>7, <1>8 DEF Keeps
<1> QED BY <1>7, <1>9, KeptByOthers

\* Every step keeps the session.
LEMMA SessionStaysKept ==
  ASSUME IInv, SessionKept, Disciplined, ConstantsAssumption, [Next]_vars
  PROVE  SessionKept'
<1>1. CASE UNCHANGED vars
  BY <1>1 DEF vars, caller, SessionKept, KeepsSessions, Keeps, Telling
<1>2. ASSUME NEW c \in Callers, GetSession(c)
      PROVE  SessionKept'
  <2>1. /\ status[c] = "idle" /\ sid[c] = NoSession
        /\ kind' = kind /\ conn' = conn /\ lock' = lock /\ status' = status
        /\ args' = args /\ todo' = todo
        /\ \A d \in Callers \ {c} : sid'[d] = sid[d]
    BY <1>2 DEF GetSession, IInv, TypeOK
  <2>2. KeepsSessions => Keeps(c)
    BY DEF SessionKept
  <2>3. KeepsSessions => Keeps(c)'
    BY <2>1, <2>2 DEF Keeps, Telling, ConstantsAssumption
  <2> QED BY <2>1, <2>3, KeptByOthers
<1>3. ASSUME NEW c \in Callers,
             Restore(c) \/ Refuse(c) \/ Ask(c) \/ Create(c) \/ Delete(c) \/ Unlock(c)
      PROVE  SessionKept'
  <2>1. unchangedByRequests' = unchangedByRequests
    BY <1>3
       DEF Restore, Refuse, Ask, Create, Delete, Unlock, unchangedByRequests
  <2>2. \/ /\ Awaits(c, {"restore", "ask", "activate", "put", "create", "delete",
                         "unlock"})
           /\ Proceed(c) \/ Abandon(c)
        \/ Awaits(c, {"refuse"}) /\ Abandon(c)
    BY <1>3, FailIs DEF Restore, Refuse, Ask, Create, Delete, Unlock, Awaits
  <2>3. lock' = lock \/ LockAfterFailure \/ lock' = Free
    BY <1>3 DEF Restore, Refuse, Ask, Create, Delete, Unlock
  <2>4. \A d \in Callers : lock'.owner = d => lock.owner = d /\ lock'.id = lock.id
    BY <2>3 DEF LockAfterFailure, Free, IInv, TypeOK, ConstantsAssumption
  <2> QED BY <2>1, <2>2, <2>4, OtherTails, KeptByRequest
<1> QED
  BY <1>1, <1>2, <1>3, KeptByBegin, KeptByLock, KeptByAnswer DEF Next, Work

\* "Use this lock_handle and session_id for subsequent update/unlock operations"
\* is right for a caller that passed a session and its state when it locked, as
\* long as calls do not overlap, and whoever may lock may unlock.
THEOREM DisciplineIsEnough ==
  ASSUME UnlockBesideLock(Requests)
  PROVE  Spec /\ []Disciplined => []AnswerIsEnough
<1>1. Init => SessionKept
  BY ConstantsAssumption
     DEF Init, SessionKept, Keeps, Telling, Free, ConstantsAssumption
<1>2. IInv /\ Disciplined /\ SessionKept /\ [Next]_vars => SessionKept'
  BY ConstantsAssumption, SessionStaysKept
<1>3. SessionKept /\ Releasable => AnswerIsEnough
  BY DEF SessionKept, Keeps, Releasable, AnswerIsEnough, HoldsLiveLock
<1> QED BY <1>1, <1>2, <1>3, AlwaysIInv, LocksReleasable, PTL DEF Spec

=============================================================================
