-------------------------- MODULE LowLevelHandlers --------------------------
(***************************************************************************)
(* The low-level handlers of src/src/handlers (the `low` directories): each *)
(* makes one request on the connection, or a few, in the form of module    *)
(* HandlerPrograms.  The caller, not the handler, carries lock handle and  *)
(* session from one tool to the next.                                      *)
(*                                                                         *)
(* A handler is a function of its arguments a: a.session and a.state, were *)
(* session_id and session_state given; a.handle, was lock_handle given;    *)
(* a.type, the object's type.  A call without a name, source, package or   *)
(* description is refused before anything else and is left out.  An answer *)
(* without the expected result is an error, like a request that fails.     *)
(***************************************************************************)
EXTENDS HandlerPrograms

CONSTANT Cloud  \* the connection is to an ABAP cloud system

\* "restore": restoreSessionInConnection; "refuse": return_error without a
\* request; "tell...": what a lock tool returns as session_id.
Ops == {"restore", "refuse", "ask", "create", "delete", "lock", "put",
        "unlock", "activate", "tellGiven", "tellActual", "tellFresh",
        "tellHandle"}

\* "look": the handler reads the object and may succeed; "verdict": some
\* errors are the answer the tool was called for.
Policies == {"abort", "ignore", "look", "verdict"}

Step == [do : Ops, onError : Policies]

OrLook(op)    == [do |-> op, onError |-> "look"]
OrVerdict(op) == [do |-> op, onError |-> "verdict"]

\* if (session_id && session_state) await restoreSessionInConnection(...)
Restored(a, steps) ==
  Only(a.session /\ a.state, << Must("restore") >>) \o steps

\* if (! condition) return return_error(...)
Given(condition, steps) == IF condition THEN steps ELSE << Must("refuse") >>

-----------------------------------------------------------------------------
(* Packages.                                                               *)

HandleCreatePackage(a) == Restored(a, << Must("create") >>)
HandleValidatePackage(a) == Restored(a, << Must("ask") >>)
HandleLockPackage(a) == Restored(a, << Must("lock"), Must("tellActual") >>)
HandleUpdatePackage(a) == Given(a.handle, Restored(a, << Must("put") >>))
HandleCheckPackage(a) == Restored(a, << Must("ask") >>)
HandleUnlockPackage(a) ==
  Given(a.handle /\ a.session, Restored(a, << Must("unlock") >>))
HandleDeletePackage(a) == << Must("delete") >>

-----------------------------------------------------------------------------
(* Domains.                                                                *)

HandleCreateDomain(a) == Restored(a, << Must("create") >>)
HandleValidateDomain(a) == Restored(a, << Must("ask") >>)
HandleLockDomain(a) == Restored(a, << Must("lock"), Must("tellActual") >>)
HandleUpdateDomain(a) == Given(a.handle, Restored(a, << Must("put") >>))
HandleCheckDomain(a) == Restored(a, << Must("ask") >>)
HandleUnlockDomain(a) ==
  Given(a.handle /\ a.session, Restored(a, << Must("unlock") >>))
HandleActivateDomain(a) == Restored(a, << Must("activate") >>)
HandleDeleteDomain(a) == << Must("delete") >>

-----------------------------------------------------------------------------
(* Data elements.                                                          *)

HandleCreateDataElement(a) == Restored(a, << Must("create") >>)
HandleValidateDataElement(a) == Restored(a, << OrVerdict("ask") >>)
HandleLockDataElement(a) ==
  Restored(a, << Must("lock"), Must("tellGiven") >>)
HandleUpdateDataElement(a) == Given(a.handle, Restored(a, << Must("put") >>))
HandleCheckDataElement(a) == Restored(a, << Must("ask") >>)
HandleUnlockDataElement(a) ==
  Given(a.handle /\ a.session, Restored(a, << Must("unlock") >>))
HandleActivateDataElement(a) == Restored(a, << Must("activate") >>)
HandleDeleteDataElement(a) == << Must("delete") >>

-----------------------------------------------------------------------------
(* Transports.                                                             *)

HandleCreateTransport(a) == << Must("ask") >>

-----------------------------------------------------------------------------
(* Tables: UnlockTable reads session_id only after it has restored the     *)
(* session.                                                                *)

HandleCreateTable(a) == Restored(a, << Must("create") >>)
HandleValidateTable(a) == Restored(a, << Must("ask") >>)
HandleLockTable(a) == Restored(a, << Must("lock"), Must("tellGiven") >>)
HandleUpdateTable(a) == Given(a.handle, Restored(a, << Must("put") >>))
HandleCheckTable(a) == Restored(a, << Must("ask") >>)
HandleUnlockTable(a) ==
  Only(a.state, << Must("restore") >>)
    \o Given(a.session, << Must("unlock") >>)
HandleActivateTable(a) == Restored(a, << Must("activate") >>)
HandleDeleteTable(a) == << Must("delete") >>

-----------------------------------------------------------------------------
(* Structures.                                                             *)

HandleCreateStructure(a) == Restored(a, << Must("create") >>)
HandleValidateStructure(a) == Restored(a, << Must("ask") >>)
HandleLockStructure(a) == Restored(a, << Must("lock"), Must("tellGiven") >>)
HandleUpdateStructure(a) == Given(a.handle, Restored(a, << Must("put") >>))
HandleCheckStructure(a) == Restored(a, << Must("ask") >>)
HandleUnlockStructure(a) ==
  Given(a.handle /\ a.session, Restored(a, << Must("unlock") >>))
HandleActivateStructure(a) == Restored(a, << Must("activate") >>)
HandleDeleteStructure(a) == << Must("delete") >>

-----------------------------------------------------------------------------
(* Ddls.                                                                   *)

HandleCreateDdl(a) == Restored(a, << Must("create") >>)
HandleValidateDdl(a) == Restored(a, << Must("ask") >>)
HandleLockDdl(a) == Restored(a, << Must("lock"), Must("tellGiven") >>)
HandleUpdateDdl(a) == Given(a.handle, Restored(a, << Must("put") >>))
HandleCheckDdl(a) == Restored(a, << Must("ask") >>)
HandleUnlockDdl(a) ==
  Given(a.handle /\ a.session, Restored(a, << Must("unlock") >>))
HandleActivateDdl(a) == Restored(a, << Must("activate") >>)
HandleDeleteDdl(a) == << Must("delete") >>

-----------------------------------------------------------------------------
(* Classes: the tools that lock, write, unlock and create never restore a  *)
(* session.                                                                *)

HandleCreateClass(a) == << Must("create") >>
HandleValidateClass(a) == Restored(a, << OrVerdict("ask") >>)
HandleLockClass(a) == << Must("lock"), Must("tellHandle") >>
HandleUpdateClass(a) == Given(a.handle, << Must("put") >>)
HandleCheckClass(a) == Restored(a, << Must("ask") >>)
HandleUnlockClass(a) == Given(a.handle, << Must("unlock") >>)
HandleActivateClass(a) == Restored(a, << Must("activate") >>)
HandleDeleteClass(a) == << Must("delete") >>

-----------------------------------------------------------------------------
(* Test classes: locked through the class; the runs of unit tests are      *)
(* listed with them.                                                       *)

HandleLockClassTestClasses(a) ==
  Restored(a, << Must("lock"), Must("tellGiven") >>)
HandleUpdateClassTestClasses(a) ==
  Given(a.handle, Restored(a, << Must("put") >>))
HandleUnlockClassTestClasses(a) ==
  Given(a.handle, Restored(a, << Must("unlock") >>))
HandleActivateClassTestClasses(a) == Restored(a, << Must("activate") >>)
HandleRunClassUnitTests(a) == Restored(a, << Must("ask") >>)
HandleGetClassUnitTestStatus(a) == Restored(a, << Must("ask") >>)
HandleGetClassUnitTestResult(a) == Restored(a, << Must("ask") >>)

-----------------------------------------------------------------------------
(* Programs: not on cloud systems.                                         *)

HandleCreateProgram(a) == Given(~ Cloud, Restored(a, << Must("create") >>))
HandleValidateProgram(a) == Given(~ Cloud, Restored(a, << Must("ask") >>))
\* Mutant of HandleLockProgram: the object is checked once it is locked.
HandleLockProgramChecking(a) ==
  Given(~ Cloud,
    Restored(a, << Must("lock"), Must("ask"), Must("tellGiven") >>))

HandleLockProgram(a) ==
  Given(~ Cloud, Restored(a, << Must("lock"), Must("tellGiven") >>))
HandleUpdateProgram(a) ==
  Given(~ Cloud /\ a.handle, Restored(a, << Must("put") >>))
HandleCheckProgram(a) == Given(~ Cloud, Restored(a, << Must("ask") >>))
\* Mutant of HandleUnlockProgram: the session is not restored.
HandleUnlockProgramHere(a) ==
  Given(~ Cloud /\ a.handle /\ a.session, << Must("unlock") >>)

HandleUnlockProgram(a) ==
  Given(~ Cloud /\ a.handle /\ a.session, Restored(a, << Must("unlock") >>))
HandleActivateProgram(a) ==
  Given(~ Cloud, Restored(a, << Must("activate") >>))
HandleDeleteProgram(a) == Given(~ Cloud, << Must("delete") >>)

-----------------------------------------------------------------------------
(* Interfaces.                                                             *)

HandleCreateInterface(a) == Restored(a, << Must("create") >>)
HandleValidateInterface(a) == Restored(a, << Must("ask") >>)
HandleLockInterface(a) == Restored(a, << Must("lock"), Must("tellGiven") >>)
HandleUpdateInterface(a) == Given(a.handle, Restored(a, << Must("put") >>))
HandleCheckInterface(a) == Restored(a, << Must("ask") >>)
HandleUnlockInterface(a) ==
  Given(a.handle /\ a.session, Restored(a, << Must("unlock") >>))
HandleActivateInterface(a) == Restored(a, << Must("activate") >>)
HandleDeleteInterface(a) == << Must("delete") >>

-----------------------------------------------------------------------------
(* Function groups: a creation that fails for a missing include is looked  *)
(* up.                                                                     *)

HandleCreateFunctionGroup(a) == Restored(a, << OrLook("create") >>)
HandleValidateFunctionGroup(a) == Restored(a, << Must("ask") >>)
HandleLockFunctionGroup(a) ==
  Restored(a, << Must("lock"), Must("tellActual") >>)
HandleCheckFunctionGroup(a) == Restored(a, << Must("ask") >>)
HandleUnlockFunctionGroup(a) ==
  Given(a.handle /\ a.session, Restored(a, << Must("unlock") >>))
HandleActivateFunctionGroup(a) == Restored(a, << Must("activate") >>)
HandleDeleteFunctionGroup(a) == << Must("delete") >>

-----------------------------------------------------------------------------
(* Function modules.                                                       *)

HandleCreateFunctionModule(a) ==
  Restored(a, << Must("create"), May("ask") >>)
HandleValidateFunctionModule(a) == Restored(a, << Must("ask") >>)
HandleLockFunctionModule(a) ==
  Restored(a, << Must("lock"), Must("tellActual") >>)
HandleUpdateFunctionModule(a) ==
  Given(a.handle, Restored(a, << Must("put") >>))
HandleCheckFunctionModule(a) == Restored(a, << Must("ask") >>)
HandleUnlockFunctionModule(a) ==
  Given(a.handle /\ a.session, Restored(a, << Must("unlock") >>))
HandleActivateFunctionModule(a) == Restored(a, << Must("activate") >>)
HandleDeleteFunctionModule(a) == << Must("delete") >>

-----------------------------------------------------------------------------
(* Behavior definitions.                                                   *)

HandleCreateBehaviorDefinition(a) == Restored(a, << Must("create") >>)
HandleValidateBehaviorDefinition(a) == Restored(a, << Must("ask") >>)
HandleLockBehaviorDefinition(a) ==
  Restored(a, << Must("lock"), Must("tellGiven") >>)
HandleUpdateBehaviorDefinition(a) ==
  Given(a.handle, Restored(a, << Must("put") >>))
HandleCheckBehaviorDefinition(a) == Restored(a, << Must("ask") >>)
HandleUnlockBehaviorDefinition(a) ==
  Given(a.handle /\ a.session, Restored(a, << Must("unlock") >>))
HandleActivateBehaviorDefinition(a) == Restored(a, << Must("activate") >>)
HandleDeleteBehaviorDefinition(a) == << Must("delete") >>

-----------------------------------------------------------------------------
(* Behavior implementations: classes, unlocked as such.                    *)

HandleCreateBehaviorImplementation(a) == Restored(a, << Must("create") >>)
HandleValidateBehaviorImplementation(a) == Restored(a, << Must("ask") >>)
HandleLockBehaviorImplementation(a) ==
  Restored(a, << Must("lock"), Must("tellGiven") >>)

-----------------------------------------------------------------------------
(* Metadata extensions.                                                    *)

HandleCreateMetadataExtension(a) == Restored(a, << Must("create") >>)
HandleValidateMetadataExtension(a) == Restored(a, << Must("ask") >>)
HandleLockMetadataExtension(a) ==
  Restored(a, << Must("lock"), Must("tellGiven") >>)
HandleUpdateMetadataExtension(a) ==
  Given(a.handle, Restored(a, << Must("put") >>))
HandleCheckMetadataExtension(a) == Restored(a, << Must("ask") >>)
HandleUnlockMetadataExtension(a) ==
  Given(a.handle /\ a.session, Restored(a, << Must("unlock") >>))
HandleActivateMetadataExtension(a) == Restored(a, << Must("activate") >>)
HandleDeleteMetadataExtension(a) == << Must("delete") >>

-----------------------------------------------------------------------------
(* Service definitions.                                                    *)

HandleActivateServiceDefinition(a) == Restored(a, << Must("activate") >>)

-----------------------------------------------------------------------------
(* Service bindings.                                                       *)

HandleActivateServiceBinding(a) == Restored(a, << Must("activate") >>)

-----------------------------------------------------------------------------
(* The handlers for objects of any type, which the compact tools use.      *)

Lockable ==
  {"CLASS", "PROGRAM", "INTERFACE", "FUNCTION_GROUP", "FUNCTION_MODULE",
   "TABLE", "STRUCTURE", "DDL", "DOMAIN", "DATA_ELEMENT", "PACKAGE",
   "BEHAVIOR_DEFINITION", "METADATA_EXTENSION"}

Checkable == Lockable \ {"FUNCTION_MODULE", "PACKAGE"}

Validatable ==
  (Lockable \ {"FUNCTION_MODULE"}) \cup {"BEHAVIOR_IMPLEMENTATION"}

HandleLockObject(a) ==
  Given(a.type \in Lockable,
    Restored(a, << Must("lock"), Must("tellFresh") >>))
HandleUnlockObject(a) ==
  Given(a.handle /\ a.session /\ a.type \in Lockable,
    Restored(a, << Must("unlock") >>))
HandleCheckObject(a) ==
  Given(a.type \in Checkable, Restored(a, << Must("ask") >>))
HandleValidateObject(a) ==
  Given(a.type \in Validatable, Restored(a, << Must("ask") >>))
HandleActivateObject(a) == << Must("activate") >>

\* Types the compact tools pass on.
LowTypes == Lockable \cup {"BEHAVIOR_IMPLEMENTATION"}

HandleHandlerLock(a)     == Given(a.type \in LowTypes, HandleLockObject(a))
HandleHandlerUnlock(a)   == Given(a.type \in LowTypes, HandleUnlockObject(a))
HandleHandlerCheckRun(a) == Given(a.type \in LowTypes, HandleCheckObject(a))
HandleHandlerActivate(a) == HandleActivateObject(a)

HandleValidateServiceBinding(a) == << Must("ask") >>

HandleHandlerValidate(a) ==
  IF a.type = "SERVICE_BINDING" THEN HandleValidateServiceBinding(a)
  ELSE Given(a.type \in LowTypes, HandleValidateObject(a))

-----------------------------------------------------------------------------
(* What the compact tools start and look at: none knows of sessions.  Unit *)
(* tests are neither updated nor deleted.                                  *)

HandleRunUnitTest(a) == << Must("ask") >>
HandleGetUnitTestStatus(a) == << Must("ask") >>
HandleGetUnitTestResult(a) == << Must("ask") >>
HandleCreateUnitTest(a) == << Must("ask") >>
HandleUpdateUnitTest(a) == << Must("refuse") >>
HandleDeleteUnitTest(a) == << Must("refuse") >>
HandleGetCdsUnitTestStatus(a) == << Must("ask") >>
HandleGetCdsUnitTestResult(a) == << Must("ask") >>

HandleHandlerUnitTestRun(a)       == HandleRunUnitTest(a)
HandleHandlerUnitTestStatus(a)    == HandleGetUnitTestStatus(a)
HandleHandlerUnitTestResult(a)    == HandleGetUnitTestResult(a)
HandleHandlerCdsUnitTestStatus(a) == HandleGetCdsUnitTestStatus(a)
HandleHandlerCdsUnitTestResult(a) == HandleGetCdsUnitTestResult(a)

HandleRuntimeRunClassWithProfiling(a) == << Must("ask") >>
HandleRuntimeRunProgramWithProfiling(a) == << Must("ask") >>
HandleRuntimeListProfilerTraceFiles(a) == << Must("ask") >>
HandleRuntimeGetProfilerTraceData(a) == << Must("ask") >>
HandleRuntimeListFeeds(a) == << Must("ask") >>
HandleRuntimeGetDumpById(a) == << Must("ask") >>

HandleHandlerProfileRun(a) ==
  IF a.type = "CLASS_PROFILE" THEN HandleRuntimeRunClassWithProfiling(a)
  ELSE HandleRuntimeRunProgramWithProfiling(a)
HandleHandlerProfileList(a) == HandleRuntimeListProfilerTraceFiles(a)
HandleHandlerProfileView(a) == HandleRuntimeGetProfilerTraceData(a)
HandleHandlerDumpList(a)    == HandleRuntimeListFeeds(a)
HandleHandlerDumpView(a)    == HandleRuntimeGetDumpById(a)

HandleListServiceBindingTypes(a) == << Must("ask") >>
HandleHandlerServiceBindingListTypes(a) == HandleListServiceBindingTypes(a)
HandleHandlerServiceBindingValidate(a) == HandleValidateServiceBinding(a)
HandleHandlerTransportCreate(a) == << Must("ask") >>

-----------------------------------------------------------------------------
(* The tools by operation.                                                 *)

PackageTools(a) ==
  [create |-> HandleCreatePackage(a), validate |-> HandleValidatePackage(a),
   lock |-> HandleLockPackage(a), update |-> HandleUpdatePackage(a),
   check |-> HandleCheckPackage(a), unlock |-> HandleUnlockPackage(a),
   delete |-> HandleDeletePackage(a)]

DomainTools(a) ==
  [create |-> HandleCreateDomain(a), validate |-> HandleValidateDomain(a),
   lock |-> HandleLockDomain(a), update |-> HandleUpdateDomain(a),
   check |-> HandleCheckDomain(a), unlock |-> HandleUnlockDomain(a),
   activate |-> HandleActivateDomain(a), delete |-> HandleDeleteDomain(a)]

DataElementTools(a) ==
  [create |-> HandleCreateDataElement(a),
   validate |-> HandleValidateDataElement(a),
   lock |-> HandleLockDataElement(a), update |-> HandleUpdateDataElement(a),
   check |-> HandleCheckDataElement(a),
   unlock |-> HandleUnlockDataElement(a),
   activate |-> HandleActivateDataElement(a),
   delete |-> HandleDeleteDataElement(a)]

TransportTools(a) ==
  [create |-> HandleCreateTransport(a)]

TableTools(a) ==
  [create |-> HandleCreateTable(a), validate |-> HandleValidateTable(a),
   lock |-> HandleLockTable(a), update |-> HandleUpdateTable(a),
   check |-> HandleCheckTable(a), unlock |-> HandleUnlockTable(a),
   activate |-> HandleActivateTable(a), delete |-> HandleDeleteTable(a)]

StructureTools(a) ==
  [create |-> HandleCreateStructure(a),
   validate |-> HandleValidateStructure(a), lock |-> HandleLockStructure(a),
   update |-> HandleUpdateStructure(a), check |-> HandleCheckStructure(a),
   unlock |-> HandleUnlockStructure(a),
   activate |-> HandleActivateStructure(a),
   delete |-> HandleDeleteStructure(a)]

DdlTools(a) ==
  [create |-> HandleCreateDdl(a), validate |-> HandleValidateDdl(a),
   lock |-> HandleLockDdl(a), update |-> HandleUpdateDdl(a),
   check |-> HandleCheckDdl(a), unlock |-> HandleUnlockDdl(a),
   activate |-> HandleActivateDdl(a), delete |-> HandleDeleteDdl(a)]

ClassTools(a) ==
  [create |-> HandleCreateClass(a), validate |-> HandleValidateClass(a),
   lock |-> HandleLockClass(a), update |-> HandleUpdateClass(a),
   check |-> HandleCheckClass(a), unlock |-> HandleUnlockClass(a),
   activate |-> HandleActivateClass(a), delete |-> HandleDeleteClass(a)]

ClassTestClassesTools(a) ==
  [lock |-> HandleLockClassTestClasses(a),
   update |-> HandleUpdateClassTestClasses(a),
   unlock |-> HandleUnlockClassTestClasses(a),
   activate |-> HandleActivateClassTestClasses(a),
   run |-> HandleRunClassUnitTests(a),
   status |-> HandleGetClassUnitTestStatus(a),
   result |-> HandleGetClassUnitTestResult(a)]

ProgramTools(a) ==
  [create |-> HandleCreateProgram(a), validate |-> HandleValidateProgram(a),
   lock |-> HandleLockProgram(a), update |-> HandleUpdateProgram(a),
   check |-> HandleCheckProgram(a), unlock |-> HandleUnlockProgram(a),
   activate |-> HandleActivateProgram(a), delete |-> HandleDeleteProgram(a)]

InterfaceTools(a) ==
  [create |-> HandleCreateInterface(a),
   validate |-> HandleValidateInterface(a), lock |-> HandleLockInterface(a),
   update |-> HandleUpdateInterface(a), check |-> HandleCheckInterface(a),
   unlock |-> HandleUnlockInterface(a),
   activate |-> HandleActivateInterface(a),
   delete |-> HandleDeleteInterface(a)]

FunctionGroupTools(a) ==
  [create |-> HandleCreateFunctionGroup(a),
   validate |-> HandleValidateFunctionGroup(a),
   lock |-> HandleLockFunctionGroup(a),
   check |-> HandleCheckFunctionGroup(a),
   unlock |-> HandleUnlockFunctionGroup(a),
   activate |-> HandleActivateFunctionGroup(a),
   delete |-> HandleDeleteFunctionGroup(a)]

FunctionModuleTools(a) ==
  [create |-> HandleCreateFunctionModule(a),
   validate |-> HandleValidateFunctionModule(a),
   lock |-> HandleLockFunctionModule(a),
   update |-> HandleUpdateFunctionModule(a),
   check |-> HandleCheckFunctionModule(a),
   unlock |-> HandleUnlockFunctionModule(a),
   activate |-> HandleActivateFunctionModule(a),
   delete |-> HandleDeleteFunctionModule(a)]

BehaviorDefinitionTools(a) ==
  [create |-> HandleCreateBehaviorDefinition(a),
   validate |-> HandleValidateBehaviorDefinition(a),
   lock |-> HandleLockBehaviorDefinition(a),
   update |-> HandleUpdateBehaviorDefinition(a),
   check |-> HandleCheckBehaviorDefinition(a),
   unlock |-> HandleUnlockBehaviorDefinition(a),
   activate |-> HandleActivateBehaviorDefinition(a),
   delete |-> HandleDeleteBehaviorDefinition(a)]

BehaviorImplementationTools(a) ==
  [create |-> HandleCreateBehaviorImplementation(a),
   validate |-> HandleValidateBehaviorImplementation(a),
   lock |-> HandleLockBehaviorImplementation(a)]

MetadataExtensionTools(a) ==
  [create |-> HandleCreateMetadataExtension(a),
   validate |-> HandleValidateMetadataExtension(a),
   lock |-> HandleLockMetadataExtension(a),
   update |-> HandleUpdateMetadataExtension(a),
   check |-> HandleCheckMetadataExtension(a),
   unlock |-> HandleUnlockMetadataExtension(a),
   activate |-> HandleActivateMetadataExtension(a),
   delete |-> HandleDeleteMetadataExtension(a)]

ServiceDefinitionTools(a) ==
  [activate |-> HandleActivateServiceDefinition(a)]

ServiceBindingTools(a) ==
  [activate |-> HandleActivateServiceBinding(a)]

LifecycleTools(a) ==
  [lock |-> HandleHandlerLock(a), unlock |-> HandleHandlerUnlock(a),
   check |-> HandleHandlerCheckRun(a), validate |-> HandleHandlerValidate(a),
   activate |-> HandleHandlerActivate(a)]

UnitTestTools(a) ==
  [create |-> HandleCreateUnitTest(a), update |-> HandleUpdateUnitTest(a),
   delete |-> HandleDeleteUnitTest(a), run |-> HandleHandlerUnitTestRun(a),
   status |-> HandleHandlerUnitTestStatus(a),
   result |-> HandleHandlerUnitTestResult(a)]

CdsUnitTestTools(a) ==
  [status |-> HandleHandlerCdsUnitTestStatus(a),
   result |-> HandleHandlerCdsUnitTestResult(a)]

ProfileTools(a) ==
  [run |-> HandleHandlerProfileRun(a), list |-> HandleHandlerProfileList(a),
   view |-> HandleHandlerProfileView(a)]

DumpTools(a) ==
  [list |-> HandleHandlerDumpList(a), view |-> HandleHandlerDumpView(a)]

ServiceBindingTypeTools(a) ==
  [list |-> HandleHandlerServiceBindingListTypes(a),
   validate |-> HandleHandlerServiceBindingValidate(a)]

CompactTransportTools(a) == [create |-> HandleHandlerTransportCreate(a)]

CompactTools(a) ==
  CASE a.type = "UNIT_TEST" -> UnitTestTools(a)
    [] a.type = "CDS_UNIT_TEST" -> CdsUnitTestTools(a)
    [] a.type \in {"CLASS_PROFILE", "PROGRAM_PROFILE"} -> ProfileTools(a)
    [] a.type = "RUNTIME_DUMP" -> DumpTools(a)
    [] a.type = "BINDING_TYPE" -> ServiceBindingTypeTools(a)
    [] a.type = "TRANSPORT" -> CompactTransportTools(a)
    [] OTHER -> LifecycleTools(a)

\* Types of which there are compact tools only.  A profile is of a class or of
\* a program, a dump of a program.
RuntimeTypes ==
  {"UNIT_TEST", "CDS_UNIT_TEST", "CLASS_PROFILE", "PROGRAM_PROFILE",
   "RUNTIME_DUMP", "BINDING_TYPE"}

Tools(a) ==
  IF a.surface = "compact" THEN CompactTools(a)
  ELSE CASE a.type = "PACKAGE" -> PackageTools(a)
         [] a.type = "DOMAIN" -> DomainTools(a)
         [] a.type = "DATA_ELEMENT" -> DataElementTools(a)
         [] a.type = "TRANSPORT" -> TransportTools(a)
         [] a.type = "TABLE" -> TableTools(a)
         [] a.type = "STRUCTURE" -> StructureTools(a)
         [] a.type = "DDL" -> DdlTools(a)
         [] a.type = "CLASS" -> ClassTools(a)
         [] a.type = "TEST_CLASSES" -> ClassTestClassesTools(a)
         [] a.type = "PROGRAM" -> ProgramTools(a)
         [] a.type = "INTERFACE" -> InterfaceTools(a)
         [] a.type = "FUNCTION_GROUP" -> FunctionGroupTools(a)
         [] a.type = "FUNCTION_MODULE" -> FunctionModuleTools(a)
         [] a.type = "BEHAVIOR_DEFINITION" -> BehaviorDefinitionTools(a)
         [] a.type = "BEHAVIOR_IMPLEMENTATION" -> BehaviorImplementationTools(a)
         [] a.type = "METADATA_EXTENSION" -> MetadataExtensionTools(a)
         [] a.type = "SERVICE_DEFINITION" -> ServiceDefinitionTools(a)
         [] a.type = "SERVICE_BINDING" -> ServiceBindingTools(a)
         [] a.type \in RuntimeTypes -> << >>

Types ==
  LowTypes \cup RuntimeTypes
    \cup {"TRANSPORT", "TEST_CLASSES", "SERVICE_DEFINITION",
          "SERVICE_BINDING"}

\* A class, its test classes and a behavior implementation are one object, and
\* what is run or looked at belongs to the object it is about.
Kind(type) ==
  CASE type \in {"TEST_CLASSES", "BEHAVIOR_IMPLEMENTATION", "UNIT_TEST",
                 "CLASS_PROFILE"} -> "CLASS"
    [] type = "CDS_UNIT_TEST" -> "DDL"
    [] type \in {"PROGRAM_PROFILE", "RUNTIME_DUMP"} -> "PROGRAM"
    [] type = "BINDING_TYPE" -> "SERVICE_BINDING"
    [] OTHER -> type

Program(a) == Tools(a)[a.operation]

=============================================================================
