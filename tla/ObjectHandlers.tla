--------------------------- MODULE ObjectHandlers ---------------------------
(***************************************************************************)
(* The high-level Create* and Delete* handlers of src/src/handlers: the    *)
(* requests each awaits, in the form of module HandlerPrograms.            *)
(*                                                                         *)
(* A handler is a function of its arguments a: a.activate (`activate`      *)
(* after its default, `activate_on_delete` of the local includes) and      *)
(* a.source (CreateServiceDefinition was given source code).               *)
(*                                                                         *)
(* A handler that fails while its variable lockHandle is set unlocks,      *)
(* ignoring errors, before it answers with an error.  Some handlers leave  *)
(* the variable set after they have unlocked ("release"), and then unlock  *)
(* a second time; the others clear it ("unlock").                          *)
(***************************************************************************)
EXTENDS HandlerPrograms

Ops == {"validate", "create", "check", "lock", "put", "unlock", "release",
        "read", "activate", "delete", "find"}

\* "look": the handler reads the object, and answers with success if it is
\* there; "assume": some errors are answered with success without a look.
Policies == {"abort", "ignore", "look", "assume"}

Step == [do : Ops, onError : Policies]

OrLook(op)   == [do |-> op, onError |-> "look"]
OrAssume(op) == [do |-> op, onError |-> "assume"]

-----------------------------------------------------------------------------
(* Creating an object.                                                     *)

HandleCreateProgram(a)        == << Must("validate"), Must("create") >>
HandleCreateDdl(a)            == << Must("validate"), Must("create") >>
HandleCreateTable(a)          == << Must("validate"), Must("create") >>
HandleCreateFunctionModule(a) == << Must("validate"), Must("create") >>

HandleCreateInterface(a)              == << Must("create") >>
HandleCreateFunctionInclude(a)        == << Must("create") >>
HandleCreateMessageClass(a)           == << Must("create") >>
HandleCreateMessageClassMessage(a)    == << Must("create") >>
HandleCreateBehaviorImplementation(a) == << Must("create") >>
HandleCreateCdsUnitTest(a)            == << Must("create") >>

\* The library creates and activates in one call.
HandleCreateServiceBinding(a) ==
  << Must("create") >> \o Only(a.activate, << Must("activate") >>)

\* Mutant of HandleCreateDomain: its activation may fail unnoticed.
HandleCreateDomainUnnoticed(a) ==
  << Must("validate"), Must("create"), Must("lock"), Must("put"),
     Must("unlock"), May("read"), Must("check") >>
    \o Only(a.activate, << May("activate") >>)

\* The attributes are written by an update under the lock.
HandleCreateDomain(a) ==
  << Must("validate"), Must("create"), Must("lock"), Must("put"),
     Must("unlock"), May("read"), Must("check") >>
    \o Only(a.activate, << Must("activate") >>)

HandleCreateDataElement(a) ==
  << Must("validate"), Must("create"), Must("lock"), Must("put"),
     Must("unlock"), May("read"), Must("check") >>
    \o Only(a.activate, << Must("activate") >>)

\* Locks and unlocks without writing in between.
HandleCreateStructure(a) ==
  << Must("validate"), Must("create"), Must("lock"), Must("release"),
     May("check") >>
    \o Only(a.activate, << Must("activate") >>)

HandleCreateBehaviorDefinition(a) ==
  << Must("create"), Must("lock"), Must("check"), Must("release"),
     May("read") >>
    \o Only(a.activate, << Must("activate") >>)

HandleCreateMetadataExtension(a) ==
  << Must("create"), Must("lock"), Must("check"), Must("release"),
     May("read") >>
    \o Only(a.activate, << Must("activate") >>)

\* The create request makes an empty shell; the library's update() fills it.
HandleCreateServiceDefinition(a) ==
  << Must("validate"), Must("create") >>
    \o Only(a.source, Section(<< Must("put") >>, Must("unlock")))
    \o Only(a.activate, << Must("activate") >>)

\* AdtClass.create() without source and activation.  A refused validation makes
\* the handler look for a class of that name.
HandleCreateClass(a) ==
  << OrLook("validate"), Must("create"), Must("check"), Must("lock"),
     Must("check"), Must("unlock"), Must("check") >>

\* A 404 "Error while importing object" makes the handler look for the package.
HandleCreatePackage(a) ==
  << OrLook("validate"), OrLook("create"), OrLook("check") >>

\* A 400 that names a missing library or business partner counts as success.
HandleCreateFunctionGroup(a) ==
  << Must("validate"), OrAssume("create") >>
    \o Only(a.activate, << OrAssume("activate") >>)

-----------------------------------------------------------------------------
(* Deleting one: one delete() call of the client library.                  *)

HandleDeleteBehaviorDefinition(a)     == << Must("delete") >>
HandleDeleteBehaviorImplementation(a) == << Must("delete") >>
HandleDeleteCdsUnitTest(a)            == << Must("delete") >>
HandleDeleteClass(a)                  == << Must("delete") >>
HandleDeleteDataElement(a)            == << Must("delete") >>
HandleDeleteDdl(a)                    == << Must("delete") >>
HandleDeleteDomain(a)                 == << Must("delete") >>
HandleDeleteFunctionGroup(a)          == << Must("delete") >>
HandleDeleteFunctionInclude(a)        == << Must("delete") >>
HandleDeleteFunctionModule(a)         == << Must("delete") >>
HandleDeleteInterface(a)              == << Must("delete") >>
HandleDeleteMessageClass(a)           == << Must("delete") >>
HandleDeleteMessageClassMessage(a)    == << Must("delete") >>
HandleDeleteMetadataExtension(a)      == << Must("delete") >>
HandleDeleteProgram(a)                == << Must("delete") >>
HandleDeleteServiceBinding(a)         == << Must("delete") >>
HandleDeleteServiceDefinition(a)      == << Must("delete") >>
HandleDeleteStructure(a)              == << Must("delete") >>
HandleDeleteTable(a)                  == << Must("delete") >>

\* A local include of a class cannot be deleted: it is updated with empty code,
\* and the class activated.
EmptyInclude(activate) ==
  Section(<< Must("put") >>, Must("unlock"))
    \o Only(activate, << Must("activate") >>)

HandleDeleteLocalDefinitions(a) == EmptyInclude(a.activate)
HandleDeleteLocalMacros(a)      == EmptyInclude(a.activate)
HandleDeleteLocalTestClass(a)   == EmptyInclude(a.activate)
HandleDeleteLocalTypes(a)       == EmptyInclude(a.activate)

-----------------------------------------------------------------------------
(* Which handler serves which object type.                                 *)

LocalIncludes ==
  {"LOCAL_DEFINITIONS", "LOCAL_MACROS", "LOCAL_TEST_CLASS", "LOCAL_TYPES"}

\* Types whose create or delete handler takes `activate`.
TakesActivate ==
  [create |-> {"SERVICE_BINDING", "DOMAIN", "DATA_ELEMENT", "STRUCTURE",
               "BEHAVIOR_DEFINITION", "METADATA_EXTENSION",
               "SERVICE_DEFINITION", "FUNCTION_GROUP"},
   delete |-> LocalIncludes]

\* Types the compact group does not route.
HighOnly == {"FUNCTION_INCLUDE", "MESSAGE_CLASS", "MESSAGE_CLASS_MESSAGE"}

CreateHandler(a) ==
  CASE a.type = "PACKAGE"                 -> HandleCreatePackage(a)
    [] a.type = "DOMAIN"                  -> HandleCreateDomain(a)
    [] a.type = "DATA_ELEMENT"            -> HandleCreateDataElement(a)
    [] a.type = "TABLE"                   -> HandleCreateTable(a)
    [] a.type = "STRUCTURE"               -> HandleCreateStructure(a)
    [] a.type = "DDL"                     -> HandleCreateDdl(a)
    [] a.type = "SERVICE_DEFINITION"      -> HandleCreateServiceDefinition(a)
    [] a.type = "SERVICE_BINDING"         -> HandleCreateServiceBinding(a)
    [] a.type = "CLASS"                   -> HandleCreateClass(a)
    [] a.type = "CDS_UNIT_TEST"           -> HandleCreateCdsUnitTest(a)
    [] a.type = "PROGRAM"                 -> HandleCreateProgram(a)
    [] a.type = "INTERFACE"               -> HandleCreateInterface(a)
    [] a.type = "FUNCTION_GROUP"          -> HandleCreateFunctionGroup(a)
    [] a.type = "FUNCTION_MODULE"         -> HandleCreateFunctionModule(a)
    [] a.type = "FUNCTION_INCLUDE"        -> HandleCreateFunctionInclude(a)
    [] a.type = "MESSAGE_CLASS"           -> HandleCreateMessageClass(a)
    [] a.type = "MESSAGE_CLASS_MESSAGE"   -> HandleCreateMessageClassMessage(a)
    [] a.type = "BEHAVIOR_DEFINITION"     -> HandleCreateBehaviorDefinition(a)
    [] a.type = "BEHAVIOR_IMPLEMENTATION" -> HandleCreateBehaviorImplementation(a)
    [] a.type = "METADATA_EXTENSION"      -> HandleCreateMetadataExtension(a)

DeleteHandler(a) ==
  CASE a.type = "DOMAIN"                  -> HandleDeleteDomain(a)
    [] a.type = "DATA_ELEMENT"            -> HandleDeleteDataElement(a)
    [] a.type = "TABLE"                   -> HandleDeleteTable(a)
    [] a.type = "STRUCTURE"               -> HandleDeleteStructure(a)
    [] a.type = "DDL"                     -> HandleDeleteDdl(a)
    [] a.type = "SERVICE_DEFINITION"      -> HandleDeleteServiceDefinition(a)
    [] a.type = "SERVICE_BINDING"         -> HandleDeleteServiceBinding(a)
    [] a.type = "CLASS"                   -> HandleDeleteClass(a)
    [] a.type = "CDS_UNIT_TEST"           -> HandleDeleteCdsUnitTest(a)
    [] a.type = "LOCAL_DEFINITIONS"       -> HandleDeleteLocalDefinitions(a)
    [] a.type = "LOCAL_MACROS"            -> HandleDeleteLocalMacros(a)
    [] a.type = "LOCAL_TEST_CLASS"        -> HandleDeleteLocalTestClass(a)
    [] a.type = "LOCAL_TYPES"             -> HandleDeleteLocalTypes(a)
    [] a.type = "PROGRAM"                 -> HandleDeleteProgram(a)
    [] a.type = "INTERFACE"               -> HandleDeleteInterface(a)
    [] a.type = "FUNCTION_GROUP"          -> HandleDeleteFunctionGroup(a)
    [] a.type = "FUNCTION_MODULE"         -> HandleDeleteFunctionModule(a)
    [] a.type = "FUNCTION_INCLUDE"        -> HandleDeleteFunctionInclude(a)
    [] a.type = "MESSAGE_CLASS"           -> HandleDeleteMessageClass(a)
    [] a.type = "MESSAGE_CLASS_MESSAGE"   -> HandleDeleteMessageClassMessage(a)
    [] a.type = "BEHAVIOR_DEFINITION"     -> HandleDeleteBehaviorDefinition(a)
    [] a.type = "BEHAVIOR_IMPLEMENTATION" -> HandleDeleteBehaviorImplementation(a)
    [] a.type = "METADATA_EXTENSION"      -> HandleDeleteMetadataExtension(a)

Creatable ==
  {"PACKAGE", "DOMAIN", "DATA_ELEMENT", "TABLE", "STRUCTURE", "DDL",
   "SERVICE_DEFINITION", "SERVICE_BINDING", "CLASS", "CDS_UNIT_TEST",
   "PROGRAM", "INTERFACE", "FUNCTION_GROUP", "FUNCTION_MODULE",
   "FUNCTION_INCLUDE", "MESSAGE_CLASS", "MESSAGE_CLASS_MESSAGE",
   "BEHAVIOR_DEFINITION", "BEHAVIOR_IMPLEMENTATION", "METADATA_EXTENSION"}
Deletable == (Creatable \ {"PACKAGE"}) \cup LocalIncludes

Program(a) ==
  IF a.operation = "create" THEN CreateHandler(a) ELSE DeleteHandler(a)

\* What kind of ABAP object a call of that type works on.
Kind(type) ==
  IF type \in LocalIncludes \cup {"CDS_UNIT_TEST", "BEHAVIOR_IMPLEMENTATION"}
    THEN "CLASS" ELSE type

Possible(a) ==
  /\ a.type \in IF a.operation = "create" THEN Creatable ELSE Deletable
  /\ a.activate => a.type \in TakesActivate[a.operation]
  /\ a.source => a.operation = "create" /\ a.type = "SERVICE_DEFINITION"
  /\ a.surface = "compact" => a.type \notin HighOnly

=============================================================================
