--------------------------- MODULE UpdateHandlers ---------------------------
(***************************************************************************)
(* The high-level Update* handlers of src/src/handlers, one definition per *)
(* handler: the requests it awaits, in the order it awaits them, and what  *)
(* it does when one of them fails.                                         *)
(*                                                                         *)
(* A handler is a function of its arguments a, of which two decide the     *)
(* control flow: a.activate (the `activate` argument after its default)    *)
(* and a.ownLock (FALSE when the caller passed a lock_handle, which only   *)
(* two handlers accept).  Argument validation that returns before the      *)
(* first request is left out: such a call touches nothing.                 *)
(*                                                                         *)
(* The try/finally of the handlers needs no notation of its own.  A        *)
(* handler that fails with its handle taken and its "unlock" still ahead   *)
(* unlocks once, ignoring errors, and answers with an error: that is what  *)
(* module UpdateTools makes of a failed step.                              *)
(***************************************************************************)
EXTENDS HandlerPrograms

\* What one awaited request is for.
Ops == {"ask", "probe", "checkNew", "checkSaved", "lock", "put", "publish",
        "unlock", "activate", "activateGroup", "readBack", "verify", "stamp",
        "verifyStamp", "findActive", "verifyField"}

Policies == {"abort", "ignore"}

Step == [do : Ops, onError : Policies]

\* The handlers log an error of the unlock request and go on.
Locked(body) == Section(body, May("unlock"))

-----------------------------------------------------------------------------
(* Handlers that check the new source before writing it, when they are to  *)
(* activate it.                                                             *)

\* Mutant of HandleUpdateClass: the new source is checked once it is written.
HandleUpdateClassLate(a) ==
  Locked(<< Must("put") >> \o Only(a.activate, << Must("checkNew") >>))
    \o Only(a.activate, << May("checkSaved"), Must("activate") >>)

HandleUpdateClass(a) ==
  Locked(Only(a.activate, << Must("checkNew") >>) \o << Must("put") >>)
    \o Only(a.activate, << May("checkSaved"), Must("activate") >>)

HandleUpdateDdl(a) ==
  Locked(Only(a.activate, << Must("checkNew") >>) \o << Must("put") >>)
    \o Only(a.activate, << May("checkSaved"), Must("activate") >>)

HandleUpdateTable(a) ==
  Locked(Only(a.activate, << Must("checkNew") >>) \o << Must("put") >>)
    \o Only(a.activate, << May("checkSaved"), Must("activate") >>)

HandleUpdateStructure(a) ==
  Locked(Only(a.activate, << Must("checkNew") >>) \o << Must("put") >>)
    \o Only(a.activate, << May("checkSaved"), Must("activate") >>)

HandleUpdateInterface(a) ==
  Locked(Only(a.activate, << Must("checkNew") >>) \o << Must("put") >>)
    \o Only(a.activate, << May("checkSaved"), Must("activate") >>)

\* The first request finds out whether the name is an include's, which is
\* refused; the source is read back before it is activated.
HandleUpdateProgram(a) ==
  << Must("probe") >>
    \o Locked(Only(a.activate, << Must("checkNew") >>) \o << Must("put") >>)
    \o << Must("readBack") >>
    \o Only(a.activate, << May("checkSaved"), Must("activate") >>)

-----------------------------------------------------------------------------
(* Handlers that check what the server holds after the write, still under  *)
(* the lock: a check that fails leaves the new version saved and inactive. *)

HandleUpdateDomain(a) ==
  Locked(<< Must("put"), Must("checkSaved") >>) \o << May("ask") >>
    \o Only(a.activate, << Must("activate") >>)

\* validate comes first; "already exists" is its expected answer.
HandleUpdateDataElement(a) ==
  << Must("ask") >> \o Locked(<< Must("put"), Must("checkSaved") >>)
    \o << May("ask") >> \o Only(a.activate, << Must("activate") >>)

HandleUpdateServiceDefinition(a) ==
  Locked(<< Must("put"), Must("checkSaved") >>) \o << May("ask") >>
    \o Only(a.activate, << Must("activate") >>)

HandleUpdateFunctionModule(a) ==
  Locked(<< Must("put"), Must("checkSaved") >>) \o << May("ask") >>
    \o Only(a.activate, << Must("activate") >>)

-----------------------------------------------------------------------------
(* Handlers that may be given the caller's own lock handle, and then       *)
(* neither lock nor unlock.                                                *)

\* Mutant of HandleUpdateBehaviorDefinition: it unlocks with any handle.
HandleUpdateBehaviorDefinitionUnlocking(a) ==
  Only(a.ownLock, << Must("lock") >>) \o << Must("put"), May("unlock") >>
    \o << May("ask") >> \o Only(a.activate, << Must("activate") >>)

HandleUpdateBehaviorDefinition(a) ==
  (IF a.ownLock THEN Locked(<< Must("put") >>) ELSE << Must("put") >>)
    \o << May("ask") >> \o Only(a.activate, << Must("activate") >>)

HandleUpdateMetadataExtension(a) ==
  (IF a.ownLock THEN Locked(<< Must("put") >>) ELSE << Must("put") >>)
    \o << May("ask") >> \o Only(a.activate, << Must("activate") >>)

-----------------------------------------------------------------------------
(* Handlers without a check.                                               *)

\* Reads the current XML under the lock and puts it back with a new
\* description.
HandleUpdateFunctionGroup(a) ==
  Locked(<< Must("ask"), Must("put") >>)

\* Reads the source back before it reports, and activates through the group
\* activation run, whose messages it inspects.
HandleUpdateInclude(a) ==
  Locked(<< Must("put") >>) \o << Must("readBack") >>
    \o Only(a.activate, << Must("activateGroup") >>)

-----------------------------------------------------------------------------
(* Handlers that leave lock, write, unlock and, when asked to, activation  *)
(* to one update() call of the client library.  The steps are those the    *)
(* tools' descriptions and results name; every error reaches the handler.  *)

UpdateChain(before, after, activate) ==
  Section(before \o << Must("put") >> \o after, Must("unlock"))
    \o Only(activate, << Must("activate") >>)

HandleUpdateLocalDefinitions(a) ==
  UpdateChain(<< Must("checkNew") >>, << >>, a.activate)
HandleUpdateLocalMacros(a) ==
  UpdateChain(<< Must("checkNew") >>, << >>, a.activate)
HandleUpdateLocalTestClass(a) ==
  UpdateChain(<< Must("checkNew") >>, << >>, a.activate)
HandleUpdateLocalTypes(a) ==
  UpdateChain(<< Must("checkNew") >>, << >>, a.activate)
HandleUpdateBehaviorImplementation(a) ==
  UpdateChain(<< >>, << Must("checkSaved") >>, a.activate)
HandleUpdateFunctionInclude(a) == UpdateChain(<< >>, << >>, a.activate)
HandleUpdateCdsUnitTest(a)     == UpdateChain(<< >>, << >>, FALSE)
HandleUpdateMessageClass(a)    == UpdateChain(<< >>, << >>, FALSE)
HandleUpdateMessageClassMessage(a) == UpdateChain(<< >>, << >>, FALSE)

\* Publishes or unpublishes the binding with one request, without a lock.
HandleUpdateServiceBinding(a) == << Must("publish") >>

-----------------------------------------------------------------------------
(* Which tools read back what, after the handler has answered.             *)

\* SOURCE_WRITE_TOOLS: every tool whose source is compared ...
SOURCE_WRITE_TOOLS ==
  {"UpdateProgram", "UpdateInclude", "UpdateClass", "UpdateInterface",
   "UpdateDdl", "UpdateMetadataExtension", "UpdateBehaviorDefinition",
   "UpdateServiceDefinition", "UpdateTable", "UpdateStructure",
   "UpdateFunctionModule", "UpdateLocalDefinitions", "UpdateLocalMacros",
   "UpdateLocalTestClass", "UpdateLocalTypes"}

\* ... and those of them that compare it themselves (verifiesInline).
VerifiesInline == {"UpdateProgram", "UpdateInclude"}

\* METADATA_WRITE_TOOLS, by the check they ask for.
METADATA_WRITE_TOOLS ==
  [description |-> {"UpdateDomain", "UpdateDataElement", "UpdateMessageClass",
                    "UpdateFunctionGroup"},
   changedAt   |-> {"UpdateServiceBinding"}]

\* Those whose reader can be asked for the inactive version too (hasVersions).
HasVersions == METADATA_WRITE_TOOLS.description \ {"UpdateMessageClass"}

\* Every tool that writes an object.
Tools == SOURCE_WRITE_TOOLS \cup METADATA_WRITE_TOOLS.description
           \cup METADATA_WRITE_TOOLS.changedAt
           \cup {"UpdateBehaviorImplementation", "UpdateFunctionInclude",
                 "UpdateCdsUnitTest", "UpdateMessageClassMessage"}

\* The tools with an `activate` argument, those that may be given a
\* lock_handle, and those the compact group routes to (compactRouterMap).
TakesActivate ==
  Tools \ (METADATA_WRITE_TOOLS.changedAt
             \cup {"UpdateFunctionGroup", "UpdateMessageClass",
                   "UpdateMessageClassMessage", "UpdateCdsUnitTest"})
TakesLockHandle == {"UpdateBehaviorDefinition", "UpdateMetadataExtension"}
CompactTools ==
  Tools \ {"UpdateInclude", "UpdateFunctionInclude", "UpdateMessageClass",
           "UpdateMessageClassMessage"}

Possible(a) ==
  /\ a.activate => a.tool \in TakesActivate
  /\ ~ a.ownLock => a.tool \in TakesLockHandle
  /\ a.surface = "compact" => a.tool \in CompactTools

Handler(a) ==
  CASE a.tool = "UpdateClass"                  -> HandleUpdateClass(a)
    [] a.tool = "UpdateDdl"                    -> HandleUpdateDdl(a)
    [] a.tool = "UpdateTable"                  -> HandleUpdateTable(a)
    [] a.tool = "UpdateStructure"              -> HandleUpdateStructure(a)
    [] a.tool = "UpdateInterface"              -> HandleUpdateInterface(a)
    [] a.tool = "UpdateProgram"                -> HandleUpdateProgram(a)
    [] a.tool = "UpdateDomain"                 -> HandleUpdateDomain(a)
    [] a.tool = "UpdateDataElement"            -> HandleUpdateDataElement(a)
    [] a.tool = "UpdateServiceDefinition"      -> HandleUpdateServiceDefinition(a)
    [] a.tool = "UpdateFunctionModule"         -> HandleUpdateFunctionModule(a)
    [] a.tool = "UpdateBehaviorDefinition"     -> HandleUpdateBehaviorDefinition(a)
    [] a.tool = "UpdateMetadataExtension"      -> HandleUpdateMetadataExtension(a)
    [] a.tool = "UpdateFunctionGroup"          -> HandleUpdateFunctionGroup(a)
    [] a.tool = "UpdateInclude"                -> HandleUpdateInclude(a)
    [] a.tool = "UpdateBehaviorImplementation" -> HandleUpdateBehaviorImplementation(a)
    [] a.tool = "UpdateFunctionInclude"        -> HandleUpdateFunctionInclude(a)
    [] a.tool = "UpdateLocalDefinitions"       -> HandleUpdateLocalDefinitions(a)
    [] a.tool = "UpdateLocalMacros"            -> HandleUpdateLocalMacros(a)
    [] a.tool = "UpdateLocalTestClass"         -> HandleUpdateLocalTestClass(a)
    [] a.tool = "UpdateLocalTypes"             -> HandleUpdateLocalTypes(a)
    [] a.tool = "UpdateCdsUnitTest"            -> HandleUpdateCdsUnitTest(a)
    [] a.tool = "UpdateMessageClass"           -> HandleUpdateMessageClass(a)
    [] a.tool = "UpdateMessageClassMessage"    -> HandleUpdateMessageClassMessage(a)
    [] a.tool = "UpdateServiceBinding"         -> HandleUpdateServiceBinding(a)

\* withWriteVerification: the read-back that follows a successful handler.
WithWriteVerification(a, steps) ==
  steps \o Only(a.tool \in SOURCE_WRITE_TOOLS \ VerifiesInline,
                << May("verify") >>)

\* withMetadataVerification: a description read back afterwards, or SAP's
\* change timestamp read before and after.  A reader that knows versions
\* reads the active one first, then the inactive one.
WithMetadataVerification(a, steps) ==
  IF a.tool \in METADATA_WRITE_TOOLS.changedAt
    THEN << May("stamp") >> \o (steps \o << May("verifyStamp") >>)
    ELSE steps \o Only(a.tool \in HasVersions, << May("findActive") >>)
               \o Only(a.tool \in METADATA_WRITE_TOOLS.description,
                       << May("verifyField") >>)

\* A tool of the high-level group carries the wrappers; the compact group
\* (HandlerUpdate) calls the same handler bare.
Program(a) ==
  IF a.surface = "high"
    THEN WithMetadataVerification(a, WithWriteVerification(a, Handler(a)))
    ELSE Handler(a)

=============================================================================
