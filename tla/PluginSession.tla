---------------------------- MODULE PluginSession ----------------------------
(***************************************************************************)
(* A plugin library in the hands of analytics_plugin_ut, which does with   *)
(* it what the Server does: it takes the Integrations one by one, obtains  *)
(* an Engine and a Device Agent, calls them and unloads the library.       *)
(*                                                                         *)
(* Every assertion of the test may fail, which is an exception: what the   *)
(* test holds is then released by destructors, and the library is not      *)
(* unloaded.  The plugin is made of the base classes Integration, Engine   *)
(* and ConsumingDeviceAgent; what it answers is its own choice.            *)
(***************************************************************************)
EXTENDS Integers, Sequences, FiniteSets, SequencesExt

CONSTANT InstanceCount      (* Integrations of the library.                *)
ASSUME InstanceAssumption == InstanceCount \in Nat

Nothing == "nothing"

(* Objects with a counter of references.  Those of the plugin must not     *)
(* outlive its library; the others are the Server's.                       *)
PluginObjects == {"integration", "engine", "agent", "text", "message"}
Objects == PluginObjects \union {"provider", "engineHandler", "agentHandler", "deviceInfo"}

VARIABLES
  point,      (* The next thing that the test does.                        *)
  instance,   (* instanceIndex                                             *)
  held,       (* References in local variables of the test, outermost first. *)
  refs,       (* The counter of each object, 0 when it does not exist.     *)
  member,     (* m_utilityProvider and m_handler, which hold a reference.  *)
  dying,      (* Objects whose destructors run.                            *)
  loaded,     (* The library is loaded.                                    *)
  failed      (* An assertion of the test has failed.                      *)

sessionVars == <<point, instance, held, refs, member, dying, loaded, failed>>

SessionTypeOK ==
  /\ instance \in 0..InstanceCount
  /\ held \in Seq(Objects) /\ dying \in Seq(Objects)
  /\ refs \in [Objects -> Nat]
  /\ member \in [Objects -> Objects \union {Nothing}]
  /\ loaded \in BOOLEAN /\ failed \in BOOLEAN

SessionInit ==
  /\ point = "load" /\ instance = 0
  /\ held = <<>> /\ dying = <<>>
  /\ refs = [o \in Objects |-> 0]
  /\ member = [o \in Objects |-> Nothing]
  /\ loaded = FALSE /\ failed = FALSE

----------------------------------------------------------------------------
(* The destructors of the plugin's objects run before the test goes on.    *)
Running(p) == point = p /\ dying = <<>>

Hold(o, next) ==
  /\ held' = Append(held, o)
  /\ refs' = [refs EXCEPT ![o] = @ + 1]
  /\ point' = next
  /\ UNCHANGED <<instance, member, dying, loaded, failed>>

GoTo(next) ==
  point' = next /\ UNCHANGED <<instance, held, refs, member, dying, loaded, failed>>

(* An assertion that fails.                                                *)
Throw ==
  /\ point' = "leave" /\ failed' = TRUE
  /\ UNCHANGED <<instance, held, refs, member, dying, loaded>>

(* ~RefCountableResultHolder(), ~Ptr(): the last local variable goes.      *)
Drop ==
  LET o == Last(held)
  IN /\ held' = Front(held)
     /\ refs' = [refs EXCEPT ![o] = @ - 1]
     /\ dying' = IF refs[o] = 1 THEN Append(dying, o) ELSE dying

(* The members of an object are released by its destructor.                *)
DestroyMembers ==
  /\ dying # <<>>
  /\ LET o == Head(dying)
         m == member[o]
         isLast == m # Nothing /\ refs[m] = 1
     IN /\ refs' = IF m = Nothing THEN refs ELSE [refs EXCEPT ![m] = @ - 1]
        /\ member' = [member EXCEPT ![o] = Nothing]
        /\ dying' = Tail(dying) \o (IF isLast THEN <<m>> ELSE <<>>)
  /\ UNCHANGED <<point, instance, held, loaded, failed>>

(* setHandler() and setUtilityProvider(): the test passes an object that   *)
(* only a temporary holds, and the owner shares it.  A mutant,             *)
(* `GiveUnshared`, keeps the pointer only.                                 *)
GiveUnshared(object, owner, next) ==
  /\ member' = [member EXCEPT ![owner] = object]
  /\ point' = next
  /\ UNCHANGED <<instance, held, refs, dying, loaded, failed>>

Give(object, owner, next) ==
  /\ refs' = [refs EXCEPT ![object] = @ + 1]
  /\ member' = [member EXCEPT ![owner] = object]
  /\ point' = next
  /\ UNCHANGED <<instance, held, dying, loaded, failed>>

----------------------------------------------------------------------------
(* The library *)

(* loadLib()                                                               *)
Load ==
  /\ Running("load")
  /\ point' = "integration" /\ loaded' = TRUE
  /\ UNCHANGED <<instance, held, refs, member, dying, failed>>

(* createNxPluginByIndex(), until it returns null.                         *)
CreatePluginByIndex ==
  /\ Running("integration") /\ instance < InstanceCount
  /\ Hold("integration", "selected")

(* unloadLib()                                                             *)
Unload ==
  /\ Running("integration") /\ instance = InstanceCount
  /\ point' = "end" /\ loaded' = FALSE
  /\ UNCHANGED <<instance, held, refs, member, dying, failed>>

(* g_integrationInstanceIndex may choose one Integration; testIntegration()*)
(* has a reference of its own.                                             *)
SelectInstance ==
  /\ Running("selected")
  /\ GoTo("leave") \/ Hold("integration", "provider")

SetUtilityProvider == Running("provider") /\ Give("provider", "integration", "query")

(* queryInterface<analytics::IIntegration>()                               *)
QueryInterface ==
  /\ Running("query")
  /\ GoTo("leave") \/ Hold("integration", "manifest")

----------------------------------------------------------------------------
(* A result is held while it is looked at; one of the two may be an error, *)
(* which has a message, and a value may be null.                           *)

(* manifest(), setSettings(), pushDataPacket() and the others: the answer  *)
(* is a new text or response, an error, or nothing.                        *)
Answer(next) == Hold("text", next) \/ Hold("message", next) \/ GoTo(next)

HoldsText == held # <<>> /\ Last(held) = "text"
HoldsMessage == held # <<>> /\ Last(held) = "message"

(* The answer is dropped, if there is one, and the test goes on.           *)
Forget(next) ==
  /\ \/ HoldsText \/ HoldsMessage
     \/ UNCHANGED <<held, refs, dying>>
  /\ HoldsText \/ HoldsMessage => Drop
  /\ point' = next
  /\ UNCHANGED <<instance, member, loaded, failed>>

(* An object is obtained, or a null, or an error.                          *)
Obtain(object, next) == Hold(object, next) \/ Hold("message", next) \/ GoTo(next)

Asked(at, next) == Running(at) /\ Answer(next)

(* ASSERT_TRUE(result.isOk()), and that the manifest is a JSON object.     *)
TextIsGood(at, next) == Running(at) /\ (Throw \/ (HoldsText /\ Forget(next)))

(* Settings may be refused.                                                *)
IsOk(at, next) == Running(at) /\ (IF HoldsMessage THEN Throw ELSE Forget(next))
IsAny(at, next) == Running(at) /\ Forget(next)

----------------------------------------------------------------------------
(* The calls *)

(* testAnalyticsIntegrationManifest()                                      *)
TestIntegrationManifest ==
  Asked("manifest", "manifestText") \/ TextIsGood("manifestText", "createEngine")

(* Integration::doCreateEngine()                                           *)
CreateEngine == Running("createEngine") /\ Obtain("engine", "engine")

IsEngine ==
  /\ Running("engine")
  /\ IF Last(held) = "engine" THEN GoTo("engineHandler") ELSE Throw

SetEngineHandler ==
  Running("engineHandler") /\ Give("engineHandler", "engine", "engineManifest")

TestEngineManifest ==
  \/ Asked("engineManifest", "engineText")
  \/ TextIsGood("engineText", "emptySettings")

(* testEngineSettings(): empty settings must be taken, others need not.    *)
TestEngineSettings ==
  \/ Asked("emptySettings", "emptyAnswer") \/ IsOk("emptyAnswer", "settings")
  \/ Asked("settings", "answer") \/ IsAny("answer", "deviceDependent")

(* The capabilities in the manifest.                                       *)
IsDeviceDependent ==
  /\ Running("deviceDependent")
  /\ GoTo("leave") \/ Hold("deviceInfo", "obtainAgent")

ObtainDeviceAgent == Running("obtainAgent") /\ Obtain("agent", "agent")

IsAgent ==
  /\ Running("agent")
  /\ IF Last(held) = "agent" THEN GoTo("compressed") ELSE Throw

(* "needUncompressedVideoFrames", and queryInterface<IConsumingDeviceAgent>() *)
QueryConsuming ==
  /\ Running("compressed")
  /\ GoTo("leave") \/ Throw \/ Hold("agent", "agentHandler")

SetAgentHandler == Running("agentHandler") /\ Give("agentHandler", "agent", "agentManifest")

TestAgentManifest ==
  \/ Asked("agentManifest", "agentText")
  \/ TextIsGood("agentText", "emptyAgentSettings")

(* testDeviceAgentSettings(): without empty settings the test ends here.   *)
TestAgentSettings ==
  \/ Asked("emptyAgentSettings", "emptyAgentAnswer")
  \/ /\ Running("emptyAgentAnswer")
     /\ Forget(IF HoldsMessage THEN "lastSettings" ELSE "agentSettings")
  \/ Asked("lastSettings", "lastAnswer") \/ IsAny("lastAnswer", "leave")
  \/ Asked("agentSettings", "agentAnswer") \/ IsAny("agentAnswer", "types")

(* setNeededMetadataTypes() and pushDataPacket(): nothing, or an error.    *)
TestAgentCalls ==
  \/ Running("types") /\ (Hold("message", "typesAnswer") \/ GoTo("typesAnswer"))
  \/ IsOk("typesAnswer", "packet")
  \/ Running("packet") /\ (Hold("message", "packetAnswer") \/ GoTo("packetAnswer"))
  \/ IsAny("packetAnswer", "leave")

----------------------------------------------------------------------------
(* The local variables go, the last first: at the end of an Integration,   *)
(* or when an exception passes.                                            *)
LeaveScope ==
  /\ Running("leave") /\ held # <<>>
  /\ Drop
  /\ UNCHANGED <<point, instance, member, loaded, failed>>

NextInstance ==
  /\ Running("leave") /\ held = <<>>
  /\ IF failed THEN point' = "end" /\ UNCHANGED instance
     ELSE point' = "integration" /\ instance' = instance + 1
  /\ UNCHANGED <<held, refs, member, dying, loaded, failed>>

SessionNext ==
  \/ Load \/ CreatePluginByIndex \/ Unload \/ SelectInstance
  \/ SetUtilityProvider \/ QueryInterface \/ TestIntegrationManifest
  \/ CreateEngine \/ IsEngine \/ SetEngineHandler \/ TestEngineManifest
  \/ TestEngineSettings \/ IsDeviceDependent
  \/ ObtainDeviceAgent \/ IsAgent \/ QueryConsuming \/ SetAgentHandler
  \/ TestAgentManifest \/ TestAgentSettings \/ TestAgentCalls
  \/ DestroyMembers \/ LeaveScope \/ NextInstance

SessionSpec == SessionInit /\ [][SessionNext]_sessionVars

----------------------------------------------------------------------------
(* Whatever the plugin answers and wherever an assertion fails, nothing of *)
(* the plugin is alive when its library is unloaded, and at the end of the *)
(* test nothing is; until then a Device Agent has its Engine, an Engine    *)
(* its Integration, to which they keep plain pointers, and their handlers. *)
NothingOutlivesItsOwner ==
  /\ ~loaded => \A o \in PluginObjects : refs[o] = 0
  /\ Running("end") => \A o \in Objects : refs[o] = 0
  /\ refs["agent"] > 0 => refs["engine"] > 0
  /\ refs["engine"] > 0 => refs["integration"] > 0
  /\ \A o \in Objects : member[o] # Nothing => refs[member[o]] > 0

=============================================================================
