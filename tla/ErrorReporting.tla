--------------------------- MODULE ErrorReporting ---------------------------
(***************************************************************************)
(* The plugin error_reporting, which fails as its .ini file tells it: at   *)
(* the creation of its objects, in their manifests, at every way to        *)
(* settings and, from time to time, at a frame.  With it the handling of   *)
(* errors in the Server is tested, so it must fail there and nowhere else. *)
(***************************************************************************)
EXTENDS Integers, Sequences, FiniteSets

CONSTANTS
  ErrorPeriod,      (* Frames from one failure to the next.                *)
  MaxErrorFrames,   (* Bound: the frames.                                  *)
  MaxErrorFlags     (* Bound: the flags that are set.                      *)

ASSUME PeriodAssumption == ErrorPeriod \in Nat \ {0}

kNoError == "noError"
kErrorInsteadOfSettingsResponse == "errorInsteadOfSettingsResponse"
kSettingsResponseWithError == "settingsResponseWithError"

(* The parameters of the .ini file.                                        *)
ErrorFlags ==
  {"errorOnPushCompressedFrame", "returnIncorrectIntegrationManifest",
   "returnIncorrectEngineManifest", "returnIncorrectDeviceAgentManifest",
   "returnNullOnEngineCreation", "returnErrorOnEngineCreation",
   "returnErrorOnDeviceAgentCreation", "returnNullOnDeviceAgentCreation"}
ErrorParameters ==
  {"returnErrorFromEngineSetSettings", "returnErrorFromEngineActiveSettingChange",
   "returnErrorFromEngineOnGetIntegrationSideSettings",
   "returnErrorFromDeviceAgentSetSettings",
   "returnErrorFromDeviceAgentActiveSettingChange",
   "returnErrorFromDeviceAgentOnGetIntegrationSideSettings"}

VARIABLES
  errorFlags,         (* Flags that are set.                               *)
  errorParameters,    (* Values of the other parameters.                   *)
  errorEngine,        (* "none", or what doObtainEngine() has returned.    *)
  errorAgent,         (* The same of doObtainDeviceAgent().                *)
  handlerIsSet,       (* The Device Agent has a handler.                   *)
  errorFrameCount,    (* m_frameCount                                      *)
  reply,              (* The answer to the last call.                      *)
  failedFrames        (* History: the frames that have failed.             *)

errorVars == <<errorFlags, errorParameters, errorEngine, errorAgent, handlerIsSet,
               errorFrameCount, reply, failedFrames>>

Creations == {"none", "null", "error", "object"}
ErrorTypeOK ==
  /\ errorFlags \subseteq ErrorFlags
  /\ DOMAIN errorParameters = ErrorParameters
  /\ errorEngine \in Creations /\ errorAgent \in Creations
  /\ handlerIsSet \in BOOLEAN
  /\ errorFrameCount \in 0..MaxErrorFrames /\ failedFrames \subseteq 1..MaxErrorFrames

ReplyOf(of, call, kind, text) == [of |-> of, call |-> call, kind |-> kind, text |-> text]

(* One parameter at most is not the default; it may also be mistyped.      *)
ErrorInit ==
  /\ errorFlags \in {f \in SUBSET ErrorFlags : Cardinality(f) <= MaxErrorFlags}
  /\ errorParameters \in
       {[q \in ErrorParameters |-> IF q = p THEN v ELSE kNoError] :
          p \in ErrorParameters,
          v \in {kNoError, kErrorInsteadOfSettingsResponse, kSettingsResponseWithError,
                 "mistyped"}}
  /\ errorEngine = "none" /\ errorAgent = "none" /\ handlerIsSet = FALSE
  /\ errorFrameCount = 0 /\ failedFrames = {}
  /\ reply = ReplyOf("Engine", "none", "value", "")

----------------------------------------------------------------------------
(* Creation. *)

Created(null, failure) ==
  IF null \in errorFlags THEN "null" ELSE IF failure \in errorFlags THEN "error" ELSE "object"

ReplyOfCreation(of, creation) ==
  ReplyOf(of, "creation", IF creation = "error" THEN "error" ELSE "value", creation)

MakeEngine ==
  /\ errorEngine = "none"
  /\ errorEngine' = Created("returnNullOnEngineCreation", "returnErrorOnEngineCreation")
  /\ reply' = ReplyOfCreation("Engine", errorEngine')
  /\ UNCHANGED <<errorFlags, errorParameters, errorAgent, handlerIsSet, errorFrameCount,
                 failedFrames>>

MakeDeviceAgent ==
  /\ errorEngine = "object" /\ errorAgent = "none"
  /\ errorAgent' =
       Created("returnNullOnDeviceAgentCreation", "returnErrorOnDeviceAgentCreation")
  /\ reply' = ReplyOfCreation("DeviceAgent", errorAgent')
  /\ UNCHANGED <<errorFlags, errorParameters, errorEngine, handlerIsSet, errorFrameCount,
                 failedFrames>>

SetErrorHandler ==
  /\ errorAgent = "object" /\ ~handlerIsSet
  /\ handlerIsSet' = TRUE
  /\ UNCHANGED <<errorFlags, errorParameters, errorEngine, errorAgent, errorFrameCount,
                 reply, failedFrames>>

----------------------------------------------------------------------------
(* Manifests: the items of a dialog are in the manifest of the parent, and *)
(* an incorrect manifest has none.                                         *)

EngineItems ==
  {"Test Engine's setSettings", "Test Engine's Active Settings",
   "Engine SetSettings Error Key", "Engine GetSettingsOnActiveSettingChange Error Key",
   "Engine getIntegrationSideSettings Error Key"}
DeviceAgentItems ==
  {"Test Device Agent's setSettings", "Test Device Agent's Active Settings",
   "DeviceAgent SetSettings Error Key",
   "DeviceAgent GetSettingsOnActiveSettingChange Error Key",
   "DeviceAgent getIntegrationSideSettings Error Key"}

ItemsOf(of) ==
  IF of = "Engine"
  THEN IF "returnIncorrectIntegrationManifest" \in errorFlags THEN {} ELSE EngineItems
  ELSE IF "returnIncorrectEngineManifest" \in errorFlags THEN {} ELSE DeviceAgentItems

----------------------------------------------------------------------------
(* Settings: an error, an answer with an error at a key, or no answer.     *)

SettingsCall(of, call, parameter, key) ==
  /\ reply' =
       CASE errorParameters[parameter] = kErrorInsteadOfSettingsResponse ->
              ReplyOf(of, call, "error", "internalError")
         [] errorParameters[parameter] = kSettingsResponseWithError ->
              ReplyOf(of, call, "responseWithError", key)
         [] OTHER -> ReplyOf(of, call, "value", "")
  /\ UNCHANGED <<errorFlags, errorParameters, errorEngine, errorAgent, handlerIsSet,
                 errorFrameCount, failedFrames>>

EngineSetSettings ==
  /\ errorEngine = "object"
  /\ SettingsCall("Engine", "settings", "returnErrorFromEngineSetSettings",
                  "Engine SetSettings Error Key")

(* The user changes the active item, if the Server has got it.             *)
EngineActiveSettingChange ==
  /\ errorEngine = "object" /\ "Test Engine's Active Settings" \in ItemsOf("Engine")
  /\ SettingsCall("Engine", "active", "returnErrorFromEngineActiveSettingChange",
                  "Engine GetSettingsOnActiveSettingChange Error Key")

EngineGetIntegrationSideSettings ==
  /\ errorEngine = "object"
  /\ SettingsCall("Engine", "integration", "returnErrorFromEngineOnGetIntegrationSideSettings",
                  "Engine getIntegrationSideSettings Error Key")

DeviceAgentSetSettings ==
  /\ errorAgent = "object"
  /\ SettingsCall("DeviceAgent", "settings", "returnErrorFromDeviceAgentSetSettings",
                  "DeviceAgent SetSettings Error Key")

(* A mutant: the text of another key.                                      *)
DeviceAgentChangeWithOtherKey ==
  /\ errorAgent = "object" /\ "Test Device Agent's Active Settings" \in ItemsOf("DeviceAgent")
  /\ SettingsCall("DeviceAgent", "active", "returnErrorFromDeviceAgentActiveSettingChange",
                  "DeviceAgent ActiveSettingChange Error Key")

DeviceAgentActiveSettingChange ==
  /\ errorAgent = "object" /\ "Test Device Agent's Active Settings" \in ItemsOf("DeviceAgent")
  /\ SettingsCall("DeviceAgent", "active", "returnErrorFromDeviceAgentActiveSettingChange",
                  "DeviceAgent GetSettingsOnActiveSettingChange Error Key")

DeviceAgentGetIntegrationSideSettings ==
  /\ errorAgent = "object"
  /\ SettingsCall("DeviceAgent", "integration",
                  "returnErrorFromDeviceAgentOnGetIntegrationSideSettings",
                  "DeviceAgent getIntegrationSideSettings Error Key")

----------------------------------------------------------------------------
(* Frames. *)

(* doPushDataPacket() with a frame: pushCompressedVideoFrame() counts it   *)
(* and may fail, and then the handler is asked for.                        *)
PushFrame ==
  /\ errorAgent = "object" /\ errorFrameCount < MaxErrorFrames
  /\ errorFrameCount' = errorFrameCount + 1
  /\ LET fails == /\ "errorOnPushCompressedFrame" \in errorFlags
                  /\ errorFrameCount' % ErrorPeriod = 0
         code == IF fails THEN "otherError" ELSE IF handlerIsSet THEN "" ELSE "internalError"
     IN /\ reply' =
             ReplyOf("DeviceAgent", "frame", IF code = "" THEN "value" ELSE "error", code)
        /\ failedFrames' = failedFrames \union
             (IF reply'.text = "otherError" THEN {errorFrameCount'} ELSE {})
  /\ UNCHANGED <<errorFlags, errorParameters, errorEngine, errorAgent, handlerIsSet>>

(* A packet that is null or has a negative timestamp is not a frame.       *)
PushInvalidPacket ==
  /\ errorAgent = "object"
  /\ reply' = ReplyOf("DeviceAgent", "frame", "error", "invalidParams")
  /\ UNCHANGED <<errorFlags, errorParameters, errorEngine, errorAgent, handlerIsSet,
                 errorFrameCount, failedFrames>>

ErrorNext ==
  \/ MakeEngine \/ MakeDeviceAgent \/ SetErrorHandler
  \/ EngineSetSettings \/ EngineActiveSettingChange \/ EngineGetIntegrationSideSettings
  \/ DeviceAgentSetSettings \/ DeviceAgentActiveSettingChange
  \/ DeviceAgentGetIntegrationSideSettings
  \/ PushFrame \/ PushInvalidPacket

ErrorSpec == ErrorInit /\ [][ErrorNext]_errorVars

----------------------------------------------------------------------------
(* The parameter that is described as that of a call.                      *)
ParameterOf ==
  [Engine |->
     [settings |-> "returnErrorFromEngineSetSettings",
      active |-> "returnErrorFromEngineActiveSettingChange",
      integration |-> "returnErrorFromEngineOnGetIntegrationSideSettings"],
   DeviceAgent |->
     [settings |-> "returnErrorFromDeviceAgentSetSettings",
      active |-> "returnErrorFromDeviceAgentActiveSettingChange",
      integration |-> "returnErrorFromDeviceAgentOnGetIntegrationSideSettings"]]

(* Settings fail as the parameter of their own object and call says, and an*)
(* error at a key can be shown, because the dialog of that object, if there*)
(* is one, has an item of this name.                                       *)
SettingsFailAsAsked ==
  reply.call \in {"settings", "active", "integration"} =>
    LET asked == errorParameters[ParameterOf[reply.of][reply.call]]
    IN /\ reply.kind = "error" <=> asked = kErrorInsteadOfSettingsResponse
       /\ reply.kind = "responseWithError" <=> asked = kSettingsResponseWithError
       /\ reply.kind = "responseWithError" /\ ItemsOf(reply.of) # {} =>
            reply.text \in ItemsOf(reply.of)

(* Frames fail one in so many, whatever other errors come between.         *)
FramesFailAsAsked ==
  failedFrames =
    IF "errorOnPushCompressedFrame" \in errorFlags
    THEN {n \in 1..errorFrameCount : n % ErrorPeriod = 0} ELSE {}

(* At settings and frames the plugin fails as its .ini file says and not   *)
(* otherwise, whatever has failed before: the texts of the keys in the     *)
(* manifests and in the handlers agree, and no error of one call is the    *)
(* answer to another.  (How creation and manifests fail is only modelled:  *)
(* it decides which calls there are.)                                      *)
ErrorsAreAsAsked == SettingsFailAsAsked /\ FramesFailAsAsked

=============================================================================
