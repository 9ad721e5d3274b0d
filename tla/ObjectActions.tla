---------------------------- MODULE ObjectActions ----------------------------
(***************************************************************************)
(* The actions on objects of the plugins object_actions and                *)
(* special_objects: the user chooses an object that a Device Agent has     *)
(* generated and an action that the manifest of the Engine offers for its  *)
(* type, fills in the parameters, and the Server calls the Engine, which   *)
(* answers with a message or with the address of a page.                   *)
(*                                                                         *)
(* A message, and an address, is the set of the facts that it tells, each  *)
(* with its name.                                                          *)
(***************************************************************************)
EXTENDS Integers, FiniteSets, TLC

CONSTANTS
  PictureWidth, BoxWidth,   (* Of object_actions, in steps of its object.  *)
  MaxActionTracks           (* Bound: the tracks that are generated.       *)

ASSUME PictureAssumption == PictureWidth \in Nat /\ BoxWidth \in 1..PictureWidth

VARIABLES
  actionPlugin,   (* The plugin.                                           *)
  boxX,           (* m_trackContext.boundingBox.x                          *)
  sentTracks,     (* Tracks that the Server has got, with their types.     *)
  request,        (* The action that the Server has called last.           *)
  outcome         (* What the Engine has answered.                         *)

actionVars == <<actionPlugin, boxX, sentTracks, request, outcome>>

----------------------------------------------------------------------------
(* What the manifests say. *)

kObjectTypeId == "nx.stub.objectTypeWithActions"
kFixedObjectType == "nx.stub.fixedObject"
kPointObjectType == "nx.stub.pointObject"

(* The parameters that the user fills in, with their default values.       *)
ActionParameters ==
  [testTextField |-> "a text", testSpinBox |-> "42", testDoubleSpinBox |-> "3.1415",
   testComboBox |-> "value2", testCheckBox |-> "true"]
ActionParametersWithArea ==
  [testTextField |-> "a text", testSpinBox |-> "42", testDoubleSpinBox |-> "3.1415",
   testComboBox |-> "value2", testCheckBox |-> "true", testTextArea |-> ""]
NoParameters == [n \in {} |-> ""]

OfferedAction(action, type, parameters, needs) ==
  [id |-> action, types |-> {type}, parameters |-> parameters, needs |-> needs]
WholeTrack == {"frame", "metadata", "track"}

ObjectActionsManifest ==
  {OfferedAction("nx.stub.objectActionWithMessageResult", kObjectTypeId, NoParameters, {}),
   OfferedAction("nx.stub.objectActionWithUrlResult", kObjectTypeId, NoParameters, {}),
   OfferedAction("nx.stub.objectActionWithParameters", kObjectTypeId,
                 ActionParametersWithArea, {}),
   OfferedAction("nx.stub.objectActionWithRequirements", kObjectTypeId, NoParameters,
                 WholeTrack)}

SpecialActionsManifest ==
  {OfferedAction("nx.stub.addToList", kFixedObjectType, ActionParameters, WholeTrack),
   OfferedAction("nx.stub.addPerson", kFixedObjectType, NoParameters, {})}

OfferedActions ==
  IF actionPlugin = "object_actions" THEN ObjectActionsManifest ELSE SpecialActionsManifest

(* The types that the Device Agent is allowed to generate.                 *)
SupportedTypes ==
  IF actionPlugin = "object_actions" THEN {kObjectTypeId}
  ELSE {kFixedObjectType, "nx.stub.blinkingObject", "nx.stub.counter", kPointObjectType}

----------------------------------------------------------------------------
(* Objects. *)

NoRequest == [action |-> "none"]
NoOutcome == [error |-> "none", url |-> {}, message |-> {}]

ActionInit ==
  /\ actionPlugin \in {"object_actions", "special_objects"}
  /\ boxX = 0 /\ sentTracks = {}
  /\ request = NoRequest /\ outcome = NoOutcome

(* generateObject(): the box moves to the right, and a new track begins    *)
(* after it has crossed the edge.                                          *)
GenerateObject ==
  /\ actionPlugin = "object_actions"
  /\ LET count == Cardinality(sentTracks)
     IN \/ /\ count = 0 \/ boxX + BoxWidth > PictureWidth
           /\ count < MaxActionTracks
           /\ sentTracks' = sentTracks \union {[id |-> ToString(count + 1), type |-> kObjectTypeId]}
           /\ boxX' = 0
        \/ /\ count # 0 /\ boxX + BoxWidth <= PictureWidth
           /\ boxX' = boxX + 1
           /\ UNCHANGED sentTracks
  /\ UNCHANGED <<actionPlugin, request, outcome>>

(* The objects of special_objects are generated as their settings say; the *)
(* Server drops those whose type is not supported.                         *)
GenerateSpecialObject ==
  /\ actionPlugin = "special_objects"
  /\ \E type \in {kFixedObjectType, kPointObjectType, "nx.stub.emptyNameObject"} :
       sentTracks' = sentTracks \union
                       {[id |-> t, type |-> t] : t \in {type} \intersect SupportedTypes}
  /\ UNCHANGED <<actionPlugin, boxX, request, outcome>>

----------------------------------------------------------------------------
(* Actions. *)

NoInfo == [known |-> FALSE, facts |-> {}]

(* What the Server can tell of a track: what the action needs, as far as   *)
(* it is available, or nothing at all.                                     *)
TrackInfos(needs) == {NoInfo} \union [known : {TRUE}, facts : SUBSET needs]

Parameters(values) == {<<n, values[n]>> : n \in DOMAIN values}

(* bestShotVideoFrame() and bestShotObjectMetadata(), or "null" for each.  *)
Described(info) ==
  IF info.known THEN {<<"info", f>> : f \in info.facts \intersect {"frame", "metadata"}}
  ELSE {<<"info", "null">>}

(* commonMessageToUser()                                                   *)
CommonMessage(track, info) ==
  {<<"track", track.id>>, <<"device", "chosen">>, <<"timestamp", "chosen">>}
    \union Described(info)

WithMessage(message) == [error |-> "none", url |-> {}, message |-> message]
WithUrl(url) == [error |-> "none", url |-> url, message |-> {}]
WithError(code) == [error |-> code, url |-> {}, message |-> {}]

(* Engine::executeAction() of object_actions.                              *)
ExecuteObjectAction(action, track, info, params) ==
  CASE action \in {"nx.stub.objectActionWithMessageResult",
                   "nx.stub.objectActionWithRequirements"} ->
         WithMessage(CommonMessage(track, info))
    [] action = "nx.stub.objectActionWithUrlResult" -> WithUrl({<<"page", "https://example.com">>})
    [] action = "nx.stub.objectActionWithParameters" ->
         WithMessage(CommonMessage(track, info) \union Parameters(params))
    [] OTHER -> NoOutcome

(* A mutant: the address is made for every action.                         *)
ExecuteWithAddress(action, track, info, params) ==
  [error |-> "none", url |-> {<<"page", "prefix">>, <<"track", track.id>>},
   message |-> IF action = "nx.stub.addToList"
               THEN {<<"track", track.id>>} \union Described(info) \union Parameters(params) ELSE {}]

(* Engine::executeAction() of special_objects.                             *)
ExecuteSpecialAction(action, track, info, params) ==
  CASE action = "nx.stub.addToList" ->
         WithMessage({<<"track", track.id>>} \union Described(info) \union Parameters(params))
    [] action = "nx.stub.addPerson" -> WithUrl({<<"page", "prefix">>, <<"track", track.id>>})
    [] OTHER -> WithError("invalidParams")

(* convertAndOutputStringMap() refuses a null pointer, and doExecuteAction() *)
(* with it.                                                                *)
NullParams == [n \in {"null"} |-> "null"]

DoExecuteAction(action, track, info, params) ==
  IF params = NullParams THEN WithError("invalidParams")
  ELSE IF actionPlugin = "object_actions"
       THEN ExecuteObjectAction(action, track, info, params)
       ELSE ExecuteSpecialAction(action, track, info, params)

(* The user has left the parameters as they were, or changed one; where an *)
(* action has none, the map may be null or empty.                          *)
FilledIn(parameters) ==
  {parameters}
    \union {[parameters EXCEPT ![n] = "changed"] : n \in DOMAIN parameters}
    \union (IF parameters = NoParameters THEN {NullParams} ELSE {})

Requested(action, track, info, params) ==
  /\ request' = [action |-> action, track |-> track, info |-> info, params |-> params]
  /\ outcome' = DoExecuteAction(action, track, info, params)
  /\ UNCHANGED <<actionPlugin, boxX, sentTracks>>

(* The object may have left the picture since the user saw it.             *)
ChooseAction ==
  \E track \in sentTracks, offered \in OfferedActions :
    /\ track.type \in offered.types
    /\ \E info \in TrackInfos(offered.needs), params \in FilledIn(offered.parameters) :
         Requested(offered.id, track, info, params)

(* An action that the manifest of another version has offered.             *)
ChooseFormerAction ==
  \E track \in sentTracks : Requested("former", track, NoInfo, NoParameters)

ActionNext ==
  \/ GenerateObject
  \/ GenerateSpecialObject
  \/ ChooseAction
  \/ ChooseFormerAction

ActionSpec == ActionInit /\ [][ActionNext]_actionVars

----------------------------------------------------------------------------
(* Everything that can be chosen is about objects that can be there.       *)
ActionsAreAvailable ==
  \A offered \in OfferedActions : offered.types \subseteq SupportedTypes

IsOffered == \E offered \in OfferedActions : request.action = offered.id

(* What a message should tell the user: the object he has chosen, what he  *)
(* has filled in, and what the Server knows of the track.                  *)
Expected ==
  {<<"track", request.track.id>>} \union Parameters(request.params)
    \union {<<"info", f>> : f \in request.info.facts \ {"track"}}

(* Every action that is offered for an object does what it is made for: it *)
(* answers with an address or with a message, never both (which the Client *)
(* could not show), the message loses nothing that was supplied for it, and*)
(* an address made for an object is that of the chosen one, even when      *)
(* another object has taken its place.  Null parameters, which params() of *)
(* IAction announces for an action without any, are an error, and nothing  *)
(* else is answered then.                                                  *)
ActionsAreAnswered ==
  /\ ActionsAreAvailable
  /\ outcome.url = {} \/ outcome.message = {}
  /\ IsOffered /\ request.params # NullParams =>
       /\ outcome.error = "none"
       /\ outcome.url # {} \/ Expected \subseteq outcome.message
       /\ <<"page", "prefix">> \in outcome.url => <<"track", request.track.id>> \in outcome.url
  /\ IsOffered /\ request.params = NullParams => outcome = WithError("invalidParams")

=============================================================================
