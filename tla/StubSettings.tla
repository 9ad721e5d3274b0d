---------------------------- MODULE StubSettings ----------------------------
(***************************************************************************)
(* The settings dialogs of the plugins and what Device Agents read of      *)
(* them.  A dialog is a JSON text in one file, and its settings are read   *)
(* by name in another; the Server keeps the dialog, lets the user change   *)
(* it, and sends the values of its items as texts.  Some plugins answer    *)
(* with another dialog or other values.                                    *)
(*                                                                         *)
(* An item is reduced to its default and to a few choices of the user.     *)
(* The active items of the stub plugin's settings are in ActiveSettings.   *)
(***************************************************************************)
EXTENDS Integers, Sequences, FiniteSets, TLC

CONSTANTS
  TypeIds, DefaultTypeIds,  (* Types of the object detection, and those    *)
                            (* generated by default.                       *)
  StreamTypeIds,            (* Types of each object stream, by its path.   *)
  MaxChoices                (* Bound: the settings that the user touches,  *)
                            (* but for those that change the dialog.       *)

DefaultPath == "object_streamer/stream.json"

TypeSetting(prefix, type) == prefix \o type

(* Members are named by settings and by types: no type has the name of     *)
(* another setting, and no other setting has one of the prefixes.          *)
ASSUME TypesAssumption ==
  /\ DefaultTypeIds \subseteq TypeIds
  /\ \A t \in TypeIds :
       {t, TypeSetting("objectTypeIdToGenerate.", t)}
         \intersect {"timestampShiftMs", "sendAttributes"} = {}
  /\ DefaultPath \in DOMAIN StreamTypeIds /\ "" \in DOMAIN StreamTypeIds
  /\ \A path \in DOMAIN StreamTypeIds : \A t \in StreamTypeIds[path] :
       {t, TypeSetting("object_type_filter_", t)} \intersect {"manifestFile", "streamFile"} = {}

VARIABLES
  feature,      (* The plugin whose dialog it is.                          *)
  shownValues,  (* The values that the user sees, by the items shown.      *)
  storedValues, (* m_settings of the base class.                           *)
  members,      (* What the Device Agent made of them.                     *)
  isReceived,   (* Settings have been received.                            *)
  chosen        (* History: the last choice of the user for each item.     *)

dialogVars == <<feature, shownValues, storedValues, members, isReceived, chosen>>

----------------------------------------------------------------------------
(* Items of dialogs. *)

DialogItem(d, choices) == [default |-> d, choices |-> choices \union {d}]
CheckBox(d) == DialogItem(d, {"true", "false"})
SpinBox(lowest, d, highest) == DialogItem(d, {lowest, highest})
DoubleSpinBox(d) == DialogItem(d, {"0.0", "0.2", "1.0"})
Field(d) == DialogItem(d, {"", "typed"})
Values == DialogItem("value2", {"value1", "value3"})

(* Several settings with the same kind of item; and dialogs, one after     *)
(* another, or values over others.                                         *)
Each(names, item) == [n \in names |-> item]

f ++ g == [x \in DOMAIN f \union DOMAIN g |-> IF x \in DOMAIN f THEN f[x] ELSE g[x]]

WholeNumbers ==
  {"0", "1", "3", "5", "8", "10", "32", "42", "50", "80", "100", "1000", "65432",
   "65535", "100000", "1000000000"}
Fractions == {"0.0", "0.2", "1.0"}

SpecialObjectsDialog ==
     Each({"generateFixedObject", "generateCounter", "generatePoint",
           "generateEmptyNameObject", "blinkingObjectInDedicatedPacket"}, CheckBox("false"))
  ++ Each({"fixedObjectColor"}, DialogItem("No special color", {"Magenta", "!invalid!"}))
  ++ Each({"blinkingObjectPeriodMs"}, SpinBox("0", "0", "100000"))
  ++ Each({"generateObjectsEveryNFrames"}, SpinBox("1", "1", "100000"))
  ++ Each({"overallMetadataDelayMs", "additionalFrameProcessingDelayMs"},
          SpinBox("0", "0", "1000000000"))
  ++ Each({"counterBoundingBoxSideSize"}, DoubleSpinBox("0.0"))
  ++ Each({"counterXOffset"}, DoubleSpinBox("0.0"))
  ++ Each({"counterYOffset"}, DoubleSpinBox("0.0"))

BestShotItems ==
     Each({"enableBestShotGeneration"}, CheckBox("true"))
  ++ Each({"bestShotGenerationPolicy"},
          DialogItem("fixedBoundingBoxBestShotGenerationPolicy",
               {"urlBestShotGenerationPolicy", "imageBestShotGenerationPolicy"}))
  ++ Each({"bestShotObjectCount"}, SpinBox("0", "1", "100"))
  ++ Each({"frameNumberToGenerateBestShot"}, SpinBox("0", "0", "100"))
  ++ Each({"bestShotTopLeftX"}, DoubleSpinBox("0.0"))
  ++ Each({"bestShotTopLeftY"}, DoubleSpinBox("0.0"))
  ++ Each({"bestShotWidth", "bestShotHeight"}, DoubleSpinBox("0.2"))
  ++ Each({"bestShotUrl"}, Field(""))
  ++ Each({"bestShotImage"}, Field(""))

TitleItems ==
     Each({"enableObjectTitleGeneration"}, CheckBox("true"))
  ++ Each({"titleGenerationPolicy"},
          DialogItem("fixedBoundingBoxTitleGenerationPolicy",
               {"urlTitleGenerationPolicy", "imageTitleGenerationPolicy"}))
  ++ Each({"titleObjectCount"}, SpinBox("0", "1", "100"))
  ++ Each({"frameNumberToGenerateTitle"}, SpinBox("0", "0", "100"))
  ++ Each({"titleTopLeftX"}, DoubleSpinBox("0.0"))
  ++ Each({"titleTopLeftY"}, DoubleSpinBox("0.0"))
  ++ Each({"titleWidth", "titleHeight"}, DoubleSpinBox("0.2"))
  ++ Each({"titleUrl"}, Field(""))
  ++ Each({"titleImage"}, Field(""))
  ++ Each({"titleText"}, Field(""))

MotionDialog ==
     Each({"objectWidthInMotionCells", "objectHeightInMotionCells"},
          SpinBox("1", "8", "1000000000"))
  ++ Each({"additionalFrameProcessingDelayMs"}, SpinBox("0", "0", "1000000000"))

HttpDialog ==
     Each({"httpDomain"}, DialogItem("vms", {"cloud"}))
  ++ Each({"httpTimePeriod"}, SpinBox("1", "1", "100"))
  ++ Each({"httpUrl"}, Field("/rest/v4/site/settings"))
  ++ Each({"httpMethod"}, DialogItem("GET", {"get", ""}))
  ++ Each({"mimeType"}, Field("text/plain"))
  ++ Each({"requestBody"}, Field(""))

VideoFramesDialog ==
     Each({"leakFrames"}, CheckBox("false"))
  ++ Each({"additionalFrameProcessingDelayMs"}, SpinBox("0", "0", "1000000000"))

EventsDialog ==
     Each({"declareAdditionalEventTypesSetting"}, CheckBox("false"))
  ++ Each({"generateEvents"}, CheckBox("true"))

DiagnosticDialog ==
  Each({"generateIntegrationDiagnosticEventsFromDeviceAgent"}, CheckBox("false"))
DiagnosticEngineDialog ==
  Each({"generateIntegrationDiagnosticEventsFromEngine"}, CheckBox("false"))

DetectionDialog ==
  LET names == {TypeSetting("objectTypeIdToGenerate.", t) : t \in TypeIds}
      onByDefault == {TypeSetting("objectTypeIdToGenerate.", t) : t \in DefaultTypeIds}
  IN    Each({"timestampShiftMs"}, SpinBox("0", "0", "1000"))
     ++ Each({"sendAttributes"}, CheckBox("true"))
     ++ [n \in names |-> CheckBox(IF n \in onByDefault THEN "true" ELSE "false")]

(* The filters are those of the default stream, whatever stream is played. *)
StreamerDialog ==
     Each({"manifestFile"}, Field("object_streamer/manifest.json"))
  ++ Each({"streamFile"}, DialogItem(DefaultPath, DOMAIN StreamTypeIds))
  ++ Each({TypeSetting("object_type_filter_", t) : t \in StreamTypeIds[DefaultPath]},
          CheckBox("true"))

(* A Repeater makes its items as many times as it says.                    *)
Copies(prefix, count, suffixes) ==
  {prefix \o ToString(i) \o s : i \in 1..count, s \in suffixes}

RoiDialog ==
     Each({"excludedArea.figure", "testPolygon", "testSizeConstraints"}
            \union Copies("polygon", 5, {".figure"}) \union Copies("box", 5, {".figure"})
            \union Copies("line", 10, {".figure"})
            \union Copies("testPolyLine", 10, {".figure"}), Field(""))
  ++ Each(Copies("polygon", 5, {".threshold"}) \union Copies("box", 5, {".threshold"}),
          SpinBox("1", "50", "100"))
  ++ Each(Copies("polygon", 5, {".sensitivity"}) \union Copies("box", 5, {".sensitivity"}),
          SpinBox("1", "80", "100"))
  ++ Each(Copies("polygon", 5, {".minimumDuration"})
            \union Copies("box", 5, {".minimumDuration"}), SpinBox("0", "0", "5"))
  ++ Each(Copies("line", 10, {".person", ".vehicle", ".crossing"}), CheckBox("false"))

VampiresDialog ==
     Each({"fieldWidth", "fieldHeight"}, SpinBox("5", "32", "100"))
  ++ Each({"vampireCount"}, SpinBox("1", "8", "100"))
  ++ Each({"wallCount"}, SpinBox("3", "100", "1000"))
  ++ Each({"speed"}, SpinBox("1", "10", "1000"))
  ++ Each({"port"}, SpinBox("1", "65432", "65535"))

(* The Device Agent of the plugin settings has two models of its dialog,   *)
(* and a part of one of them in two languages.                             *)
ModelBox == Each({"settingsModelComboBox"}, DialogItem("regular", {"alternative"}))

AlternativeModel ==
     ModelBox
  ++ Each({"alternativeCheckBox"}, CheckBox("true"))
  ++ Each({"alternativeTextField"}, Field("alternative text"))

CitiesPart(language) ==
  IF language = "German"
    THEN Each({"testGermanRadioButtonGroup"}, DialogItem("Berlin", {"Nuremberg", "Leipzig"}))
    ELSE Each({"testEnglishRadioButtonGroup"}, DialogItem("London", {"Liverpool"}))

ChoiceItems ==
     Each({"testRadioButtonGroup"}, DialogItem("Cs_enodatum", {"K_jason"}))
  ++ Each({"testCheckBoxGroup"}, DialogItem("Coleoidea, Nautiloidea", {"Ammonoidea"}))
  ++ Each({"integrationSideTestSpinBox"}, SpinBox("0", "42", "100"))
  ++ Each({"testDoubleSpinBox"}, DoubleSpinBox("3.1415"))
  ++ Each({"testComboBox", "testMultiSelectionComboBox"}, Values)

GroupItems ==
     Each({"testCheckBox", "styledGroupBox1", "styledGroupBox2"}, CheckBox("true"))
  ++ Each({"disabledTestCheckBox", "hiddenTestCheckBox"}, CheckBox("false"))
  ++ Each({"textFieldInGroupBox1", "textFieldInGroupBox2"}, Field("a text"))

SectionItems ==
     Each({"testTextFieldWithValidation", "passwordField1"}, Field("a text"))
  ++ Each({"integrationSideTestSpinBox2", "testSpinBox3"}, SpinBox("0", "42", "100"))
  ++ Each({"testDoubleSpinBox2", "testDoubleSpinBox3"}, DoubleSpinBox("3.1415"))
  ++ Each({"testComboBox2", "testComboBox3"}, Values)
  ++ Each({"testCheckBox2", "testCheckBox3"}, CheckBox("true"))
  ++ Each({"testSwitch"}, CheckBox("false"))

RegularModel(language) ==
     ModelBox
  ++ Each({"testTextField"}, Field("a text"))
  ++ Each({"languageSelectorSettings"}, DialogItem("English", {"German"}))
  ++ CitiesPart(language) ++ ChoiceItems ++ GroupItems ++ SectionItems

(* Its Engine has a template variable where a field may be put.            *)
ExtraTextField(isShown) ==
  IF isShown THEN Each({"extraTextField"}, Field("some text")) ELSE [n \in {} |-> 0]

EngineModel(isExtraShown) ==
     Each({"pushEnginemManifest"}, CheckBox("false"))
  ++ ExtraTextField(isExtraShown)
  ++ Each({"showExtraTextField"}, DialogItem("false", {"true"}))
  ++ Each({"text", "passwordField1", "textFieldInGroupBox1", "textFieldInGroupBox2"},
          Field("a text"))
  ++ Each({"testSpinBox", "testIntegrationSideSpinBox"}, SpinBox("0", "42", "100"))
  ++ Each({"testDoubleSpinBox"}, DoubleSpinBox("3.1415"))
  ++ Each({"testComboBox", "testMultiSelectionComboBox"}, Values)
  ++ Each({"testCheckBox", "styledGroupBox1", "styledGroupBox2"}, CheckBox("true"))

DialogOwners ==
  {"special_objects", "best_shots", "motion_metadata", "http_requests", "video_frames",
   "events", "diagnostic_events", "diagnostic_events_engine", "object_detection",
   "object_streamer", "roi", "vampires", "settings", "settings_engine"}

ValueOf(values, n) == IF n \in DOMAIN values THEN values[n] ELSE ""

(* The dialog after values have been received.                             *)
Dialog(values) ==
  CASE feature = "special_objects" -> SpecialObjectsDialog
    [] feature = "best_shots" -> BestShotItems ++ TitleItems
    [] feature = "motion_metadata" -> MotionDialog
    [] feature = "http_requests" -> HttpDialog
    [] feature = "video_frames" -> VideoFramesDialog
    [] feature = "events" -> EventsDialog
    [] feature = "diagnostic_events" -> DiagnosticDialog
    [] feature = "diagnostic_events_engine" -> DiagnosticEngineDialog
    [] feature = "object_detection" -> DetectionDialog
    [] feature = "object_streamer" -> StreamerDialog
    [] feature = "roi" -> RoiDialog
    [] feature = "vampires" -> VampiresDialog
    [] feature = "settings_engine" -> EngineModel(ValueOf(values, "showExtraTextField") = "true")
    [] feature = "settings" ->
         (CASE values["settingsModelComboBox"] = "alternative" -> AlternativeModel
            [] values["settingsModelComboBox"] = "regular" ->
                 RegularModel(ValueOf(values, "languageSelectorSettings")))

----------------------------------------------------------------------------
(* What is read: the setting, how it is read, and the member before any    *)
(* settings.                                                               *)

Reading(setting, how, initial) == [setting |-> setting, how |-> how, initial |-> initial]

(* Members that are named as their settings.                               *)
EachRead(names, how, initial) == [n \in names |-> Reading(n, how, initial)]

SpecialObjectsReads ==
     EachRead({"generateFixedObject", "generateCounter", "generatePoint",
               "generateEmptyNameObject", "blinkingObjectInDedicatedPacket"},
              "toBool", "false")
  ++ EachRead({"fixedObjectColor"}, "text", "")
  ++ EachRead({"blinkingObjectPeriodMs"}, "int", "0")
  ++ EachRead({"generateObjectsEveryNFrames"}, "int", "1")
  ++ EachRead({"overallMetadataDelayMs", "additionalFrameProcessingDelayMs"}, "int", "0")
  ++ EachRead({"counterBoundingBoxSideSize"}, "float", "0.0")
  ++ Each({"counterBoundingBoxXOffset"}, Reading("counterXOffset", "float", "0.0"))
  ++ Each({"counterBoundingBoxYOffset"}, Reading("counterYOffset", "float", "0.0"))

BestShotReads ==
     Each({"generateBestShot"}, Reading("enableBestShotGeneration", "bool", "true"))
  ++ Each({"bestShotPolicy"}, Reading("bestShotGenerationPolicy", "bestShotPolicy", "unset"))
  ++ Each({"bestShotTracks"}, Reading("bestShotObjectCount", "count", "0"))
  ++ EachRead({"frameNumberToGenerateBestShot"}, "int", "0")
  ++ Each({"bestShotX"}, Reading("bestShotTopLeftX", "float", "-1"))
  ++ Each({"bestShotY"}, Reading("bestShotTopLeftY", "float", "-1"))
  ++ EachRead({"bestShotWidth", "bestShotHeight"}, "float", "-1")
  ++ EachRead({"bestShotUrl"}, "text", "")
  ++ Each({"bestShotImageData"}, Reading("bestShotImage", "file", ""))

TitleReads ==
     Each({"generateTitle"}, Reading("enableObjectTitleGeneration", "bool", "true"))
  ++ Each({"titlePolicy"}, Reading("titleGenerationPolicy", "titlePolicy", "unset"))
  ++ Each({"titleTracks"}, Reading("titleObjectCount", "count", "0"))
  ++ EachRead({"frameNumberToGenerateTitle"}, "int", "0")
  ++ Each({"titleX"}, Reading("titleTopLeftX", "float", "-1"))
  ++ Each({"titleY"}, Reading("titleTopLeftY", "float", "-1"))
  ++ EachRead({"titleWidth", "titleHeight"}, "float", "-1")
  ++ EachRead({"titleUrl"}, "text", "")
  ++ Each({"titleImageData"}, Reading("titleImage", "file", ""))
  ++ EachRead({"titleText"}, "title", "")

MotionReads ==
     EachRead({"objectWidthInMotionCells", "objectHeightInMotionCells"}, "int", "8")
  ++ EachRead({"additionalFrameProcessingDelayMs"}, "int", "0")

HttpReads ==
     Each({"domain"}, Reading("httpDomain", "domain", "vms"))
  ++ Each({"periodSeconds"}, Reading("httpTimePeriod", "seconds", "1"))
  ++ Each({"url"}, Reading("httpUrl", "text", "/rest/v4/site/settings"))
  ++ EachRead({"httpMethod"}, "toUpper", "GET")
  ++ EachRead({"mimeType"}, "text", "")
  ++ EachRead({"requestBody"}, "text", "")

VideoFramesReads ==
     EachRead({"leakFrames"}, "toBool", "false")
  ++ EachRead({"additionalFrameProcessingDelayMs"}, "int", "0")

EventsReads ==
     EachRead({"declareAdditionalEventTypesSetting"}, "toBool", "false")
  ++ EachRead({"generateEvents"}, "toBool", "true")

DiagnosticReads ==
  Each({"generateEvents"},
       Reading("generateIntegrationDiagnosticEventsFromDeviceAgent", "toBool", "true"))
DiagnosticEngineReads ==
  Each({"generateEvents"},
       Reading("generateIntegrationDiagnosticEventsFromEngine", "toBool", "false"))

(* The set of types is filled anew by the settings with the prefix.        *)
DetectionReads ==
     EachRead({"timestampShiftMs"}, "int", "0")
  ++ EachRead({"sendAttributes"}, "toBool", "true")
  ++ [t \in TypeIds |-> Reading(TypeSetting("objectTypeIdToGenerate.", t), "toBool", "false")]

(* Types that are not disabled.                                            *)
StreamerReads ==
     EachRead({"manifestFile"}, "text", "")
  ++ EachRead({"streamFile"}, "text", "")
  ++ [t \in UNION {StreamTypeIds[path] : path \in DOMAIN StreamTypeIds} |->
        Reading(TypeSetting("object_type_filter_", t), "filter", "true")]

RoiReads == EachRead({"testPolygon"}, "text", "")

VampiresReads ==
     EachRead({"fieldWidth", "fieldHeight"}, "intSetting", "-1")
  ++ EachRead({"vampireCount"}, "intSetting", "-1")
  ++ EachRead({"wallCount"}, "intSetting", "-1")
  ++ EachRead({"speed"}, "intSetting", "-1")
  ++ EachRead({"port"}, "intSetting", "-1")

EngineReads == Each({"manifest"}, Reading("pushEnginemManifest", "bool", "false"))

Reads ==
  CASE feature = "special_objects" -> SpecialObjectsReads
    [] feature = "best_shots" -> BestShotReads ++ TitleReads
    [] feature = "motion_metadata" -> MotionReads
    [] feature = "http_requests" -> HttpReads
    [] feature = "video_frames" -> VideoFramesReads
    [] feature = "events" -> EventsReads
    [] feature = "diagnostic_events" -> DiagnosticReads
    [] feature = "diagnostic_events_engine" -> DiagnosticEngineReads
    [] feature = "object_detection" -> DetectionReads
    [] feature = "object_streamer" -> StreamerReads
    [] feature = "roi" -> RoiReads
    [] feature = "vampires" -> VampiresReads
    [] feature = "settings_engine" -> EngineReads
    [] feature = "settings" -> [m \in {} |-> 0]

(* toBool(), fromString(), std::stoi() and the others: the member after a  *)
(* value has been received.  What cannot be parsed leaves the member.      *)
ReadAs(how, v, old) ==
  LET Parsed(texts) == IF v \in texts THEN v ELSE old
      OneOf(names, otherwise) == IF v \in names THEN v ELSE otherwise
  IN CASE how = "text" -> v
       [] how = "toBool" -> (IF v \in {"true", "1"} THEN "true" ELSE "false")
       [] how = "filter" -> (IF v \in {"true", "1", ""} THEN "true" ELSE "false")
       [] how = "bool" -> Parsed({"true", "false"})
       [] how \in {"int", "seconds"} -> Parsed(WholeNumbers)
       [] how = "float" -> Parsed(WholeNumbers \union Fractions)
       [] how = "intSetting" -> OneOf(WholeNumbers, "-1")
       [] how = "count" -> OneOf(WholeNumbers, "0")
       [] how = "file" -> (IF v = "" THEN old ELSE v)
       [] how = "title" -> (IF v = "" THEN "Default Title" ELSE v)
       [] how = "toUpper" -> (IF v = "get" THEN "GET" ELSE v)
       [] how = "domain" -> OneOf({"cloud"}, "vms")
       [] how = "bestShotPolicy" ->
            OneOf({"urlBestShotGenerationPolicy", "imageBestShotGenerationPolicy"},
                  "fixedBoundingBoxBestShotGenerationPolicy")
       [] how = "titlePolicy" ->
            OneOf({"urlTitleGenerationPolicy", "imageTitleGenerationPolicy"},
                  "fixedBoundingBoxTitleGenerationPolicy")

----------------------------------------------------------------------------
Defaults(items) == [n \in DOMAIN items |-> items[n].default]

DialogInit ==
  /\ feature \in DialogOwners
  /\ shownValues = Defaults(Dialog(Each({"settingsModelComboBox"}, "regular")))
  /\ storedValues = [n \in {} |-> ""]
  /\ members = [m \in DOMAIN Reads |-> Reads[m].initial]
  /\ isReceived = FALSE /\ chosen = [n \in {} |-> ""]

(* convertAndOutputStringMap() writes over what it gets, and keeps the     *)
(* rest; two plugins take the values into their own hands and do not keep  *)
(* them.  A mutant, `StoredAnew`, keeps nothing.                           *)
StoredAnew(given) ==
  IF feature \in {"roi", "settings_engine"} THEN storedValues ELSE given

Stored(given) ==
  IF feature \in {"roi", "settings_engine"} THEN storedValues ELSE given ++ storedValues

(* What a plugin finds when it looks for a setting.                        *)
Received(given) ==
  IF feature \in {"roi", "settings_engine"} THEN given ELSE Stored(given)

(* The values of the answer, where there is one: what is stored, or what   *)
(* has come, or the paths and the filters of the stream that is played.    *)
Answered(given) ==
  CASE feature = "settings" -> Stored(given)
    [] feature = "object_streamer" ->
         [n \in {"manifestFile", "streamFile"}
                 \union {TypeSetting("object_type_filter_", t) :
                          t \in StreamTypeIds[given["streamFile"]]} |->
            IF n \in DOMAIN Stored(given) THEN Stored(given)[n] ELSE "true"]
    [] OTHER -> given

(* The Server shows the dialog of the answer with its values, the values   *)
(* it has, and the defaults.                                               *)
Shown(given) ==
  LET items == Dialog(Received(given))
      known == Answered(given) ++ given ++ Defaults(items)
  IN [n \in DOMAIN items |-> known[n]]

(* setSettings() with the values that the user sees.                       *)
SetSettings(given) ==
  /\ storedValues' = Stored(given)
  /\ members' = [m \in DOMAIN members |->
                   ReadAs(Reads[m].how, ValueOf(Received(given), Reads[m].setting),
                             members[m])]
  /\ shownValues' = Shown(given)
  /\ isReceived' = TRUE

SendSettings ==
  /\ ~isReceived
  /\ SetSettings(shownValues)
  /\ UNCHANGED <<feature, chosen>>

(* Settings on which the dialog or the values of the answer depend.        *)
Switches ==
  {"settingsModelComboBox", "languageSelectorSettings", "showExtraTextField", "streamFile"}

(* The user changes one setting.                                           *)
Choose(n, v) ==
  /\ isReceived /\ v # shownValues[n]
  /\ chosen' = Each({n}, v) ++ chosen
  /\ SetSettings([shownValues EXCEPT ![n] = v])
  /\ Cardinality(DOMAIN chosen' \ Switches) <= MaxChoices
  /\ UNCHANGED feature

DialogNext ==
  \/ SendSettings
  \/ \E n \in DOMAIN shownValues : \E v \in Dialog(Received(shownValues))[n].choices : Choose(n, v)

DialogSpec == DialogInit /\ [][DialogNext]_dialogVars

----------------------------------------------------------------------------
(* What a member should be by the value in the dialog; nobody clears an    *)
(* image by clearing its path.                                             *)
Agrees(how, member, v) ==
  CASE how = "title" -> member = (IF v = "" THEN "Default Title" ELSE v)
    [] how = "toUpper" -> member = (IF v = "get" THEN "GET" ELSE v)
    [] how = "file" -> v # "" => member = v
    [] OTHER -> member = v

(* The texts in two files fit together: every setting that is read is in   *)
(* the dialog (but for the filters of a stream other than the default one) *)
(* and what was made of it is what the dialog shows; and nothing in the    *)
(* dialog is ignored, where the plugin is more than a sample of items.     *)
MembersFollowDialog ==
  /\ isReceived =>
       \A m \in DOMAIN members :
         \/ /\ Reads[m].setting \in DOMAIN shownValues
            /\ Agrees(Reads[m].how, members[m], shownValues[Reads[m].setting])
         \/ Reads[m].how = "filter" /\ m \notin StreamTypeIds[DefaultPath]
  /\ feature \notin {"roi", "settings", "settings_engine"} =>
       DOMAIN shownValues \subseteq {Reads[m].setting : m \in DOMAIN Reads}

(* Whatever the user has chosen is there when the item is shown again after*)
(* other models of the dialog; a plugin that keeps no values cannot do it  *)
(* for items that it hides.                                                *)
ChoicesAreKept ==
  feature # "settings_engine" =>
    \A n \in DOMAIN chosen \intersect DOMAIN shownValues : shownValues[n] = chosen[n]

(* The user sees what he has chosen, can always change the model again, and*)
(* the plugin does what the dialog shows, whatever dialogs came between.   *)
DialogIsObeyed ==
  /\ MembersFollowDialog /\ ChoicesAreKept
  /\ feature = "settings" => "settingsModelComboBox" \in DOMAIN shownValues

=============================================================================
