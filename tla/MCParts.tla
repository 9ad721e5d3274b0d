------------------------------ MODULE MCParts ------------------------------
(***************************************************************************)
(* The small components that share no state, model-checked in one run: the *)
(* part is chosen at the beginning, and the others stand still.            *)
(***************************************************************************)
EXTENDS WallPlacement, BestShots, SpecialObjects, ObjectStreamer, ObjectDetection,
        MotionMetadata, MCIniConfig, UuidStrings, ActiveSettings, Taxonomy,
        ConsumingDeviceAgent, PluginSession, TestRunner, StubSettings, ObjectActions,
        ErrorReporting, HttpRequests, StreamStatistics, TLC

VARIABLE part

(* Bound: guards of Tweaks while the user edits the .ini file; where there *)
(* may be more of them, he does not.                                       *)
MaxGuardsAmongEdits == 1

(* Items of object streams.                                                *)
Item(trackId, typeId, frame, entry, box) ==
  [trackId |-> trackId, typeId |-> typeId, frame |-> frame, entry |-> entry,
   box |-> box, others |-> "good"]

FirstStream ==
  <<Item("perCycle1", "car", 0, "regular", "inside"),
    Item("perCycle1", NoValue, 2, "bestShot", "outside"),
    Item("perCreation", "car", 2, "title", NoValue)>>

SecondStream ==
  <<Item("perCycle2", "man", 1, "unknown", NoValue),
    Item("perCycle2", "man", 0, "regular", "notNumbers"),
    Item("uuid", "man", 1, NoValue, NoValue),
    Item("perCycle2", "man", 1, "regular", NoValue)>>

MCStreamFiles == {FirstStream, SecondStream}
MCDefaultStream == <<Item("perCycle2", "car", 0, "regular", NoValue)>>

MCDetectTypes == <<"car", "face", "man">>
MCCellCounts == {<<3, 2>>, <<2, 1>>}
MCAreaSizes == {1, 2} \X {1, 2}
MCCommandLines ==
  {<<"-h">>, <<"--stop-on-failure", "-h">>, <<"--tmp", "dir", "--stop-on-failure">>,
   <<"--tmp", "dir", "--tmp=", "--", "x">>, <<"--tmp=dir", "--tmp">>}

MCStreamTypeIds ==
  "object_streamer/stream.json" :> {"car"} @@ "other" :> {"man"} @@ "" :> {}

----------------------------------------------------------------------------
(* A part that stands still has one initial state.                         *)
Init ==
  /\ part \in {"walls", "shots", "special", "stream", "detect", "motion", "ini",
               "tweaks", "text", "settings", "taxonomy", "handlers", "session", "tests", "dialogs",
               "actions", "errors", "http", "statistics"}
  /\ WallInit /\ (part # "walls" => wallsLeft = 1)
  /\ ShotInit /\ SpecialInit /\ StreamInit /\ DetectInit
  /\ MotionInit /\ (part # "motion" => areaSize = <<1, 1>>)
  /\ IniInit /\ (part \notin {"ini", "tweaks"} => file.state = "absent")
  /\ TextInit
  /\ ActiveInit /\ (part # "settings" => holder = "engine")
  /\ TaxonomyInit /\ (part # "taxonomy" => agent = "taxonomy")
  /\ BaseInit /\ SessionInit
  /\ TestInit /\ (part # "tests" => args = <<"-h">> /\ disk = {})
  /\ DialogInit /\ (part # "dialogs" => feature = "video_frames")
  /\ ActionInit /\ (part # "actions" => actionPlugin = "object_actions")
  /\ ErrorInit
  /\ part # "errors" => errorFlags = {} /\ \A p \in ErrorParameters : errorParameters[p] = kNoError
  /\ HttpInit
  /\ StatisticsInit /\ (part # "statistics" => windowSize = 1 /\ maxDuration = 0)

Step ==
  \/ part = "walls" /\ WallNext
  \/ part = "shots" /\ ShotNext
  \/ part = "special" /\ SpecialNext
  \/ part = "stream" /\ StreamNext
  \/ part = "detect" /\ DetectNext
  \/ part = "motion" /\ MotionNext
  \/ part = "ini" /\ IniNext /\ GuardCount' <= MaxGuardsAmongEdits
  \/ part = "tweaks" /\ (ReloadNext \/ TweaksNext)
  \/ part = "text" /\ TextNext
  \/ part = "settings" /\ ActiveNext
  \/ part = "taxonomy" /\ TaxonomyNext
  \/ part = "handlers" /\ BaseNext
  \/ part = "session" /\ SessionNext
  \/ part = "tests" /\ TestNext
  \/ part = "dialogs" /\ DialogNext
  \/ part = "actions" /\ ActionNext
  \/ part = "errors" /\ ErrorNext
  \/ part = "http" /\ HttpNext
  \/ part = "statistics" /\ StatisticsNext

(* The others stand still.                                                 *)
OthersStand ==
  /\ part # "walls" => UNCHANGED wallVars
  /\ part # "shots" => UNCHANGED shotVars
  /\ part # "special" => UNCHANGED specialVars
  /\ part # "stream" => UNCHANGED streamVars
  /\ part # "detect" => UNCHANGED detectVars
  /\ part # "motion" => UNCHANGED motionVars
  /\ part \notin {"ini", "tweaks"} => UNCHANGED iniVars
  /\ part # "text" => UNCHANGED text
  /\ part # "settings" => UNCHANGED activeVars
  /\ part # "taxonomy" => UNCHANGED taxonomyVars
  /\ part # "handlers" => UNCHANGED baseVars
  /\ part # "session" => UNCHANGED sessionVars
  /\ part # "tests" => UNCHANGED testVars
  /\ part # "dialogs" => UNCHANGED dialogVars
  /\ part # "actions" => UNCHANGED actionVars
  /\ part # "errors" => UNCHANGED errorVars
  /\ part # "http" => UNCHANGED httpVars
  /\ part # "statistics" => UNCHANGED statisticsVars

Next == Step /\ OthersStand /\ UNCHANGED part

vars == <<part, wallVars, shotVars, specialVars, streamVars, detectVars, motionVars,
          iniVars, text, activeVars, taxonomyVars, baseVars, sessionVars, testVars,
          dialogVars, actionVars, errorVars, httpVars, statisticsVars>>

Spec == Init /\ [][Next]_vars

(* Every part keeps its variables in their types: ids within what was      *)
(* created, indexes within their tables, locks and counters in step.       *)
TypeOK ==
  /\ WallTypeOK /\ ShotTypeOK /\ SpecialTypeOK /\ StreamTypeOK /\ DetectTypeOK
  /\ MotionTypeOK /\ IniTypeOK /\ TextTypeOK /\ TaxonomyTypeOK /\ BaseTypeOK
  /\ SessionTypeOK /\ TestTypeOK /\ ErrorTypeOK /\ StatisticsTypeOK

=============================================================================
