---------------------------- MODULE StreamParser ----------------------------
(***************************************************************************)
(* The stub plugin's object_streamer/stream_parser.cpp: a file with a list *)
(* of objects, each for a frame of a stream, is read item by item.         *)
(*                                                                         *)
(* A field of an item is abstracted to what the parser tells apart.  A     *)
(* wrong value is an error, which drops the item at once, or a warning,    *)
(* which only ignores the value.                                           *)
(***************************************************************************)
EXTENDS Integers, Sequences, FiniteSets, Functions, FiniteSetsExt

CONSTANTS
  CreationRefs,     (* Track ids "$perDeviceAgentCreation..."              *)
  CycleRefs,        (* Track ids "$perStreamCycle..."                      *)
  Uuids,            (* Track ids in full.                                  *)
  ObjectTypes,
  NoValue,          (* The field is absent.                                *)
  BadValue          (* The value of a field is of a wrong type.            *)

(* The items of the JSON array.                                            *)
Items ==
  [trackId : CreationRefs \union CycleRefs \union Uuids \union {"notUuid", BadValue},
   typeId : ObjectTypes \union {NoValue, BadValue},
   frame : Nat \union {BadValue},
   entry : {"regular", "bestShot", "title", "unknown", NoValue, BadValue},
   box : {"inside", "outside", "notNumbers", NoValue, BadValue},
   others : {"good", BadValue}]     (* attributes, timestamp, image, title *)

(* The error of an item: the parser stops at the first one.                *)
ErrorOf(item) ==
  IF item.trackId = BadValue THEN "trackIdIsNotAString"
  ELSE IF item.trackId = "notUuid" THEN "trackIdIsNotAUuid"
  ELSE IF item.typeId = BadValue THEN "typeIdIsNotAString"
  ELSE IF item.frame = BadValue THEN "frameNumberIsNotANumber"
  ELSE IF item.box = BadValue THEN "boundingBoxIsNotAJsonObject"
  ELSE IF item.box = "notNumbers" THEN "topLeftXIsNotANumber"
  ELSE "none"

IsKept(item) == ErrorOf(item) = "none"

(* Its warnings; an item that is dropped for its box may have one.         *)
WarningsOf(item) ==
  LET ReachesEntry == item.trackId \notin {BadValue, "notUuid"}
                        /\ item.typeId # BadValue /\ item.frame # BadValue
      Entry == CASE item.entry = "unknown" -> {"objectEntryTypeIsUnknown"}
                 [] item.entry = BadValue -> {"objectEntryTypeIsNotAString"}
                 [] OTHER -> {}
  IN (IF ReachesEntry THEN Entry ELSE {})
       \union (IF IsKept(item) /\ item.box = "outside" THEN {"objectIsOutOfBounds"} ELSE {})
       \union (IF IsKept(item) /\ item.others = BadValue THEN {"otherFieldIsWrong"} ELSE {})

(* The object made of an item that is kept.                                *)
ObjectOf(item) ==
  [trackId |-> item.trackId, typeId |-> item.typeId, frame |-> item.frame,
   entry |-> IF item.entry \in {"bestShot", "title"} THEN item.entry ELSE "regular"]

(* parseObjectStreamFile(); BadValue is a file that is missing, or is not  *)
(* a JSON array.                                                           *)
ParseObjectStreamFile(file) ==
  IF file = BadValue
    THEN [objects |-> <<>>, types |-> {}, warnings |-> {},
          errors |-> {"objectStreamIsNotAValidJson"}]
    ELSE LET ObjectsOf[n \in 0..Len(file)] ==      \* Those of the first n items.
               IF n = 0 THEN <<>>
               ELSE IF IsKept(file[n]) THEN Append(ObjectsOf[n - 1], ObjectOf(file[n]))
               ELSE ObjectsOf[n - 1]
             kept == {item \in Range(file) : IsKept(item)}
         IN [objects |-> ObjectsOf[Len(file)],
             types |-> {item.typeId : item \in kept} \ {NoValue},
             warnings |-> UNION {WarningsOf(item) : item \in Range(file)},
             errors |-> {ErrorOf(item) : item \in Range(file) \ kept}]

=============================================================================
