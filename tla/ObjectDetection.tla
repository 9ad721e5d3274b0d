--------------------------- MODULE ObjectDetection ---------------------------
(***************************************************************************)
(* The stub plugin's object_detection/device_agent.cpp: an object of each  *)
(* type that the settings allow climbs from the bottom of the frame to its *)
(* top, and then begins again as another track.                            *)
(*                                                                         *)
(* A track id is the number of its creation; a bounding box is the height  *)
(* its bottom has climbed.  Attributes, times and columns are left out.    *)
(***************************************************************************)
EXTENDS Integers, Sequences, Functions

CONSTANTS
  DetectTypes,  (* The keys of kObjectAttributes, in the order of the map. *)
  TrackLength,  (* kTrackLength.                                           *)
  MaxDetected   (* Bound: the track ids ever created.                      *)

ASSUME DetectAssumption ==
  /\ DetectTypes \in Seq(Range(DetectTypes)) /\ IsInjective(DetectTypes)
  /\ TrackLength \in Nat \ {0, 1} /\ MaxDetected \in Nat

VARIABLES
  frameIndex,   (* m_frameIndex, modulo TrackLength.                       *)
  typesOn,      (* m_objectTypeIdsToGenerate.                              *)
  trackIds,     (* m_trackIds.                                             *)
  detected,     (* How many track ids there have been.                     *)
  detections,   (* The objects of the last packet.                         *)
  climb,        (* History: pairs of a type and its track, of one climb    *)
                (* from the bottom, since the last settings.               *)
  pastClimbs    (* History: the tracks of former climbs since then.        *)

detectVars == <<frameIndex, typesOn, trackIds, detected, detections, climb, pastClimbs>>

DetectTypeOK ==
  /\ frameIndex \in 0..TrackLength - 1
  /\ typesOn \subseteq Range(DetectTypes)
  /\ IsInjective(trackIds) /\ Range(trackIds) \subseteq 1..detected
  /\ detected \in 0..MaxDetected

DetectInit ==
  /\ frameIndex = 0 /\ typesOn = {} /\ trackIds = <<>> /\ detected = 0
  /\ detections = <<>> /\ climb = {} /\ pastClimbs = {}

(* settingsReceived()                                                      *)
DetectSettingsReceived(types) ==
  /\ typesOn' = types
  /\ climb' = {} /\ pastClimbs' = {}
  /\ UNCHANGED <<frameIndex, trackIds, detected, detections>>

(* The tracks of a round end.  In a mutant, `RoundEndsLate`, one frame     *)
(* after the boxes are at the bottom again.                                *)
RoundEndsLate(index) == index = 1
RoundEnds(index) == index = 0

(* generateObjects(): the types that are on, in the order of the map.      *)
TypesToGenerate ==
  LET Among[n \in 0..Len(DetectTypes)] ==               \* Of the first n types.
        IF n = 0 THEN <<>>
        ELSE IF DetectTypes[n] \in typesOn THEN Append(Among[n - 1], DetectTypes[n])
        ELSE Among[n - 1]
  IN Among[Len(DetectTypes)]

(* pushCompressedVideoFrame(), trackIdByTrackIndex():                      *)
(* the i-th type that is on has the i-th track id, created on demand.      *)
DetectFrame ==
  LET index == (frameIndex + 1) % TrackLength
      types == TypesToGenerate
      kept == IF RoundEnds(index) THEN <<>> ELSE trackIds
      missing == IF Len(kept) < Len(types) THEN Len(types) - Len(kept) ELSE 0
      new == [i \in 1..missing |-> detected + i]
      Tracked(i) == (kept \o new)[i]
      used == {<<types[i], Tracked(i)>> : i \in DOMAIN types}
      fromBottom == index = 0
  IN /\ detected + Len(new) <= MaxDetected
     /\ frameIndex' = index
     /\ trackIds' = kept \o new
     /\ detected' = detected + Len(new)
     /\ detections' = [i \in DOMAIN types |->
                         [type |-> types[i], track |-> Tracked(i), height |-> index]]
     /\ climb' = IF fromBottom THEN used ELSE climb \union used
     /\ pastClimbs' = IF fromBottom THEN pastClimbs \union {p[2] : p \in climb}
                                    ELSE pastClimbs
     /\ UNCHANGED typesOn

DetectNext ==
  \/ \E types \in SUBSET Range(DetectTypes) : DetectSettingsReceived(types)
  \/ DetectFrame

DetectSpec == DetectInit /\ [][DetectNext]_detectVars

----------------------------------------------------------------------------
(* Although tracks are given to types by position and the ids outlive the  *)
(* settings, while the settings stay a type has one track per climb and a  *)
(* track one type, and an object that is back at the bottom is a new track:*)
(* no track jumps down.                                                    *)
TracksOnlyClimb ==
  /\ \A p, q \in climb : (p[1] = q[1]) <=> (p[2] = q[2])
  /\ \A p \in climb : p[2] \notin pastClimbs

=============================================================================
