--------------------------- MODULE ObjectStreamer ---------------------------
(***************************************************************************)
(* The stub plugin's object_streamer/device_agent.cpp: the objects of a    *)
(* file are played frame by frame, over and over again.  A frame is played *)
(* when the next one comes.                                                *)
(*                                                                         *)
(* The track id of an object may be a reference, which gets a new id when  *)
(* it is first played: for the whole life of the agent, or for one cycle.  *)
(***************************************************************************)
EXTENDS StreamParser

CONSTANTS
  StreamFiles,      (* The contents of the files to choose from.           *)
  DefaultStream,    (* The file that comes with the plugin.                *)
  MaxStreamIds      (* Bound: the ids ever given to references.            *)

ASSUME StreamAssumption ==
  /\ CreationRefs \intersect CycleRefs = {}
  /\ IsFiniteSet(CreationRefs \union CycleRefs)
  /\ \A file \in StreamFiles \union {DefaultStream} : file # BadValue => file \in Seq(Items)
  /\ MaxStreamIds \in Nat

VARIABLES
  objects,          (* m_streamInfo.                                       *)
  maxFrame,         (* m_maxFrameNumber.                                   *)
  frameNumber,      (* m_frameNumber.                                      *)
  hadFrame,         (* m_lastFrameTimestampUs >= 0.                        *)
  disabled,         (* m_disabledObjectTypeIds.                            *)
  trackIdByRef,     (* m_trackIdByRef, a partial function.                 *)
  ids,              (* How many ids there have been.                       *)
  isInitial,        (* m_isInitialSettings.                                *)
  streamed,         (* The metadata of the last frame, in order.           *)
  reported,         (* Whether the last settings reported errors.          *)
  pass,             (* History: the frame played last and the references   *)
                    (* played with their ids, since the frames last began  *)
                    (* from a lower number.                                *)
  former            (* History: the ids of former passes since the last    *)
                    (* settings.                                           *)

streamVars == <<objects, maxFrame, frameNumber, hadFrame, disabled, trackIdByRef,
                ids, isInitial, streamed, reported, pass, former>>

Refs == CreationRefs \union CycleRefs

StreamTypeOK ==
  /\ maxFrame \in Nat /\ frameNumber \in 0..maxFrame
  /\ disabled \subseteq ObjectTypes
  /\ DOMAIN trackIdByRef \subseteq Refs /\ Range(trackIdByRef) \subseteq 1..ids
  /\ ids \in 0..MaxStreamIds
  /\ \A i \in DOMAIN objects : objects[i].frame \in 0..maxFrame

StreamInit ==
  /\ objects = <<>> /\ maxFrame = 0 /\ frameNumber = 0 /\ hadFrame = FALSE
  /\ disabled = {} /\ trackIdByRef = <<>> /\ ids = 0 /\ isInitial = TRUE
  /\ streamed = <<>> /\ reported = FALSE
  /\ pass = [last |-> -1, ids |-> {}] /\ former = {}

(* settingsReceived(): another file, from its frame 0; the number of the   *)
(* greatest frame stays when there are no objects, and the ids of the      *)
(* references stay in any case.  Without a file in the settings, it is the *)
(* default one the first time, and later none.                             *)
StreamSettingsReceived(setting, off) ==
  LET file == IF setting # NoValue THEN setting
              ELSE IF isInitial THEN DefaultStream ELSE BadValue
      info == ParseObjectStreamFile(file)
  IN /\ isInitial' = FALSE
     /\ objects' = info.objects
     /\ maxFrame' = IF info.objects = <<>> THEN maxFrame
                    ELSE Max({info.objects[i].frame : i \in DOMAIN info.objects})
     /\ frameNumber' = 0
     /\ disabled' = off
     /\ reported' = (info.errors # {})
     /\ pass' = [last |-> -1, ids |-> {}] /\ former' = {}
     /\ UNCHANGED <<hadFrame, trackIdByRef, ids, streamed>>

----------------------------------------------------------------------------
(* A frame. *)

PreviousFrame == IF frameNumber = 0 THEN maxFrame ELSE frameNumber - 1

(* The objects to play, and the ids for the references met first.          *)
Played ==
  IF hadFrame THEN SelectSeq(objects, LAMBDA o : /\ o.frame = PreviousFrame
                                                 /\ o.typeId \notin disabled)
              ELSE <<>>

NewRefs == ({o.trackId : o \in Range(Played)} \intersect Refs) \ DOMAIN trackIdByRef

(* obtainObjectTrackIdFromRef(), for the objects in any order: which of    *)
(* several random ids a reference gets makes no difference.                *)
IdsOf ==
  CHOOSE f \in [DOMAIN trackIdByRef \union NewRefs -> 1..ids + Cardinality(NewRefs)] :
    /\ \A r \in DOMAIN trackIdByRef : f[r] = trackIdByRef[r]
    /\ {f[r] : r \in NewRefs} = ids + 1 .. ids + Cardinality(NewRefs)

(* generateMetadata(): objects first, then best shots, then titles.        *)
GenerateMetadata ==
  LET Of(kind) == SelectSeq(Played, LAMBDA o : o.entry = kind)
      all == Of("regular") \o Of("bestShot") \o Of("title")
      Id(ref) == IF ref \in Refs THEN IdsOf[ref] ELSE ref
  IN [i \in DOMAIN all |-> [entry |-> all[i].entry, id |-> Id(all[i].trackId)]]

(* The end of a cycle.  In a mutant, `IsEarlyEnd`, it comes a frame early. *)
IsEarlyEnd == frameNumber = maxFrame
IsEndOfCycle == frameNumber = 0

(* The history of passes: ids are recorded with their references.          *)
RecordPass ==
  LET used == {<<r, IdsOf[r]>> : r \in {o.trackId : o \in Range(Played)} \intersect CycleRefs}
      begins == PreviousFrame <= pass.last
  IN IF hadFrame
       THEN /\ pass' = [last |-> PreviousFrame,
                        ids |-> IF begins THEN used ELSE pass.ids \union used]
            /\ former' = IF begins THEN former \union {p[2] : p \in pass.ids} ELSE former
       ELSE UNCHANGED <<pass, former>>

(* pushCompressedVideoFrame()                                              *)
StreamFrame ==
  /\ ids + Cardinality(NewRefs) <= MaxStreamIds
  /\ streamed' = GenerateMetadata
  /\ ids' = ids + Cardinality(NewRefs)
  /\ trackIdByRef' = IF hadFrame /\ IsEndOfCycle THEN Restrict(IdsOf, DOMAIN IdsOf \ CycleRefs)
                                                 ELSE IdsOf
  /\ frameNumber' = IF frameNumber + 1 > maxFrame THEN 0 ELSE frameNumber + 1
  /\ hadFrame' = TRUE
  /\ RecordPass
  /\ UNCHANGED <<objects, maxFrame, disabled, isInitial, reported>>

StreamNext ==
  \/ \E setting \in StreamFiles \union {NoValue, BadValue}, off \in SUBSET ObjectTypes :
       StreamSettingsReceived(setting, off)
  \/ StreamFrame

StreamSpec == StreamInit /\ [][StreamNext]_streamVars

----------------------------------------------------------------------------
(* In one pass over the frames all objects with one per-cycle reference    *)
(* are of one track, and in each pass, while the settings stay, of another *)
(* one; no two references share a track.                                   *)
OneTrackPerCycle ==
  /\ \A p, q \in pass.ids : (p[1] = q[1]) <=> (p[2] = q[2])
  /\ \A p \in pass.ids : p[2] \notin former
  /\ \A r, q \in DOMAIN trackIdByRef : trackIdByRef[r] = trackIdByRef[q] => r = q

=============================================================================
