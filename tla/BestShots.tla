------------------------------ MODULE BestShots ------------------------------
(***************************************************************************)
(* The stub plugin's best_shots_and_titles/device_agent.cpp: rectangles    *)
(* that fly across the frame, and a best shot and a title of each.         *)
(*                                                                         *)
(* The code exists twice, for the best shots and for the titles; the two   *)
(* are the members of Features.  Bounding boxes are reduced to the number  *)
(* of steps to the right, track ids to the order of their creation, and    *)
(* the appearance of a shot (URL, image, rectangle) is left out.           *)
(***************************************************************************)
EXTENDS Integers, Sequences, FiniteSets, Functions

CONSTANTS
  Features,     (* Best shots and titles.                                  *)
  Span,         (* The steps from the left edge to the right one.          *)
  ShotNumbers,  (* Values of the setting "frame number to generate".       *)
  MaxObjects,   (* The greatest value of the setting "object count".       *)
  MaxTracks     (* Bound: the tracks ever created for a feature.           *)

ASSUME ShotAssumption ==
  /\ Span \in Nat \ {0}
  /\ ShotNumbers \subseteq Nat
  /\ MaxObjects \in Nat /\ MaxTracks \in Nat

VARIABLES
  shotEnabled,  (* m_generateBestShot, m_generateTitle.                    *)
  shotNumber,   (* frameNumberToGenerate...                                *)
  tracks,       (* m_...TrackContexts: the id and the place of each.       *)
  shotCounter,  (* m_...GenerationCounterByTrackId, a partial function.    *)
  created,      (* How many tracks were created, the source of ids.        *)
  age,          (* History: since the last settings, the frames of each    *)
                (* track, its first one included, whether shown or not.    *)
  shots         (* History: the shots of those tracks.                     *)

shotVars == <<shotEnabled, shotNumber, tracks, shotCounter, created, age, shots>>

Tracks == [id : 1..MaxTracks, x : 0..Span]

ShotTypeOK ==
  /\ shotEnabled \in [Features -> BOOLEAN]
  /\ shotNumber \in [Features -> ShotNumbers \union {0}]
  /\ created \in [Features -> 0..MaxTracks]
  /\ \A f \in Features :
       /\ Len(tracks[f]) <= MaxObjects
       /\ \A i \in DOMAIN tracks[f] : tracks[f][i] \in Tracks
       /\ DOMAIN shotCounter[f] \subseteq DOMAIN age[f]
       /\ DOMAIN age[f] = DOMAIN shots[f] /\ DOMAIN age[f] \subseteq 1..created[f]

ShotInit ==
  /\ shotEnabled = [f \in Features |-> TRUE]
  /\ shotNumber = [f \in Features |-> 0]
  /\ tracks = [f \in Features |-> <<>>]
  /\ shotCounter = [f \in Features |-> <<>>]
  /\ created = [f \in Features |-> 0]
  /\ age = [f \in Features |-> <<>>]
  /\ shots = [f \in Features |-> <<>>]

----------------------------------------------------------------------------
(* configureBestShots(), configureTitles(): new tracks for both, whatever  *)
(* the former ones were at.                                                *)
Configure(enabled, number, count) ==
  LET New(f) == created[f] + 1 .. created[f] + count[f]
  IN /\ \A f \in Features : created[f] + count[f] <= MaxTracks
     /\ shotEnabled' = enabled
     /\ shotNumber' = number
     /\ tracks' = [f \in Features |->
                     [i \in 1..count[f] |-> [id |-> created[f] + i, x |-> 0]]]
     /\ shotCounter' = [f \in Features |-> [t \in New(f) |-> number[f]]]
     /\ created' = [f \in Features |-> created[f] + count[f]]
     /\ age' = [f \in Features |-> [t \in New(f) |-> 0]]
     /\ shots' = [f \in Features |-> [t \in New(f) |-> 0]]

----------------------------------------------------------------------------
(* A frame. *)

IsOver(track) == track.x + 1 > Span

(* The tracks of f that reach the right edge; they begin again as new ones.*)
Ended(f) == {i \in DOMAIN tracks[f] : IsOver(tracks[f][i])}

Renewed(f) ==
  [i \in Ended(f) |-> created[f] + Cardinality({j \in Ended(f) : j <= i})]

(* generateBestShotObject(), generateTitleObject().                        *)
MovedTracks(f) ==
  [i \in DOMAIN tracks[f] |->
     IF i \in Ended(f) THEN [id |-> Renewed(f)[i], x |-> 0]
                       ELSE [tracks[f][i] EXCEPT !.x = @ + 1]]

(* The counters with those of the new tracks.                              *)
CountersOfAll(f) ==
  [t \in DOMAIN shotCounter[f] \union Range(Renewed(f)) |->
     IF t \in Range(Renewed(f)) THEN shotNumber[f] ELSE shotCounter[f][t]]

(* generateBestShots(), generateTitles(): a shot of each track whose time  *)
(* has come, which is then forgotten.  In a mutant, `RemainingOfAll`, it   *)
(* is not.                                                                 *)
Due(f) == {t \in DOMAIN CountersOfAll(f) : CountersOfAll(f)[t] = 0}

RemainingOfAll(f) ==
  [t \in DOMAIN CountersOfAll(f) |->
     IF t \in Due(f) THEN 0 ELSE CountersOfAll(f)[t] - 1]

Remaining(f) ==
  [t \in DOMAIN CountersOfAll(f) \ Due(f) |-> CountersOfAll(f)[t] - 1]

(* maybeGenerateBestShotAndTitle().                                        *)
PushShotFrame ==
  LET On(f, new, old) == IF shotEnabled[f] THEN new ELSE old
      Known(f) == DOMAIN age[f] \union Range(Renewed(f))
      Past(h, f, t) == IF t \in DOMAIN h[f] THEN h[f][t] ELSE 0
  IN /\ \A f \in Features :
          shotEnabled[f] => created[f] + Cardinality(Ended(f)) <= MaxTracks
     /\ tracks' = [f \in Features |-> On(f, MovedTracks(f), tracks[f])]
     /\ shotCounter' = [f \in Features |-> On(f, Remaining(f), shotCounter[f])]
     /\ created' = [f \in Features |->
                      On(f, created[f] + Cardinality(Ended(f)), created[f])]
     /\ age' = [f \in Features |->
                  On(f, [t \in Known(f) |-> Past(age, f, t) + 1], age[f])]
     /\ shots' = [f \in Features |->
                    On(f, [t \in Known(f) |->
                             Past(shots, f, t) + IF t \in Due(f) THEN 1 ELSE 0],
                       shots[f])]
     /\ UNCHANGED <<shotEnabled, shotNumber>>

ShotNext ==
  \/ \E enabled \in [Features -> BOOLEAN], number \in [Features -> ShotNumbers],
        count \in [Features -> 0..MaxObjects] : Configure(enabled, number, count)
  \/ PushShotFrame

ShotSpec == ShotInit /\ [][ShotNext]_shotVars

----------------------------------------------------------------------------
(* Every track gets exactly one shot, on the frame of its life that the    *)
(* settings name, counted from 0; also a track that has left the picture   *)
(* before that frame.  And a shot of a track that should still be in the   *)
(* picture comes with its object.                                          *)
OneShotPerTrack ==
  \A f \in Features : \A t \in DOMAIN age[f] :
    /\ shots[f][t] = IF age[f][t] > shotNumber[f] THEN 1 ELSE 0
    /\ age[f][t] \in 1..Span => \E i \in DOMAIN tracks[f] : tracks[f][i].id = t

=============================================================================
