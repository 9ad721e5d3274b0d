--------------------------- MODULE SpecialObjects ---------------------------
(***************************************************************************)
(* The stub plugin's special_objects/device_agent.cpp: for a video frame,  *)
(* perhaps delayed by a setting, a packet with objects: a fixed one, a     *)
(* counter, a point, and one that blinks, perhaps in a packet of its own.  *)
(*                                                                         *)
(* Times are in any unit.  The objects that come with every packet are one *)
(* here; where they are and how they look is left out.                     *)
(***************************************************************************)
EXTENDS Integers, Sequences

CONSTANTS
  Timestamps,   (* Of the video frames; they may go back, as in an archive.*)
  Periods,      (* Values of "Generate 1-frame BlinkingObject every N ms". *)
  FrameSteps,   (* Values of "Generate objects every N frames".            *)
  CounterPeriod,(* Bound: m_frameCounter is counted modulo this.           *)
  Delays        (* Values of "Overall metadata delay".                     *)

ASSUME SpecialAssumption ==
  /\ Timestamps \subseteq Nat
  /\ Periods \subseteq Nat /\ Delays \subseteq Nat
  /\ FrameSteps \subseteq Nat \ {0}
  /\ CounterPeriod \in Nat
  /\ \A n \in FrameSteps : CounterPeriod % n = 0

VARIABLES
  special,      (* m_deviceAgentSettings.                                  *)
  queue,        (* m_frameTimestampUsQueue.                                *)
  frameCounter, (* m_frameCounter.                                         *)
  lastBlink,    (* m_lastBlinkingObjectTimestampUs; 0: none.               *)
  pulled,      (* The pulled of the last pull.                           *)
  ordered,      (* History: whether every frame was later than the one     *)
                (* before it, and the timestamp of the last one.           *)
  popped        (* History: the timestamp popped from the queue last.      *)

specialVars == <<special, queue, frameCounter, lastBlink, pulled, ordered, popped>>

SpecialSettings ==
  [generate : BOOLEAN, period : Periods, dedicated : BOOLEAN,
   step : FrameSteps, delay : Delays]

Packets ==
  [at : Timestamps, objects : SUBSET {"regular", "blinking"}, dedicated : BOOLEAN]

SpecialTypeOK ==
  /\ special \in SpecialSettings
  /\ \A i \in DOMAIN queue : queue[i] \in Timestamps
  /\ frameCounter \in 0..CounterPeriod - 1
  /\ lastBlink \in Timestamps \union {0}
  /\ \A i \in DOMAIN pulled : pulled[i] \in Packets

SpecialInit ==
  /\ special = [generate |-> FALSE, period |-> 0, dedicated |-> FALSE,
                step |-> 1, delay |-> 0]
  /\ queue = <<>> /\ frameCounter = 0 /\ lastBlink = 0 /\ pulled = <<>>
  /\ ordered = [yes |-> TRUE, last |-> -1] /\ popped = -1

(* settingsReceived(): another delay empties the queue.  In a mutant,      *)
(* `ReceiveSettingsOnly`, it does not.                                     *)
ReceiveSettingsOnly(s) ==
  /\ special' = s
  /\ UNCHANGED <<queue, frameCounter, lastBlink, pulled, ordered, popped>>

SpecialSettingsReceived(s) ==
  /\ special' = s
  /\ queue' = IF s.delay # special.delay THEN <<>> ELSE queue
  /\ UNCHANGED <<frameCounter, lastBlink, pulled, ordered, popped>>

----------------------------------------------------------------------------
(* A video frame with the pull that follows it; m_lastVideoFrameTimestampUs*)
(* is its timestamp only until the end of the pull, then 0.                *)

(* The queue takes a frame only if it is later than those that wait.       *)
QueueWith(ts) ==
  IF queue = <<>> THEN <<ts>>
  ELSE IF queue[Len(queue)] < ts THEN Append(queue, ts) ELSE queue

(* needToGenerateObjects()                                                 *)
NeedToGenerate == special.generate \/ special.period # 0

(* cookBlinkingObjectIfNeeded()                                            *)
Blinks(at) ==
  /\ special.period # 0
  /\ lastBlink # 0 => at - lastBlink >= special.period

ProcessVideoFrame(ts) ==
  /\ frameCounter' = (frameCounter + 1) % CounterPeriod
  /\ ordered' = [yes |-> ordered.yes /\ ts > ordered.last, last |-> ts]

(* pullMetadataPackets(): nothing to generate.                             *)
FrameIsNotNeeded(ts) ==
  /\ ~NeedToGenerate
  /\ ProcessVideoFrame(ts)
  /\ queue' = <<>> /\ pulled' = <<>>
  /\ UNCHANGED <<special, lastBlink, popped>>

(* A timestamp of 0 looks like no frame at all.                            *)
FrameIsZero(ts) ==
  /\ NeedToGenerate /\ ts = 0
  /\ ProcessVideoFrame(ts)
  /\ queue' = QueueWith(ts) /\ pulled' = <<>>
  /\ UNCHANGED <<special, lastBlink, popped>>

(* cookSomeObjects(): the packet of the frame that waits longest is cooked *)
(* each time, and given to the Server, or dropped, when it is old enough.  *)
(* An object that blinks is given in its own packet at once, and otherwise *)
(* shares the fate of the packet.                                          *)
CookSomeObjects(ts) ==
  LET arrived == QueueWith(ts)
      at == Head(arrived)
      isOld == ts - at >= special.delay
      isNth == (frameCounter + 1) % special.step = 0
      Blinking == [at |-> at, objects |-> {"blinking"}, dedicated |-> TRUE]
      Regular ==
        [at |-> at, dedicated |-> FALSE,
         objects |-> (IF special.generate THEN {"regular"} ELSE {})
           \union IF Blinks(at) /\ ~special.dedicated THEN {"blinking"} ELSE {}]
  IN /\ NeedToGenerate /\ ts # 0
     /\ ProcessVideoFrame(ts)
     /\ lastBlink' = IF Blinks(at) THEN at ELSE lastBlink
     /\ pulled' = (IF Blinks(at) /\ special.dedicated THEN <<Blinking>> ELSE <<>>)
                     \o (IF isOld /\ isNth THEN <<Regular>> ELSE <<>>)
     /\ IF isOld THEN queue' = Tail(arrived) /\ popped' = at
                 ELSE queue' = arrived /\ UNCHANGED popped
     /\ UNCHANGED special

(* Another kind of data packet is pushed: it is only pulled after.         *)
PullWithoutFrame ==
  /\ pulled' = <<>>
  /\ queue' = IF NeedToGenerate THEN queue ELSE <<>>
  /\ UNCHANGED <<special, frameCounter, lastBlink, ordered, popped>>

SpecialNext ==
  \/ \E s \in SpecialSettings : SpecialSettingsReceived(s)
  \/ \E ts \in Timestamps : FrameIsNotNeeded(ts) \/ FrameIsZero(ts) \/ CookSomeObjects(ts)
  \/ PullWithoutFrame

SpecialSpec == SpecialInit /\ [][SpecialNext]_specialVars

----------------------------------------------------------------------------
(* Although one packet at most is taken from the queue per frame, frames   *)
(* that come in any order and change their rate never make it longer than  *)
(* the delay allows; and while they come in order a frame is the subject   *)
(* of one regular packet at most, and the pulled come in the order of the *)
(* frames.                                                                 *)
QueueFollowsFrames ==
  /\ Len(queue) <= special.delay + 1
  /\ \A i, j \in DOMAIN queue : i < j => queue[i] < queue[j]
  /\ ordered.yes => \A i \in DOMAIN queue : popped < queue[i] /\ queue[i] <= ordered.last

=============================================================================
