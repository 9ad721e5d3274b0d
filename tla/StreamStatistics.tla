-------------------------- MODULE StreamStatistics --------------------------
(***************************************************************************)
(* The SDK's media_stream_statistics.cpp: the rates of a media stream over *)
(* a sliding window of its last frames, which may come in any order.  One  *)
(* thread gives the frames, and others ask for the rates, under the mutex; *)
(* the two setters do not lock it, so that the settings may change between *)
(* any two reads of them.                                                  *)
(*                                                                         *)
(* Times are in units of a TimeUnit-th part of a second.  The size of      *)
(* groups of pictures, a quotient of two counts, is left out.              *)
(***************************************************************************)
EXTENDS Integers, Sequences, SequencesExt

CONSTANTS
  FrameTimes,     (* Timestamps of frames.                                 *)
  FrameSizes,     (* Sizes of frames.                                      *)
  WindowSizes,    (* Values of setWindowSize().                            *)
  FrameLimits,    (* Values of setMaxDurationInFrames(); 0 is no limit.    *)
  TimeUnit,
  MaxFrames       (* Bound: the frames that are kept at once.              *)

ASSUME StatisticsAssumption ==
  /\ FrameTimes \subseteq Nat /\ WindowSizes \subseteq Nat /\ FrameLimits \subseteq Nat
  /\ FrameSizes \subseteq Nat \ {0}
  /\ TimeUnit \in Nat /\ MaxFrames \in Nat

VARIABLES
  windowSize,     (* m_windowSize                                          *)
  maxDuration,    (* m_maxDurationInFrames                                 *)
  data,           (* m_data                                                *)
  totalSize,      (* m_totalSizeBytes                                      *)
  isIdle,         (* Whether the window has passed since m_lastDataTimer.  *)
  stage,          (* Of onData(), or "free" when nobody has the mutex.     *)
  extra,          (* extraFrames                                           *)
  isSteady,       (* History: no setter was called since the last reset.   *)
  received        (* History: the frames since then, or nothing once a     *)
                  (* setter was called or time has gone back.              *)

statisticsVars ==
  <<windowSize, maxDuration, data, totalSize, isIdle, stage, extra, isSteady, received>>

(* The sum of the sizes.                                                   *)
SizeOf(frames) ==
  LET SizeUpto[n \in 0..Len(frames)] ==
        IF n = 0 THEN 0 ELSE SizeUpto[n - 1] + frames[n].size
  IN SizeUpto[Len(frames)]

StatisticsInit ==
  /\ windowSize \in WindowSizes /\ maxDuration \in FrameLimits
  /\ data = <<>> /\ totalSize = 0 /\ isIdle = FALSE
  /\ stage = "free" /\ extra = 0
  /\ isSteady = TRUE /\ received = <<>>

SetWindowSize(size) ==
  /\ windowSize # size
  /\ windowSize' = size /\ isSteady' = FALSE /\ received' = <<>>
  /\ isIdle' \in {isIdle, size < windowSize}
  /\ UNCHANGED <<maxDuration, data, totalSize, stage, extra>>

SetMaxDurationInFrames(limit) ==
  /\ maxDuration # limit
  /\ maxDuration' = limit /\ isSteady' = FALSE /\ received' = <<>>
  /\ UNCHANGED <<windowSize, data, totalSize, isIdle, stage, extra>>

Reset ==
  /\ stage = "free"
  /\ data' = <<>> /\ totalSize' = 0 /\ isIdle' = FALSE
  /\ isSteady' = TRUE /\ received' = <<>>
  /\ UNCHANGED <<windowSize, maxDuration, stage, extra>>

(* The number of frames before the given time: lower_bound(), which is     *)
(* defined because the frames are in the order of time.                    *)
Before(frames, time) ==
  CHOOSE n \in 0..Len(frames) :
    /\ \A i \in 1..n : frames[i].timestamp < time
    /\ \A i \in n + 1..Len(frames) : time <= frames[i].timestamp

Inserted(frames, frame) ==
  LET n == Before(frames, frame.timestamp)
  IN SubSeq(frames, 1, n) \o <<frame>> \o SubSeq(frames, n + 1, Len(frames))

(* removeRange(): the frames from one to another place.                    *)
RemoveRange(frames, left, right, total) ==
  /\ data' = SubSeq(frames, 1, left - 1) \o SubSeq(frames, right + 1, Len(frames))
  /\ totalSize' = total - SizeOf(SubSeq(frames, left, right))

RemoveFuture(frame) ==
  LET frames == Inserted(data, frame)
  IN RemoveRange(frames, Before(frames, frame.timestamp + windowSize) + 1, Len(frames),
                 totalSize + frame.size)

(* onData(): the insertion, and the removal of the frames of the future.   *)
OnData(time, size) ==
  /\ stage = "free" /\ Len(data) < MaxFrames
  /\ LET frame == [timestamp |-> time, size |-> size]
         follows == IF received = <<>> THEN isSteady /\ data = <<>>
                    ELSE Last(received).timestamp < time
     IN /\ RemoveFuture(frame)
        /\ received' = IF follows THEN Append(received, frame) ELSE <<>>
  /\ stage' = "past"
  /\ UNCHANGED <<windowSize, maxDuration, isIdle, extra, isSteady>>

(* The frames that are older than the window.                              *)
RemovePast ==
  /\ stage = "past"
  /\ IF data = <<>> THEN UNCHANGED <<data, totalSize>>
     ELSE RemoveRange(data, 1, Before(data, Last(data).timestamp - windowSize), totalSize)
  /\ stage' = "count"
  /\ UNCHANGED <<windowSize, maxDuration, isIdle, extra, isSteady, received>>

CountExtra ==
  /\ stage = "count"
  /\ extra' = Len(data) - maxDuration
  /\ stage' = "extra"
  /\ UNCHANGED <<windowSize, maxDuration, data, totalSize, isIdle, isSteady, received>>

(* The frames beyond the limit.  The limit is read again.                  *)
RemoveExtra ==
  /\ stage = "extra"
  /\ IF extra > 0 /\ maxDuration > 0 THEN RemoveRange(data, 1, extra, totalSize)
     ELSE UNCHANGED <<data, totalSize>>
  /\ isIdle' = FALSE /\ extra' = 0 /\ stage' = "free"
  /\ UNCHANGED <<windowSize, maxDuration, isSteady, received>>

(* No frame comes for longer than the window.                              *)
BecomeIdle ==
  /\ stage = "free" /\ ~isIdle /\ isIdle' = TRUE
  /\ UNCHANGED <<windowSize, maxDuration, data, totalSize, stage, extra, isSteady, received>>

StatisticsNext ==
  \/ \E size \in WindowSizes : SetWindowSize(size)
  \/ \E limit \in FrameLimits : SetMaxDurationInFrames(limit)
  \/ \E time \in FrameTimes, size \in FrameSizes : OnData(time, size)
  \/ Reset \/ RemovePast \/ CountExtra \/ RemoveExtra \/ BecomeIdle

StatisticsSpec == StatisticsInit /\ [][StatisticsNext]_statisticsVars

----------------------------------------------------------------------------
Interval == Last(data).timestamp - data[1].timestamp

(* bitrateBitsPerSecond().  The last frame lasts beyond the interval.  A   *)
(* mutant, `BitrateOfAll`, counts it.                                      *)
BitrateOfAll ==
  IF data = <<>> \/ isIdle \/ Interval = 0 THEN 0
  ELSE (totalSize * 8 * TimeUnit) \div Interval

Bitrate ==
  IF data = <<>> \/ isIdle \/ Interval = 0 THEN 0
  ELSE ((totalSize - Last(data).size) * 8 * TimeUnit) \div Interval

(* getFrameRate(), as the product with the interval.                       *)
FramesPerInterval ==
  IF data = <<>> \/ isIdle \/ Interval = 0 THEN 0 ELSE (Len(data) - 1) * TimeUnit

(* hasMediaData() *)
HasMediaData == totalSize > 0

StatisticsTypeOK ==
  /\ stage \in {"free", "past", "count", "extra"}
  /\ totalSize \in Nat
  /\ extra <= Len(data)

(* Reference: of the frames that have come, the kept ones are those in the *)
(* window around the newest one, and no more of them than the limit.       *)
IsLastFrames ==
  LET n == Len(received)
      k == n - Len(data)
      distance(i) == Last(received).timestamp - received[i].timestamp
  IN /\ k >= 0
     /\ \A i \in 1..Len(data) : data[i] = received[k + i]
     /\ \A i \in 1..n :
          i > k <=> /\ distance(i) <= windowSize /\ -distance(i) < windowSize
                    /\ maxDuration > 0 => i > n - maxDuration

(* The total is that of the frames that are kept, which never go back in   *)
(* time.  While nobody changes the settings they are of one window, and of *)
(* a stream that does not go back they are exactly those of the last       *)
(* window.                                                                 *)
WindowIsKept ==
  /\ totalSize = SizeOf(data) /\ (HasMediaData <=> data # <<>>)
  /\ \A i \in 2..Len(data) : data[i - 1].timestamp <= data[i].timestamp
  /\ stage = "free" /\ isSteady /\ data # <<>> => Interval <= windowSize
  /\ stage = "free" /\ received # <<>> => IsLastFrames

(* Of equal frames at equal distances the rates are exact, however many of *)
(* them are in the window; and with no frames for a window they are 0.     *)
RatesAreExact ==
  stage = "free" =>
    /\ data # <<>> => \A d \in 1..Interval, size \in {data[i].size : i \in DOMAIN data} :
         /\ \A i \in DOMAIN data : data[i].size = size
         /\ \A i \in 2..Len(data) : data[i].timestamp = data[i - 1].timestamp + d
         /\ ~isIdle
         => /\ Bitrate = (size * 8 * TimeUnit) \div d
            /\ FramesPerInterval * d = TimeUnit * Interval
    /\ isIdle => Bitrate = 0 /\ FramesPerInterval = 0

StatisticsAreRight == WindowIsKept /\ RatesAreExact

=============================================================================
