---------------------------- MODULE PartsProofs ----------------------------
(***************************************************************************)
(* Theorems about small components that MCParts checks, for any number of  *)
(* spaces, requests, frames, tracks, types, references and cells; then the *)
(* base class of Device Agents, with any number of threads and handlers,   *)
(* and the thread of diagnostic_events, with packs of any size.            *)
(***************************************************************************)
EXTENDS WallPlacement, HttpRequests, SpecialObjects, BestShots,
        ObjectStreamer, MotionMetadata, ObjectDetection, ErrorReporting, ObjectActions,
        DiagnosticEvents,
        InductionLemmas, SequenceTheorems, FiniteSetTheorems, TLAPS

----------------------------------------------------------------------------
(* The walls of a new game: no two share a cell, for a field of any size   *)
(* and whatever rand() returns.                                            *)

(* The inductive invariant: the cells that are left, which are the first   *)
(* spacesLeft ones of the vector, are distinct and not taken.              *)
WallIInv == WallTypeOK /\ WallsApart /\ FreeCells

----------------------------------------------------------------------------
(* A quotient is in range when the dividend is.                            *)
LEMMA QuotientBound ==
  ASSUME NEW n \in Nat, NEW d \in Nat \ {0}, NEW k \in Nat, n < d * (k + 1)
  PROVE  n \div d \in 0..k
  <1> DEFINE q == n \div d
  <1>1. q \in Int /\ d * q <= n /\ n < d * q + d
    OBVIOUS
  <1>2. q >= 0
    <2>1. SUFFICES ASSUME q <= -1 PROVE FALSE
      BY <1>1
    <2>2. d * q <= d * (-1)
      BY <1>1, <2>1
    <2> QED
      BY <1>1, <2>2
  <1>3. q <= k
    <2>1. SUFFICES ASSUME q >= k + 1 PROVE FALSE
      BY <1>1
    <2>2. d * q >= d * (k + 1)
      BY <1>1, <2>1
    <2> QED
      BY <1>1, <2>2
  <1> QED
    BY <1>1, <1>2, <1>3

(* The scaling of rand() gives one of the cells that are left.             *)
LEMMA IndexInRange ==
  ASSUME NEW r \in 0..RandMax, spacesLeft \in Nat \ {0}
  PROVE  WallIndex(r) \in 1..spacesLeft
  <1> DEFINE s == spacesLeft - 1
             n == 2 * r * s + RandMax
             d == 2 * RandMax
  <1>1. RandMax \in Nat /\ RandMax > 0 /\ s \in Nat /\ r \in Nat
    BY SpaceAssumption
  <1>2. r * s \in Nat /\ r * s <= RandMax * s
    BY <1>1
  <1>3. n = 2 * (r * s) + RandMax /\ d * (s + 1) = 2 * (RandMax * s) + 2 * RandMax
    BY <1>1
  <1>4. RandMax * s \in Nat
    BY <1>1
  <1>5. n \in Nat /\ d \in Nat \ {0} /\ n < d * (s + 1)
    <2> HIDE DEF s
    <2> QED
      BY <1>1, <1>2, <1>3, <1>4
  <1>6. n \div d \in 0..s
    <2> HIDE DEF n, d, s
    <2> QED
      BY <1>1, <1>5, QuotientBound
  <1> QED
    BY <1>1, <1>6 DEF WallIndex

----------------------------------------------------------------------------
LEMMA InitIInv == WallInit => WallIInv
  BY SpaceAssumption DEF WallInit, WallIInv, WallTypeOK, WallsApart, FreeCells, Spaces

(* A wall takes a cell that was free, and the others stay free.            *)
LEMMA StepIInv ==
  ASSUME WallIInv, NEW r \in 0..RandMax, SettleWall(r)
  PROVE  WallIInv'
  <1> DEFINE i == WallIndex(r)
  <1>1. /\ walls \in Seq(Spaces) /\ settled \in Seq(Spaces)
        /\ spacesLeft \in Nat /\ wallsLeft \in Nat /\ SpaceCount \in Nat
        /\ spacesLeft <= SpaceCount /\ wallsLeft <= MaxWallCount /\ MaxWallCount \in Nat
        /\ wallsLeft <= spacesLeft /\ spacesLeft <= Len(walls) /\ wallsLeft # 0
    BY SpaceAssumption DEF WallIInv, WallTypeOK, FreeCells, SettleWall
  <1>2. i \in 1..spacesLeft
    BY <1>1, IndexInRange
  <1> HIDE DEF i
  <1>3. Len(walls) \in Nat /\ walls \in [1..Len(walls) -> Spaces]
    BY <1>1
  <1>4. walls[i] \in Spaces
    BY <1>1, <1>2, <1>3
  <1>5. settled' = Append(settled, walls[i])
    BY DEF SettleWall, i
  <1>6. /\ settled' \in Seq(Spaces) /\ Len(settled') = Len(settled) + 1
        /\ Len(settled) \in Nat
        /\ settled'[Len(settled) + 1] = walls[i]
        /\ \A k \in 1..Len(settled) : settled'[k] = settled[k]
    BY <1>1, <1>4, <1>5
  <1>7. spacesLeft' = spacesLeft - 1 /\ wallsLeft' = wallsLeft - 1
    BY DEF SettleWall
  (* What the vector is after the step. *)
  <1>8. /\ walls' \in Seq(Spaces)
        /\ spacesLeft - 1 <= Len(walls')
        /\ \A k \in 1..spacesLeft - 1 :
             walls'[k] = walls[IF i # spacesLeft /\ k >= i THEN k + 1 ELSE k]
    <2>1. CASE i # spacesLeft
      <3>1. walls' = [k \in 1..Len(walls) - 1 |-> IF k < i THEN walls[k] ELSE walls[k + 1]]
        BY <2>1 DEF SettleWall, Erase, i
      <3>2. \A k \in 1..Len(walls) - 1 :
              (IF k < i THEN walls[k] ELSE walls[k + 1]) \in Spaces
        BY <1>1, <1>2, <1>3
      <3>3. Len(walls) - 1 \in Nat
        BY <1>1, <1>2, <1>3
      <3>4. walls' \in [1..Len(walls) - 1 -> Spaces]
        BY <3>1, <3>2
      <3>5. walls' \in Seq(Spaces)
        BY <3>3, <3>4
      <3>6. Len(walls') = Len(walls) - 1
        BY <3>1, <3>3
      <3>7. \A k \in 1..spacesLeft - 1 : k \in 1..Len(walls) - 1 /\ (k < i <=> ~(k >= i))
        BY <1>1, <1>2, <1>3
      <3>8. \A k \in 1..Len(walls) - 1 :
              walls'[k] = IF k < i THEN walls[k] ELSE walls[k + 1]
        BY <3>1
      <3> QED
        BY <1>1, <1>3, <2>1, <3>5, <3>6, <3>7, <3>8
    <2>2. CASE i = spacesLeft
      <3>1. walls' = walls
        BY <2>2 DEF SettleWall, i
      <3> QED
        BY <1>1, <1>3, <2>2, <3>1
    <2> QED
      BY <2>1, <2>2
  (* The cells left come from other places than the cell taken. *)
  <1>9. \A k \in 1..spacesLeft - 1 : \E m \in 1..spacesLeft :
          /\ m # i /\ walls'[k] = walls[m]
          /\ m = IF i # spacesLeft /\ k >= i THEN k + 1 ELSE k
    BY <1>1, <1>2, <1>8
  <1>10. WallTypeOK'
    BY <1>1, <1>6, <1>7, <1>8 DEF WallTypeOK
  <1>11. WallsApart'
    <2>1. ASSUME NEW j \in 1..Len(settled) PROVE settled[j] # walls[i]
      BY <1>2, <2>1 DEF WallIInv, FreeCells
    <2> QED
      BY <1>6, <2>1 DEF WallIInv, WallsApart
  <1>12. FreeCells'
    <2>1. \A j, k \in 1..spacesLeft - 1 : walls'[j] = walls'[k] => j = k
      <3>1. SUFFICES ASSUME NEW j \in 1..spacesLeft - 1, NEW k \in 1..spacesLeft - 1,
                            walls'[j] = walls'[k]
                     PROVE  j = k
        OBVIOUS
      <3>2. PICK m \in 1..spacesLeft :
              walls'[j] = walls[m] /\ m = IF i # spacesLeft /\ j >= i THEN j + 1 ELSE j
        BY <1>9
      <3>3. PICK l \in 1..spacesLeft :
              walls'[k] = walls[l] /\ l = IF i # spacesLeft /\ k >= i THEN k + 1 ELSE k
        BY <1>9
      <3>4. m = l
        BY <3>1, <3>2, <3>3 DEF WallIInv, FreeCells
      <3> QED
        BY <1>1, <1>2, <3>2, <3>3, <3>4
    <2>2. \A k \in 1..spacesLeft - 1, j \in 1..Len(settled') : walls'[k] # settled'[j]
      <3>1. SUFFICES ASSUME NEW k \in 1..spacesLeft - 1, NEW j \in 1..Len(settled) + 1
                     PROVE  walls'[k] # settled'[j]
        BY <1>6
      <3>2. PICK m \in 1..spacesLeft : m # i /\ walls'[k] = walls[m]
        BY <1>9
      <3>3. CASE j = Len(settled) + 1
        BY <1>2, <1>6, <3>2, <3>3 DEF WallIInv, FreeCells
      <3>4. CASE j # Len(settled) + 1
        <4>1. j \in 1..Len(settled) /\ settled'[j] = settled[j]
          BY <1>6, <3>4
        <4> QED
          BY <3>2, <4>1 DEF WallIInv, FreeCells
      <3> QED
        BY <3>3, <3>4
    <2> QED
      BY <1>1, <1>7, <1>8, <2>1, <2>2 DEF FreeCells
  <1> QED
    BY <1>10, <1>11, <1>12 DEF WallIInv

LEMMA NextIInv == WallIInv /\ [WallNext]_wallVars => WallIInv'
  <1> SUFFICES ASSUME WallIInv, [WallNext]_wallVars PROVE WallIInv'
    OBVIOUS
  <1>1. CASE WallNext
    BY <1>1, StepIInv DEF WallNext
  <1>2. CASE UNCHANGED wallVars
    BY <1>2 DEF WallIInv, WallTypeOK, WallsApart, FreeCells, wallVars
  <1> QED
    BY <1>1, <1>2

----------------------------------------------------------------------------
(* In every state of the loop of initGame() the walls created so far are   *)
(* in different cells.                                                     *)
THEOREM WallsNeverMeet == WallSpec => []WallsApart
  <1>1. WallIInv => WallsApart
    BY DEF WallIInv
  <1> QED
    BY <1>1, InitIInv, NextIInv, PTL DEF WallSpec

----------------------------------------------------------------------------
(* Requests through the Server.                                            *)

HttpHandlers ==
  [sentAt : Nat, server : {"requests", "executes", "done"}, refs : 0..2,
   promise : HttpResults \union {NoResult}, textRefs : {0, 1}]

HttpCaptions == {"Request error", "HTTP response", "Request response is not filled"}

HttpTypeOK ==
  /\ frameTime \in Nat /\ eventTime \in Nat /\ requestPeriod \in Nat
  /\ isInFrame \in BOOLEAN
  /\ requests \in Seq(HttpHandlers)
  /\ httpEvents \in Seq([timestamp : Nat, caption : HttpCaptions])

(* A frame waits for the last request. *)
IsAwaited(i) == isInFrame /\ i = Len(requests)

(* What is referenced of a request, by which thread. *)
HandlerIsSound(i) ==
  /\ requests[i].refs = (IF requests[i].server = "done" THEN 0 ELSE 1)
                          + (IF IsAwaited(i) THEN 1 ELSE 0)
  /\ requests[i].promise.isSet <=> requests[i].server # "requests"
  /\ requests[i].textRefs =
       IF IsAwaited(i) /\ requests[i].promise.isSet /\ requests[i].promise.hasText
         THEN 1 ELSE 0

(* What became of a request that no frame waits for. *)
HandlerIsDone(i) ==
  ~IsAwaited(i) =>
    /\ requests[i].promise.isSet
    /\ httpEvents[i].timestamp = requests[i].sentAt
    /\ (httpEvents[i].caption = "HTTP response") <=>
         requests[i].promise.isOk /\ requests[i].promise.hasText

FrameIsOfRequest ==
  /\ isInFrame => requests # <<>> /\ requests[Len(requests)].sentAt = frameTime
  /\ Len(requests) = Len(httpEvents) + IF isInFrame THEN 1 ELSE 0

HttpIInv ==
  /\ HttpTypeOK
  /\ FrameIsOfRequest
  /\ \A i \in 1..Len(requests) : HandlerIsSound(i) /\ HandlerIsDone(i)

LEMMA HttpBegins == HttpInit => HttpIInv
  <1> SUFFICES ASSUME HttpInit PROVE HttpIInv
    OBVIOUS
  <1>1. /\ requests \in Seq(HttpHandlers) /\ Len(requests) = 0
        /\ httpEvents \in Seq([timestamp : Nat, caption : HttpCaptions]) /\ Len(httpEvents) = 0
    BY EmptySeq, Zenon DEF HttpInit
  <1>2. HttpTypeOK
    BY <1>1, RequestAssumption DEF HttpInit, HttpTypeOK
  <1>3. FrameIsOfRequest
    BY <1>1 DEF HttpInit, FrameIsOfRequest
  <1> QED
    BY <1>1, <1>2, <1>3 DEF HttpIInv

LEMMA HttpFacts ==
  ASSUME HttpIInv
  PROVE  /\ Len(requests) \in Nat /\ DOMAIN requests = 1..Len(requests)
         /\ \A i \in 1..Len(requests) : requests[i] \in HttpHandlers
         /\ Len(httpEvents) \in Nat
  BY LenProperties, ElementOfSeq DEF HttpIInv, HttpTypeOK

(* One handler changes and no thread begins or stops to wait. *)
LEMMA HandlerChanges ==
  ASSUME HttpIInv, NEW i \in 1..Len(requests), NEW changed \in HttpHandlers,
         requests' = [requests EXCEPT ![i] = changed],
         changed.sentAt = requests[i].sentAt,
         UNCHANGED <<frameTime, eventTime, requestPeriod, isInFrame, httpEvents>>,
         HandlerIsSound(i)',
         IsAwaited(i) \/ changed.promise = requests[i].promise
  PROVE  HttpIInv'
  <1>1. /\ requests' \in Seq(HttpHandlers) /\ Len(requests') = Len(requests)
        /\ \A j \in 1..Len(requests) :
             requests'[j] = IF j = i THEN changed ELSE requests[j]
    BY ExceptSeq DEF HttpIInv, HttpTypeOK
  <1>2. HttpTypeOK'
    BY <1>1 DEF HttpIInv, HttpTypeOK
  <1>3. \A j : IsAwaited(j)' <=> IsAwaited(j)
    BY <1>1 DEF IsAwaited
  <1>4. FrameIsOfRequest'
    <2>1. ASSUME isInFrame PROVE requests'[Len(requests)].sentAt = frameTime /\ requests' # <<>>
      <3>1. Len(requests) \in 1..Len(requests) /\ requests # <<>>
        BY <2>1, EmptySeq, HttpFacts DEF HttpIInv, HttpTypeOK, FrameIsOfRequest
      <3>2. Len(requests') # 0
        BY <1>1, <3>1
      <3> QED
        BY <1>1, <2>1, <3>1, <3>2, EmptySeq DEF HttpIInv, FrameIsOfRequest
    <2> QED
      BY <1>1, <2>1 DEF HttpIInv, FrameIsOfRequest
  <1>5. ASSUME NEW j \in 1..Len(requests) PROVE HandlerIsSound(j)' /\ HandlerIsDone(j)'
    <2>1. CASE j = i
      <3>1. HandlerIsDone(i)'
        <4>1. SUFFICES ASSUME ~IsAwaited(i)' PROVE HandlerIsDone(i)'
          BY DEF HandlerIsDone
        <4>2. ~IsAwaited(i) /\ HandlerIsDone(i)
          BY <1>3, <4>1 DEF HttpIInv
        <4>3. requests'[i].promise = requests[i].promise /\ requests'[i].sentAt = requests[i].sentAt
          BY <1>1, <4>2
        <4> QED
          BY <4>2, <4>3 DEF HandlerIsDone
      <3> QED
        BY <2>1, <3>1
    <2>2. CASE j # i
      <3>1. requests'[j] = requests[j]
        BY <1>1, <2>2
      <3>2. HandlerIsSound(j)'
        BY <1>3, <3>1 DEF HttpIInv, HandlerIsSound
      <3>3. HandlerIsDone(j)'
        BY <1>3, <3>1 DEF HttpIInv, HandlerIsDone
      <3> QED
        BY <3>2, <3>3
    <2> QED
      BY <2>1, <2>2
  <1> QED
    BY <1>1, <1>2, <1>4, <1>5 DEF HttpIInv

LEMMA ExecuteIsSound ==
  ASSUME HttpIInv, NEW i \in DOMAIN requests, NEW result \in HttpResults, Execute(i, result)
  PROVE  HttpIInv'
  <1> DEFINE changed == [requests[i] EXCEPT
        !.server = "executes", !.promise = result, !.textRefs = IF result.hasText THEN 1 ELSE 0]
  <1>1. i \in 1..Len(requests) /\ requests[i] \in HttpHandlers
    BY HttpFacts
  <1>2. /\ changed \in HttpHandlers /\ changed.sentAt = requests[i].sentAt
        /\ changed.server = "executes" /\ changed.promise = result
        /\ changed.textRefs = (IF result.hasText THEN 1 ELSE 0)
        /\ changed.refs = requests[i].refs
        /\ requests[i].server = "requests" /\ result.isSet /\ result.hasText \in BOOLEAN
    BY <1>1 DEF HttpHandlers, Execute, HttpResults
  <1>3. requests' = [requests EXCEPT ![i] = changed]
    BY DEF Execute
  <1> HIDE DEF changed
  <1>4. requests'[i] = changed /\ Len(requests') = Len(requests)
    BY <1>1, <1>2, <1>3, ExceptSeq DEF HttpIInv, HttpTypeOK
  <1>5. UNCHANGED <<frameTime, eventTime, requestPeriod, isInFrame, httpEvents>>
    BY DEF Execute
  <1>6. IsAwaited(i)
    BY <1>1, <1>2 DEF HttpIInv, HandlerIsSound, HandlerIsDone
  <1>7. IsAwaited(i)'
    BY <1>4, <1>5, <1>6 DEF IsAwaited
  <1>8. HandlerIsSound(i)'
    BY <1>1, <1>2, <1>4, <1>6, <1>7 DEF HttpIInv, HandlerIsSound
  <1> QED
    BY <1>1, <1>2, <1>3, <1>5, <1>6, <1>8, HandlerChanges

LEMMA EndExecuteIsSound ==
  ASSUME HttpIInv, NEW i \in DOMAIN requests, EndExecute(i)
  PROVE  HttpIInv'
  <1> DEFINE changed == [requests[i] EXCEPT !.server = "done", !.refs = requests[i].refs - 1]
  <1>1. i \in 1..Len(requests) /\ requests[i] \in HttpHandlers
    BY HttpFacts
  <1>2. requests[i].refs \in 1..2
    BY <1>1 DEF HttpIInv, HandlerIsSound, EndExecute
  <1>3. /\ changed \in HttpHandlers /\ changed.sentAt = requests[i].sentAt
        /\ changed.server = "done" /\ changed.promise = requests[i].promise
        /\ changed.textRefs = requests[i].textRefs
        /\ changed.refs = requests[i].refs - 1
        /\ requests[i].server = "executes"
    BY <1>1, <1>2 DEF HttpHandlers, EndExecute
  <1>4. requests' = [requests EXCEPT ![i] = changed]
    BY DEF EndExecute
  <1> HIDE DEF changed
  <1>5. requests'[i] = changed /\ Len(requests') = Len(requests)
    BY <1>1, <1>3, <1>4, ExceptSeq DEF HttpIInv, HttpTypeOK
  <1>6. UNCHANGED <<frameTime, eventTime, requestPeriod, isInFrame, httpEvents>>
    BY DEF EndExecute
  <1>7. IsAwaited(i)' <=> IsAwaited(i)
    BY <1>5, <1>6 DEF IsAwaited
  <1>8. HandlerIsSound(i)'
    BY <1>1, <1>2, <1>3, <1>5, <1>7 DEF HttpIInv, HandlerIsSound
  <1> QED
    BY <1>1, <1>3, <1>4, <1>6, <1>8, HandlerChanges

LEMMA SendIsSound ==
  ASSUME HttpIInv, NEW time \in RequestTimes, SendHttpRequest(time)
  PROVE  HttpIInv'
  <1> DEFINE changed == [sentAt |-> time, server |-> "requests", refs |-> 2,
                         promise |-> NoResult, textRefs |-> 0]
  <1>1. changed \in HttpHandlers /\ time \in Nat
    BY RequestAssumption DEF HttpHandlers
  <1>2. /\ changed.sentAt = time /\ changed.server = "requests" /\ changed.refs = 2
        /\ ~changed.promise.isSet /\ changed.textRefs = 0
    BY DEF NoResult
  <1>3. /\ requests' = Append(requests, changed)
        /\ ~isInFrame /\ isInFrame' /\ isInFrame' \in BOOLEAN
        /\ frameTime' = time /\ eventTime' = time /\ UNCHANGED <<requestPeriod, httpEvents>>
    BY DEF SendHttpRequest
  <1> HIDE DEF changed
  <1>4. /\ requests' \in Seq(HttpHandlers) /\ Len(requests') = Len(requests) + 1
        /\ requests'[Len(requests) + 1] = changed
        /\ \A j \in 1..Len(requests) : requests'[j] = requests[j]
    BY <1>1, <1>3, AppendProperties DEF HttpIInv, HttpTypeOK
  <1>5. Len(requests) \in Nat /\ Len(requests') # 0 /\ requests' # <<>>
    BY <1>4, HttpFacts, EmptySeq
  <1>6. HttpTypeOK'
    <2>1. isInFrame' \in BOOLEAN
      BY <1>3
    <2> QED
      BY <1>1, <1>3, <1>4, <2>1 DEF HttpIInv, HttpTypeOK
  <1>7. FrameIsOfRequest'
    BY <1>2, <1>3, <1>4, <1>5, HttpFacts DEF HttpIInv, FrameIsOfRequest
  <1>8. ASSUME NEW j \in 1..Len(requests) + 1 PROVE HandlerIsSound(j)' /\ HandlerIsDone(j)'
    <2>1. CASE j = Len(requests) + 1
      <3>1. IsAwaited(j)'
        BY <1>3, <1>4, <2>1 DEF IsAwaited
      <3>2. requests'[j] = changed
        BY <1>4, <2>1
      <3>3. HandlerIsDone(j)'
        BY <3>1 DEF HandlerIsDone
      <3> QED
        BY <1>2, <3>1, <3>2, <3>3 DEF HandlerIsSound
    <2>2. CASE j # Len(requests) + 1
      <3>1. j \in 1..Len(requests) /\ ~IsAwaited(j)' /\ ~IsAwaited(j)
        BY <1>3, <1>4, <1>5, <2>2 DEF IsAwaited
      <3>2. requests'[j] = requests[j] /\ httpEvents' = httpEvents
        BY <1>3, <1>4, <3>1
      <3> QED
        BY <3>1, <3>2 DEF HttpIInv, HandlerIsSound, HandlerIsDone
    <2> QED
      BY <2>1, <2>2
  <1> QED
    BY <1>4, <1>6, <1>7, <1>8 DEF HttpIInv

LEMMA FinishIsSound ==
  ASSUME HttpIInv, FinishFrame
  PROVE  HttpIInv'
  <1> DEFINE i == Len(requests)
             metadata == FillMetadata(requests[i].promise)
             event == [timestamp |-> frameTime, caption |-> metadata.caption]
             changed == [requests[i] EXCEPT
               !.refs = requests[i].refs - 1,
               !.textRefs = IF metadata.isTextReleased THEN requests[i].textRefs - 1
                                                       ELSE requests[i].textRefs]
  <1>1. /\ isInFrame /\ requests[i].promise.isSet
        /\ httpEvents' = Append(httpEvents, event)
        /\ requests' = [requests EXCEPT ![i] = changed]
        /\ isInFrame' = FALSE
        /\ UNCHANGED <<frameTime, eventTime, requestPeriod>>
    BY DEF FinishFrame
  <1>2. i \in 1..Len(requests) /\ requests[i] \in HttpHandlers
    BY <1>1, EmptySeq, HttpFacts DEF HttpIInv, HttpTypeOK, FrameIsOfRequest
  <1>3. requests[i].promise \in HttpResults
    BY <1>1, <1>2 DEF HttpHandlers, NoResult
  <1>4. /\ metadata.caption \in HttpCaptions
        /\ (metadata.caption = "HTTP response") <=>
             requests[i].promise.isOk /\ requests[i].promise.hasText
        /\ metadata.isTextReleased = requests[i].promise.hasText
        /\ requests[i].promise.hasText \in BOOLEAN
    <2>1. requests[i].promise.hasText \in BOOLEAN /\ requests[i].promise.isOk \in BOOLEAN
      BY <1>3 DEF HttpResults
    <2>2. metadata.isTextReleased = requests[i].promise.hasText
      BY DEF FillMetadata
    <2>3. metadata.caption = IF ~requests[i].promise.isOk THEN "Request error"
                             ELSE IF requests[i].promise.hasText THEN "HTTP response"
                             ELSE "Request response is not filled"
      BY DEF FillMetadata
    <2> HIDE DEF metadata
    <2>4. metadata.caption \in HttpCaptions
      BY <2>3, Zenon DEF HttpCaptions
    <2>5. CASE requests[i].promise.isOk /\ requests[i].promise.hasText
      <3>1. metadata.caption = "HTTP response"
        BY <2>3, <2>5
      <3> QED
        BY <2>1, <2>2, <2>4, <2>5, <3>1
    <2>6. CASE ~(requests[i].promise.isOk /\ requests[i].promise.hasText)
      <3>1. metadata.caption # "HTTP response"
        BY <2>1, <2>3, <2>6
      <3> QED
        BY <2>1, <2>2, <2>4, <2>6, <3>1
    <2> QED
      BY <2>5, <2>6
  <1>5. IsAwaited(i)
    BY <1>1 DEF IsAwaited
  <1>6. /\ requests[i].refs \in 1..2
        /\ requests[i].refs - 1 = IF requests[i].server = "done" THEN 0 ELSE 1
        /\ requests[i].textRefs = IF requests[i].promise.hasText THEN 1 ELSE 0
        /\ requests[i].server # "requests"
    BY <1>1, <1>2, <1>5 DEF HttpIInv, HandlerIsSound
  <1>7. /\ changed \in HttpHandlers /\ changed.sentAt = requests[i].sentAt
        /\ changed.server = requests[i].server /\ changed.promise = requests[i].promise
        /\ changed.refs = requests[i].refs - 1
        /\ changed.textRefs = 0
    <2> HIDE DEF metadata
    <2>1. (IF metadata.isTextReleased THEN requests[i].textRefs - 1
                                      ELSE requests[i].textRefs) = 0
      <3>1. CASE requests[i].promise.hasText
        <4>1. metadata.isTextReleased
          BY <1>4, <3>1, Zenon
        <4> QED
          BY <1>6, <3>1, <4>1
      <3>2. CASE ~requests[i].promise.hasText
        BY <1>4, <1>6, <3>2
      <3> QED
        BY <3>1, <3>2
    <2>2. requests[i].refs - 1 \in 0..2
      BY <1>6
    <2> QED
      BY <1>2, <2>1, <2>2 DEF HttpHandlers
  <1>8. event \in [timestamp : Nat, caption : HttpCaptions]
    BY <1>4 DEF HttpIInv, HttpTypeOK
  <1>9. event.timestamp = requests[i].sentAt /\ event.caption = metadata.caption
    BY <1>1 DEF HttpIInv, FrameIsOfRequest
  <1> HIDE DEF changed, event
  <1>10. /\ requests' \in Seq(HttpHandlers) /\ Len(requests') = Len(requests)
         /\ \A j \in 1..Len(requests) :
              requests'[j] = IF j = i THEN changed ELSE requests[j]
    BY <1>1, <1>2, <1>7, ExceptSeq DEF HttpIInv, HttpTypeOK
  <1>11. /\ httpEvents' \in Seq([timestamp : Nat, caption : HttpCaptions])
         /\ Len(httpEvents') = Len(httpEvents) + 1
         /\ httpEvents'[Len(httpEvents) + 1] = event
         /\ \A j \in 1..Len(httpEvents) : httpEvents'[j] = httpEvents[j]
    BY <1>1, <1>8, AppendProperties DEF HttpIInv, HttpTypeOK
  <1>12. Len(requests) = Len(httpEvents) + 1
    BY <1>1 DEF HttpIInv, FrameIsOfRequest
  <1>13. HttpTypeOK'
    BY <1>1, <1>10, <1>11 DEF HttpIInv, HttpTypeOK
  <1>14. FrameIsOfRequest'
    BY <1>1, <1>10, <1>11, <1>12, HttpFacts DEF FrameIsOfRequest
  <1>15. ASSUME NEW j \in 1..Len(requests) PROVE HandlerIsSound(j)' /\ HandlerIsDone(j)'
    <2>1. ~IsAwaited(j)'
      BY <1>1 DEF IsAwaited
    <2>2. CASE j = i
      <3>1. requests'[j] = changed /\ httpEvents'[j] = event
        BY <1>10, <1>11, <1>12, <2>2
      <3>2. HandlerIsSound(j)'
        <4>1. changed.refs = IF changed.server = "done" THEN 0 ELSE 1
          BY <1>6, <1>7
        <4>2. changed.promise.isSet /\ changed.server # "requests" /\ changed.textRefs = 0
          BY <1>1, <1>6, <1>7
        <4> QED
          BY <2>1, <3>1, <4>1, <4>2 DEF HandlerIsSound
      <3>3. HandlerIsDone(j)'
        <4>1. /\ changed.promise.isSet
              /\ event.timestamp = changed.sentAt
              /\ (event.caption = "HTTP response") <=>
                   changed.promise.isOk /\ changed.promise.hasText
          BY <1>1, <1>4, <1>7, <1>9, Zenon
        <4> QED
          BY <3>1, <4>1, Zenon DEF HandlerIsDone
      <3> QED
        BY <3>2, <3>3
    <2>3. CASE j # i
      <3>1. j \in 1..Len(httpEvents) /\ ~IsAwaited(j)
        BY <1>12, <2>3, HttpFacts DEF IsAwaited
      <3>2. requests'[j] = requests[j] /\ httpEvents'[j] = httpEvents[j]
        BY <1>10, <1>11, <2>3, <3>1
      <3> QED
        BY <2>1, <3>1, <3>2 DEF HttpIInv, HandlerIsSound, HandlerIsDone
    <2> QED
      BY <2>2, <2>3
  <1> QED
    BY <1>10, <1>13, <1>14, <1>15 DEF HttpIInv

LEMMA HttpIsKept == HttpIInv /\ [HttpNext]_httpVars => HttpIInv'
  <1> SUFFICES ASSUME HttpIInv, [HttpNext]_httpVars PROVE HttpIInv'
    OBVIOUS
  <1>1. CASE UNCHANGED <<requests, isInFrame, httpEvents, eventTime>>
                /\ (isInFrame => UNCHANGED frameTime)
                /\ frameTime' \in Nat /\ requestPeriod' \in Nat
    BY <1>1 DEF HttpIInv, HttpTypeOK, FrameIsOfRequest, HandlerIsSound, HandlerIsDone, IsAwaited
  <1>2. ASSUME NEW period \in RequestPeriods, ReceivePeriod(period) PROVE HttpIInv'
    BY <1>1, <1>2, RequestAssumption DEF ReceivePeriod, HttpIInv, HttpTypeOK
  <1>3. ASSUME NEW time \in RequestTimes, PassFrame(time) PROVE HttpIInv'
    BY <1>1, <1>3, RequestAssumption DEF PassFrame, HttpIInv, HttpTypeOK
  <1>4. CASE UNCHANGED httpVars
    BY <1>1, <1>4 DEF httpVars, HttpIInv, HttpTypeOK
  <1> QED
    BY <1>2, <1>3, <1>4, SendIsSound, ExecuteIsSound, EndExecuteIsSound, FinishIsSound
       DEF HttpNext

(* A request is answered by one event, of its own time and answer, neither *)
(* thread uses a handler that the other has deleted, and nothing is left   *)
(* of it, whichever thread ends last: for any number of requests.          *)
THEOREM AnswersAreGiven == HttpSpec => []RequestsAreAnswered
  <1>1. HttpIInv => RequestsAreAnswered
    <2> SUFFICES ASSUME HttpIInv PROVE RequestsAreAnswered
      OBVIOUS
    <2>1. DOMAIN requests = 1..Len(requests)
          /\ \A i \in 1..Len(requests) : requests[i] \in HttpHandlers
      BY HttpFacts
    <2>2. NoHandlerDiesInUse
      <3>1. ASSUME NEW i \in 1..Len(requests),
                   requests[i].server # "done" \/ IsAwaited(i)
            PROVE  requests[i].refs > 0
        <4>1. requests[i].refs = (IF requests[i].server = "done" THEN 0 ELSE 1)
                                   + (IF IsAwaited(i) THEN 1 ELSE 0)
          BY DEF HttpIInv, HandlerIsSound
        <4>2. CASE IsAwaited(i)
          BY <4>1, <4>2
        <4>3. CASE requests[i].server # "done" /\ ~IsAwaited(i)
          BY <4>1, <4>3
        <4> QED
          BY <3>1, <4>2, <4>3
      <3> QED
        BY <2>1, <3>1 DEF IsAwaited, NoHandlerDiesInUse
    <2>3. ASSUME ~isInFrame PROVE Len(httpEvents) = Len(requests)
      BY <2>3, HttpFacts DEF HttpIInv, FrameIsOfRequest
    <2>4. ASSUME ~isInFrame, NEW i \in 1..Len(requests)
          PROVE  /\ httpEvents[i].timestamp = requests[i].sentAt
                 /\ (httpEvents[i].caption = "HTTP response") <=>
                      requests[i].promise.isOk /\ requests[i].promise.hasText
                 /\ requests[i].textRefs = 0
                 /\ requests[i].server = "done" => requests[i].refs = 0
      <3>1. ~IsAwaited(i)
        BY <2>4 DEF IsAwaited
      <3>2. HandlerIsSound(i) /\ HandlerIsDone(i)
        BY DEF HttpIInv
      <3>3. /\ requests[i].textRefs = 0
            /\ requests[i].server = "done" => requests[i].refs = 0
        BY <3>1, <3>2 DEF HandlerIsSound
      <3> QED
        BY <3>1, <3>2, <3>3, Zenon DEF HandlerIsDone
    <2> QED
      BY <2>1, <2>2, <2>3, <2>4 DEF RequestsAreAnswered
  <1> QED
    BY <1>1, HttpBegins, HttpIsKept, PTL DEF HttpSpec

----------------------------------------------------------------------------
(* Frames that wait for their objects.                                     *)

Increases(s) == \A i, j \in 1..Len(s) : i < j => s[i] < s[j]

SpecialIInv ==
  /\ special.delay \in Nat
  /\ queue \in Seq(Timestamps) /\ Increases(queue)
  /\ Len(queue) <= special.delay + 1
  /\ ordered \in [yes : BOOLEAN, last : Int] /\ popped \in Int
  /\ ordered.yes =>
       /\ popped <= ordered.last
       /\ \A i \in 1..Len(queue) : popped < queue[i] /\ queue[i] <= ordered.last

(* Different times that increase are far apart when they are many.         *)
LEMMA TimesAreApart ==
  ASSUME NEW s \in Seq(Nat), Increases(s), NEW n \in 1..Len(s)
  PROVE  s[n] - s[1] >= n - 1
  <1> DEFINE Bad == {k \in 1..Len(s) : s[k] - s[1] < k - 1}
  <1>1. Bad = {}
    <2> SUFFICES ASSUME Bad # {} PROVE FALSE
      OBVIOUS
    <2>1. Len(s) \in Nat /\ \A k \in 1..Len(s) : s[k] \in Nat
      BY LenProperties, ElementOfSeq
    <2>2. Bad \in SUBSET Nat
      BY <2>1
    <2>3. PICK k \in Bad : \A m \in Bad : k <= m
      BY <2>2, LeastNumber
    <2>4. k \in 1..Len(s) /\ s[k] - s[1] < k - 1
      BY <2>3
    <2>5. k # 1
      BY <2>1, <2>4
    <2>6. k - 1 \in 1..Len(s) /\ k - 1 < k
      BY <2>1, <2>4, <2>5
    <2>7. ~(k - 1 \in Bad)
      BY <2>3, <2>6
    <2> HIDE DEF Bad
    <2>8. s[k - 1] \in Nat /\ s[1] \in Nat /\ s[k] \in Nat /\ k \in Int
      <3>1. 1 \in 1..Len(s)
        BY <2>1, <2>4
      <3> QED
        BY <2>1, <2>4, <2>6, <3>1
    <2>9. s[k - 1] - s[1] >= k - 2
      <3>1. ~(s[k - 1] - s[1] < (k - 1) - 1)
        BY <2>6, <2>7 DEF Bad
      <3> QED
        BY <2>8, <3>1
    <2>10. s[k - 1] < s[k]
      BY <2>4, <2>6 DEF Increases
    <2> QED
      BY <2>4, <2>8, <2>9, <2>10
  <1>2. ~(n \in Bad)
    BY <1>1
  <1>3. Len(s) \in Nat /\ s[n] \in Nat /\ s[1] \in Nat
    BY LenProperties, ElementOfSeq
  <1> QED
    BY <1>2, <1>3

(* The queue with the frame that comes.                                    *)
LEMMA QueueWithFrame ==
  ASSUME SpecialIInv, NEW ts \in Timestamps, NEW arrived, arrived = QueueWith(ts)
  PROVE  /\ arrived \in Seq(Timestamps) /\ Increases(arrived)
         /\ Len(arrived) \in 1..Len(queue) + 1
         /\ Len(arrived) > Len(queue) => arrived[Len(arrived)] = ts
         /\ \A i \in 1..Len(arrived) :
              arrived[i] = ts \/ (i \in 1..Len(queue) /\ arrived[i] = queue[i])
  <1>0. queue \in Seq(Timestamps) /\ Len(queue) \in Nat /\ ts \in Nat
        /\ \A i \in 1..Len(queue) : queue[i] \in Nat
    BY LenProperties, ElementOfSeq, SpecialAssumption DEF SpecialIInv
  <1>1. CASE queue = <<>>
    <2>1. arrived = <<ts>>
      BY <1>1 DEF QueueWith
    <2>2. Len(queue) = 0
      BY <1>1, EmptySeq
    <2>3. arrived = Append(queue, ts)
      BY <1>1, <2>1
    <2>4. arrived \in Seq(Timestamps) /\ Len(arrived) = 1 /\ arrived[1] = ts
      BY <1>0, <2>2, <2>3, AppendProperties
    <2>5. \A i \in 1..Len(arrived) : i = 1
      BY <2>4
    <2>6. Increases(arrived)
      BY <2>5 DEF Increases
    <2> QED
      BY <2>2, <2>4, <2>5, <2>6
  <1>2. CASE queue # <<>> /\ ~(queue[Len(queue)] < ts)
    <2>1. arrived = queue /\ Len(queue) # 0
      BY <1>0, <1>2, EmptySeq DEF QueueWith
    <2> QED
      BY <1>0, <2>1 DEF SpecialIInv
  <1>3. CASE queue # <<>> /\ queue[Len(queue)] < ts
    <2>1. arrived = Append(queue, ts) /\ Len(queue) # 0
      BY <1>0, <1>3, EmptySeq DEF QueueWith
    <2>2. /\ arrived \in Seq(Timestamps) /\ Len(arrived) = Len(queue) + 1
          /\ arrived[Len(queue) + 1] = ts
          /\ \A i \in 1..Len(queue) : arrived[i] = queue[i]
      BY <1>0, <2>1, AppendProperties
    <2>3. ASSUME NEW i \in 1..Len(queue) PROVE queue[i] < ts
      <3>1. CASE i = Len(queue)
        BY <1>3, <3>1
      <3>2. CASE i # Len(queue)
        <4>1. Len(queue) \in 1..Len(queue) /\ i < Len(queue)
          BY <1>0, <3>2
        <4>2. queue[i] < queue[Len(queue)]
          BY <4>1 DEF SpecialIInv, Increases
        <4> QED
          BY <1>0, <1>3, <4>1, <4>2
      <3> QED
        BY <3>1, <3>2
    <2>4. ASSUME NEW i \in 1..Len(arrived), NEW j \in 1..Len(arrived), i < j
          PROVE  arrived[i] < arrived[j]
      <3>1. i \in 1..Len(queue)
        BY <1>0, <2>2, <2>4
      <3>2. CASE j = Len(queue) + 1
        BY <2>2, <2>3, <3>1, <3>2
      <3>3. CASE j # Len(queue) + 1
        <4>1. j \in 1..Len(queue)
          BY <1>0, <2>2, <3>3
        <4> QED
          BY <2>2, <2>4, <3>1, <4>1 DEF SpecialIInv, Increases
      <3> QED
        BY <3>2, <3>3
    <2>5. \A i \in 1..Len(arrived) : i \in 1..Len(queue) \/ i = Len(queue) + 1
      BY <1>0, <2>2
    <2> QED
      BY <1>0, <2>2, <2>4, <2>5 DEF Increases
  <1> QED
    BY <1>1, <1>2, <1>3

(* A frame: what is known of the order of the frames afterwards.           *)
LEMMA FrameKeepsOrder ==
  ASSUME SpecialIInv, NEW ts \in Timestamps, ProcessVideoFrame(ts)
  PROVE  /\ ordered' \in [yes : BOOLEAN, last : Int] /\ ordered'.last = ts
         /\ ordered'.yes => ordered.yes /\ ordered.last < ts
  <1>1. ordered' = [yes |-> ordered.yes /\ ts > ordered.last, last |-> ts]
    BY DEF ProcessVideoFrame
  <1>2. (ordered.yes /\ ts > ordered.last) \in BOOLEAN
    BY Zenon
  <1>3. ts \in Int /\ ordered.last \in Int
    BY SpecialAssumption DEF SpecialIInv
  <1> QED
    BY <1>1, <1>2, <1>3

(* The frame is later than all that wait, as long as frames are in order.  *)
LEMMA FrameKeepsQueue ==
  ASSUME SpecialIInv, NEW ts \in Timestamps, ProcessVideoFrame(ts),
         NEW arrived, arrived = QueueWith(ts), ordered'.yes
  PROVE  /\ popped < ordered'.last
         /\ \A i \in 1..Len(arrived) : popped < arrived[i] /\ arrived[i] <= ordered'.last
  <1>1. /\ ordered'.last = ts /\ ordered.yes /\ ordered.last < ts
        /\ ts \in Nat /\ popped \in Int /\ ordered.last \in Int
    BY FrameKeepsOrder, SpecialAssumption DEF SpecialIInv
  <1>2. popped <= ordered.last
    BY <1>1 DEF SpecialIInv
  <1>3. ASSUME NEW i \in 1..Len(arrived)
        PROVE  popped < arrived[i] /\ arrived[i] <= ts
    <2>1. CASE arrived[i] = ts
      BY <1>1, <1>2, <2>1
    <2>2. CASE i \in 1..Len(queue) /\ arrived[i] = queue[i]
      <3>1. popped < queue[i] /\ queue[i] <= ordered.last
        BY <1>1, <2>2 DEF SpecialIInv
      <3>2. queue[i] \in Nat
        BY <2>2, ElementOfSeq, SpecialAssumption DEF SpecialIInv
      <3> QED
        BY <1>1, <2>2, <3>1, <3>2
    <2> QED
      BY <2>1, <2>2, QueueWithFrame
  <1> QED
    BY <1>1, <1>2, <1>3

(* When the frame that waits longest is not due, the frame that came makes *)
(* the queue longer only within the delay.                                 *)
LEMMA QueueIsWithinDelay ==
  ASSUME SpecialIInv, NEW ts \in Timestamps,
         NEW arrived, arrived = QueueWith(ts), ts - arrived[1] <= special.delay
  PROVE  Len(arrived) <= special.delay + 1
  <1>1. /\ arrived \in Seq(Timestamps) /\ Increases(arrived)
        /\ Len(arrived) \in 1..Len(queue) + 1
        /\ Len(arrived) > Len(queue) => arrived[Len(arrived)] = ts
    BY QueueWithFrame
  <1>2. arrived \in Seq(Nat)
    BY <1>1, SeqMonotonic, SpecialAssumption
  <1>3. Len(queue) \in Nat /\ Len(arrived) \in Nat /\ special.delay \in Nat
        /\ Len(queue) <= special.delay + 1
    BY <1>1, LenProperties DEF SpecialIInv
  <1>4. 1 \in 1..Len(arrived) /\ Len(arrived) \in 1..Len(arrived)
    BY <1>1, <1>3
  <1>5. arrived[1] \in Nat /\ arrived[Len(arrived)] \in Nat
    BY <1>2, <1>4, ElementOfSeq
  <1>6. CASE Len(arrived) > Len(queue)
    <2>1. arrived[Len(arrived)] - arrived[1] >= Len(arrived) - 1
      BY <1>1, <1>2, <1>4, TimesAreApart
    <2> QED
      BY <1>1, <1>3, <1>5, <1>6, <2>1
  <1> QED
    BY <1>1, <1>3, <1>6

LEMMA SettingsAreSound ==
  ASSUME SpecialIInv, NEW s \in SpecialSettings, SpecialSettingsReceived(s)
  PROVE  SpecialIInv'
  <1>1. s.delay \in Nat
    BY SpecialAssumption DEF SpecialSettings
  <1>2. CASE s.delay = special.delay
    BY <1>2 DEF SpecialIInv, SpecialSettingsReceived, Increases
  <1>3. CASE s.delay # special.delay
    <2>1. queue' = <<>> /\ Len(queue') = 0 /\ queue' \in Seq(Timestamps)
      BY <1>3, EmptySeq DEF SpecialSettingsReceived
    <2> QED
      BY <1>1, <2>1 DEF SpecialIInv, SpecialSettingsReceived, Increases
  <1> QED
    BY <1>2, <1>3

LEMMA NotNeededIsSound ==
  ASSUME SpecialIInv, NEW ts \in Timestamps, FrameIsNotNeeded(ts)
  PROVE  SpecialIInv'
  <1>1. queue' = <<>> /\ Len(queue') = 0 /\ queue' \in Seq(Timestamps)
    BY EmptySeq DEF FrameIsNotNeeded
  <1>2. ordered' \in [yes : BOOLEAN, last : Int]
        /\ (ordered'.yes => popped < ordered'.last)
    BY FrameKeepsOrder, FrameKeepsQueue DEF FrameIsNotNeeded
  <1>3. popped' = popped /\ special' = special
    BY DEF FrameIsNotNeeded
  <1>4. ordered'.last \in Int /\ popped \in Int
    BY <1>2 DEF SpecialIInv
  <1> QED
    BY <1>1, <1>2, <1>3, <1>4 DEF SpecialIInv, Increases

LEMMA ZeroIsSound ==
  ASSUME SpecialIInv, NEW ts \in Timestamps, FrameIsZero(ts)
  PROVE  SpecialIInv'
  <1>1. PICK arrived : arrived = QueueWith(ts)
    OBVIOUS
  <1>2. /\ arrived \in Seq(Timestamps) /\ Increases(arrived)
        /\ Len(arrived) \in 1..Len(queue) + 1
    BY <1>1, QueueWithFrame
  <1>3. ProcessVideoFrame(ts) /\ ts = 0
        /\ queue' = arrived /\ popped' = popped /\ special' = special
    BY <1>1 DEF FrameIsZero
  <1>4. ordered' \in [yes : BOOLEAN, last : Int]
    BY <1>3, FrameKeepsOrder
  <1>5. arrived[1] \in Nat
    <2>1. 1 \in 1..Len(arrived)
      BY <1>2
    <2> QED
      BY <1>2, <2>1, ElementOfSeq, SpecialAssumption
  <1>6. Len(arrived) <= special.delay + 1
    <2>1. ts - arrived[1] <= special.delay
      BY <1>3, <1>5 DEF SpecialIInv
    <2> QED
      BY <1>1, <2>1, QueueIsWithinDelay
  <1>7. ASSUME ordered'.yes
        PROVE  /\ popped <= ordered'.last
               /\ \A i \in 1..Len(arrived) : popped < arrived[i] /\ arrived[i] <= ordered'.last
    <2>1. popped < ordered'.last
          /\ \A i \in 1..Len(arrived) : popped < arrived[i] /\ arrived[i] <= ordered'.last
      BY <1>1, <1>3, <1>7, FrameKeepsQueue
    <2>2. popped \in Int /\ ordered'.last \in Int
      BY <1>4 DEF SpecialIInv
    <2> QED
      BY <2>1, <2>2
  <1> QED
    BY <1>2, <1>3, <1>4, <1>6, <1>7 DEF SpecialIInv, Increases

LEMMA CookIsSound ==
  ASSUME SpecialIInv, NEW ts \in Timestamps, CookSomeObjects(ts)
  PROVE  SpecialIInv'
  <1>1. PICK arrived : arrived = QueueWith(ts)
    OBVIOUS
  <1>2. /\ arrived \in Seq(Timestamps) /\ Increases(arrived)
        /\ Len(arrived) \in 1..Len(queue) + 1
    BY <1>1, QueueWithFrame
  <1>3. /\ ProcessVideoFrame(ts) /\ special' = special
        /\ IF ts - Head(arrived) >= special.delay
             THEN queue' = Tail(arrived) /\ popped' = Head(arrived)
             ELSE queue' = arrived /\ popped' = popped
    BY <1>1 DEF CookSomeObjects
  <1>4. ordered' \in [yes : BOOLEAN, last : Int]
    BY <1>3, FrameKeepsOrder
  <1>5. Len(arrived) \in Nat /\ Len(arrived) # 0 /\ arrived # <<>>
        /\ Len(queue) \in Nat /\ special.delay \in Nat
        /\ ts \in Nat /\ \A i \in 1..Len(arrived) : arrived[i] \in Nat
    <2>1. Len(arrived) \in Nat /\ Len(arrived) # 0 /\ arrived # <<>>
      BY <1>2, EmptySeq, LenProperties
    <2>2. Len(queue) \in Nat /\ special.delay \in Nat
      BY LenProperties DEF SpecialIInv
    <2>3. ts \in Nat /\ \A i \in 1..Len(arrived) : arrived[i] \in Nat
      BY <1>2, ElementOfSeq, SpecialAssumption
    <2> QED
      BY <2>1, <2>2, <2>3
  <1>6. Head(arrived) = arrived[1] /\ 1 \in 1..Len(arrived)
    BY <1>5
  <1>7. ASSUME ordered'.yes
        PROVE  \A i \in 1..Len(arrived) : popped < arrived[i] /\ arrived[i] <= ordered'.last
    BY <1>1, <1>3, <1>7, FrameKeepsQueue
  <1>8. ASSUME ordered'.yes PROVE popped <= ordered'.last
    <2>1. popped < ordered'.last
      BY <1>1, <1>3, <1>8, FrameKeepsQueue
    <2>2. popped \in Int /\ ordered'.last \in Int
      BY <1>4 DEF SpecialIInv
    <2> QED
      BY <2>1, <2>2
  <1>9. CASE ts - Head(arrived) >= special.delay
    <2>1. queue' = Tail(arrived) /\ popped' = arrived[1]
      BY <1>3, <1>6, <1>9
    <2>2. /\ queue' \in Seq(Timestamps) /\ Len(queue') = Len(arrived) - 1
          /\ \A i \in 1..Len(queue') : queue'[i] = arrived[i + 1]
      BY <1>2, <1>5, <2>1, HeadTailProperties
    <2>3. \A i \in 1..Len(queue') : i + 1 \in 1..Len(arrived) /\ 1 < i + 1 /\ i \in Int
      BY <1>5, <2>2
    <2>4. \A i, j \in 1..Len(queue') : i < j => i + 1 < j + 1
      BY <2>3
    <2>5. Increases(queue')
      BY <1>2, <2>2, <2>3, <2>4 DEF Increases
    <2>6. Len(queue') <= special.delay + 1
      BY <1>2, <1>5, <2>2 DEF SpecialIInv
    <2>7. popped' \in Int
      BY <1>5, <1>6, <2>1
    <2>8. ASSUME ordered'.yes
          PROVE  /\ popped' <= ordered'.last
                 /\ \A i \in 1..Len(queue') : popped' < queue'[i] /\ queue'[i] <= ordered'.last
      BY <1>2, <1>6, <1>7, <2>1, <2>2, <2>3, <2>8 DEF Increases
    <2> HIDE DEF SpecialIInv
    <2> QED
      BY <1>3, <1>4, <1>5, <2>2, <2>5, <2>6, <2>7, <2>8 DEF SpecialIInv, Increases
  <1>10. CASE ~(ts - Head(arrived) >= special.delay)
    <2>1. queue' = arrived /\ popped' = popped
      BY <1>3, <1>10
    <2>2. Len(arrived) <= special.delay + 1
      <3>1. ts - arrived[1] <= special.delay
        BY <1>5, <1>6, <1>10
      <3> QED
        BY <1>1, <3>1, QueueIsWithinDelay
    <2> QED
      BY <1>2, <1>3, <1>4, <1>7, <1>8, <2>1, <2>2 DEF SpecialIInv, Increases
  <1> QED
    BY <1>9, <1>10

LEMMA PullIsSound ==
  ASSUME SpecialIInv, PullWithoutFrame
  PROVE  SpecialIInv'
  <1>1. CASE queue' = queue
    BY <1>1 DEF SpecialIInv, PullWithoutFrame, Increases
  <1>2. CASE queue' = <<>>
    <2>1. Len(queue') = 0 /\ queue' \in Seq(Timestamps)
      BY <1>2, EmptySeq
    <2> QED
      BY <2>1 DEF SpecialIInv, PullWithoutFrame, Increases
  <1> QED
    BY <1>1, <1>2 DEF PullWithoutFrame

LEMMA SpecialBegins == SpecialInit => SpecialIInv
  <1> SUFFICES ASSUME SpecialInit PROVE SpecialIInv
    OBVIOUS
  <1>1. queue \in Seq(Timestamps) /\ Len(queue) = 0
    BY EmptySeq DEF SpecialInit
  <1> QED
    BY <1>1 DEF SpecialInit, SpecialIInv, Increases

LEMMA SpecialIsKept == SpecialIInv /\ [SpecialNext]_specialVars => SpecialIInv'
  <1> SUFFICES ASSUME SpecialIInv, [SpecialNext]_specialVars PROVE SpecialIInv'
    OBVIOUS
  <1>1. CASE UNCHANGED specialVars
    BY <1>1 DEF specialVars, SpecialIInv, Increases
  <1> QED
    BY <1>1, SettingsAreSound, NotNeededIsSound, ZeroIsSound, CookIsSound, PullIsSound
       DEF SpecialNext

(* Frames in any order, and settings at any time, never make the queue of  *)
(* delayed frames longer than the delay allows, nor spoil its order.       *)
THEOREM DelayIsBounded == SpecialSpec => []QueueFollowsFrames
  <1>1. SpecialIInv => QueueFollowsFrames
    <2> SUFFICES ASSUME SpecialIInv PROVE QueueFollowsFrames
      OBVIOUS
    <2>1. DOMAIN queue = 1..Len(queue)
      BY LenProperties DEF SpecialIInv
    <2> QED
      BY <2>1 DEF SpecialIInv, Increases, QueueFollowsFrames
  <1> QED
    BY <1>1, SpecialBegins, SpecialIsKept, PTL DEF SpecialSpec

----------------------------------------------------------------------------
(* Best shots and titles.                                                  *)

ShotTracks == [id : Nat, x : 0..Span]

ShotsAreTyped ==
  /\ shotEnabled \in [Features -> BOOLEAN] /\ shotNumber \in [Features -> Nat]
  /\ created \in [Features -> Nat]
  /\ tracks \in [Features -> Seq(ShotTracks)]

(* The counter of a track says how many frames are left before its shot,   *)
(* and a track is in the picture until it is too old.                      *)
ShotsAreSound(f) ==
  /\ DOMAIN age[f] \subseteq 1..created[f] /\ DOMAIN shots[f] = DOMAIN age[f]
  /\ DOMAIN shotCounter[f] = {t \in DOMAIN age[f] : age[f][t] <= shotNumber[f]}
  /\ \A t \in DOMAIN shotCounter[f] : shotCounter[f][t] = shotNumber[f] - age[f][t]
  /\ \A t \in DOMAIN age[f] :
       /\ age[f][t] \in Nat
       /\ shots[f][t] = IF age[f][t] > shotNumber[f] THEN 1 ELSE 0
       /\ age[f][t] <= Span =>
            \E i \in DOMAIN tracks[f] : tracks[f][i].id = t /\ tracks[f][i].x <= age[f][t]

ShotIInv == ShotsAreTyped /\ \A f \in Features : ShotsAreSound(f)

LEMMA FunctionIsSeq ==
  ASSUME NEW S, NEW n \in Nat, NEW s \in [1..n -> S]
  PROVE  s \in Seq(S)
  BY SeqDef, Zenon

LEMMA ShotFacts ==
  ASSUME ShotsAreTyped, NEW f \in Features
  PROVE  /\ Len(tracks[f]) \in Nat /\ DOMAIN tracks[f] = 1..Len(tracks[f])
         /\ \A i \in DOMAIN tracks[f] : tracks[f][i] \in ShotTracks
         /\ shotEnabled[f] \in BOOLEAN /\ shotNumber[f] \in Nat /\ created[f] \in Nat
  <1>1. tracks[f] \in Seq(ShotTracks)
    BY DEF ShotsAreTyped
  <1>2. /\ Len(tracks[f]) \in Nat /\ DOMAIN tracks[f] = 1..Len(tracks[f])
        /\ \A i \in DOMAIN tracks[f] : tracks[f][i] \in ShotTracks
    BY <1>1, LenProperties, ElementOfSeq
  <1>3. shotEnabled[f] \in BOOLEAN /\ shotNumber[f] \in Nat /\ created[f] \in Nat
    BY DEF ShotsAreTyped
  <1> QED
    BY <1>2, <1>3

(* Tracks that begin again get ids that no track has had.                  *)
LEMMA RenewedFacts ==
  ASSUME ShotsAreTyped, NEW f \in Features
  PROVE  /\ Cardinality(Ended(f)) \in Nat
         /\ DOMAIN Renewed(f) = Ended(f)
         /\ \A i \in Ended(f) :
              Renewed(f)[i] \in created[f] + 1 .. created[f] + Cardinality(Ended(f))
  <1>1. /\ Len(tracks[f]) \in Nat /\ DOMAIN tracks[f] = 1..Len(tracks[f])
        /\ created[f] \in Nat
    BY ShotFacts
  <1>2. IsFiniteSet(1..Len(tracks[f])) /\ Ended(f) \in SUBSET (1..Len(tracks[f]))
    <2>1. IsFiniteSet(1..Len(tracks[f]))
      BY <1>1, FS_Interval
    <2>2. Ended(f) \subseteq 1..Len(tracks[f])
      BY <1>1 DEF Ended
    <2> QED
      BY <2>1, <2>2
  <1>3. IsFiniteSet(Ended(f))
    BY <1>2, FS_Subset
  <1>4. Cardinality(Ended(f)) \in Nat
    BY <1>3, FS_CardinalityType
  <1>5. ASSUME NEW i \in Ended(f)
        PROVE  Renewed(f)[i] \in created[f] + 1 .. created[f] + Cardinality(Ended(f))
    <2> DEFINE before == {j \in Ended(f) : j <= i}
    <2>1. before \in SUBSET Ended(f) /\ i \in before
      BY <1>2
    <2> HIDE DEF before
    <2>2. IsFiniteSet(before) /\ Cardinality(before) <= Cardinality(Ended(f))
      BY <1>3, <2>1, FS_Subset
    <2>3. Cardinality(before) \in Nat /\ Cardinality(before) # 0
      BY <2>1, <2>2, FS_CardinalityType, FS_EmptySet
    <2>4. Renewed(f)[i] = created[f] + Cardinality(before)
      BY DEF Renewed, before
    <2> QED
      BY <1>1, <1>4, <2>2, <2>3, <2>4
  <1> QED
    BY <1>4, <1>5 DEF Renewed

LEMMA MovedFacts ==
  ASSUME ShotsAreTyped, NEW f \in Features
  PROVE  /\ MovedTracks(f) \in Seq(ShotTracks)
         /\ DOMAIN MovedTracks(f) = DOMAIN tracks[f]
         /\ \A i \in DOMAIN tracks[f] :
              /\ i \in Ended(f) <=> tracks[f][i].x + 1 > Span
              /\ i \in Ended(f) => /\ MovedTracks(f)[i].id = Renewed(f)[i]
                                   /\ MovedTracks(f)[i].x = 0
              /\ i \notin Ended(f) => /\ MovedTracks(f)[i].id = tracks[f][i].id
                                      /\ MovedTracks(f)[i].x = tracks[f][i].x + 1
  <1>1. /\ Len(tracks[f]) \in Nat /\ DOMAIN tracks[f] = 1..Len(tracks[f])
        /\ \A i \in DOMAIN tracks[f] : tracks[f][i] \in ShotTracks
        /\ created[f] \in Nat
    BY ShotFacts
  <1>2. ASSUME NEW i \in DOMAIN tracks[f]
        PROVE  i \in Ended(f) <=> tracks[f][i].x + 1 > Span
    BY DEF Ended, IsOver
  <1>3. ASSUME NEW i \in DOMAIN tracks[f], i \in Ended(f)
        PROVE  /\ MovedTracks(f)[i] = [id |-> Renewed(f)[i], x |-> 0]
               /\ MovedTracks(f)[i] \in ShotTracks
    <2>1. Renewed(f)[i] \in Nat
      BY <1>1, <1>3, RenewedFacts
    <2> QED
      BY <1>3, <2>1, ShotAssumption DEF MovedTracks, ShotTracks
  <1>4. ASSUME NEW i \in DOMAIN tracks[f], i \notin Ended(f)
        PROVE  /\ MovedTracks(f)[i].id = tracks[f][i].id
               /\ MovedTracks(f)[i].x = tracks[f][i].x + 1
               /\ MovedTracks(f)[i] \in ShotTracks
    <2>1. tracks[f][i] \in ShotTracks /\ tracks[f][i].x + 1 <= Span
      BY <1>1, <1>2, <1>4, ShotAssumption DEF ShotTracks
    <2>2. MovedTracks(f)[i] = [tracks[f][i] EXCEPT !.x = tracks[f][i].x + 1]
      BY <1>4 DEF MovedTracks
    <2> QED
      BY <2>1, <2>2, ShotAssumption DEF ShotTracks
  <1>5. DOMAIN MovedTracks(f) = DOMAIN tracks[f]
    BY DEF MovedTracks
  <1>6. MovedTracks(f) \in [1..Len(tracks[f]) -> ShotTracks]
    <2>1. \A i \in 1..Len(tracks[f]) : MovedTracks(f)[i] \in ShotTracks
      BY <1>1, <1>3, <1>4
    <2>2. MovedTracks(f) = [i \in 1..Len(tracks[f]) |-> MovedTracks(f)[i]]
      BY <1>1 DEF MovedTracks
    <2> QED
      BY <2>1, <2>2
  <1>7. MovedTracks(f) \in Seq(ShotTracks)
    BY <1>1, <1>6, FunctionIsSeq
  <1>8. ASSUME NEW i \in DOMAIN tracks[f], i \in Ended(f)
        PROVE  MovedTracks(f)[i].id = Renewed(f)[i] /\ MovedTracks(f)[i].x = 0
    <2>1. MovedTracks(f)[i] = [id |-> Renewed(f)[i], x |-> 0]
      BY <1>3, <1>8
    <2> QED
      BY <2>1
  <1> QED
    BY <1>2, <1>4, <1>5, <1>7, <1>8

(* A frame of one feature.                                                 *)
LEMMA ShotFrameIsSound ==
  ASSUME ShotIInv, NEW f \in Features,
         shotNumber'[f] = shotNumber[f],
         tracks'[f] = MovedTracks(f),
         shotCounter'[f] = Remaining(f),
         created'[f] = created[f] + Cardinality(Ended(f)),
         age'[f] = [t \in DOMAIN age[f] \union Range(Renewed(f)) |->
                      (IF t \in DOMAIN age[f] THEN age[f][t] ELSE 0) + 1],
         shots'[f] = [t \in DOMAIN age[f] \union Range(Renewed(f)) |->
                        (IF t \in DOMAIN shots[f] THEN shots[f][t] ELSE 0)
                          + IF t \in Due(f) THEN 1 ELSE 0]
  PROVE  ShotsAreSound(f)'
  <1> DEFINE new == Range(Renewed(f))
             n == shotNumber[f]
             all == CountersOfAll(f)
  <1>1. n \in Nat /\ created[f] \in Nat /\ created'[f] \in Nat
        /\ created[f] <= created'[f]
    BY ShotFacts, RenewedFacts DEF ShotIInv
  <1>2. \A t \in new : t \in created[f] + 1 .. created'[f] /\ t \in Nat
    BY <1>1, RenewedFacts DEF ShotIInv, Range
  <1>3. /\ DOMAIN age[f] \subseteq 1..created[f] /\ DOMAIN shots[f] = DOMAIN age[f]
        /\ DOMAIN shotCounter[f] = {t \in DOMAIN age[f] : age[f][t] <= n}
        /\ \A t \in DOMAIN shotCounter[f] : shotCounter[f][t] = n - age[f][t]
        /\ \A t \in DOMAIN age[f] : age[f][t] \in Nat
        /\ \A t \in DOMAIN age[f] : shots[f][t] = IF age[f][t] > n THEN 1 ELSE 0
    BY DEF ShotIInv, ShotsAreSound
  <1>4. \A t \in new : t \notin DOMAIN age[f]
    BY <1>1, <1>2, <1>3
  (* How old the tracks are. *)
  <1>5. /\ DOMAIN age'[f] = DOMAIN age[f] \union new
        /\ \A t \in DOMAIN age[f] : age'[f][t] = age[f][t] + 1
        /\ \A t \in new : age'[f][t] = 1
    BY <1>4
  <1>6. /\ DOMAIN all = DOMAIN shotCounter[f] \union new
        /\ \A t \in DOMAIN shotCounter[f] : all[t] = n - age[f][t]
        /\ \A t \in new : all[t] = n
    BY <1>3, <1>4 DEF CountersOfAll
  (* The shots that are due. *)
  <1> HIDE DEF new, n
  <1>7. /\ \A t \in DOMAIN age[f] : t \in Due(f) <=> age[f][t] = n
        /\ \A t \in new : t \in Due(f) <=> n = 0
        /\ Due(f) \subseteq DOMAIN all
    <2>1. Due(f) = {t \in DOMAIN all : all[t] = 0}
      BY DEF Due
    <2> HIDE DEF all
    <2>2. \A t \in DOMAIN age[f] : age[f][t] = n => t \in DOMAIN shotCounter[f]
      BY <1>1, <1>3
    <2>3. \A t \in DOMAIN age[f] : t \in Due(f) <=> age[f][t] = n
      <3> SUFFICES ASSUME NEW t \in DOMAIN age[f]
                   PROVE  t \in Due(f) <=> age[f][t] = n
        OBVIOUS
      <3>1. t \notin new /\ age[f][t] \in Nat
        BY <1>3, <1>4
      <3>2. t \in DOMAIN all <=> t \in DOMAIN shotCounter[f]
        BY <1>6, <3>1
      <3>3. CASE t \in DOMAIN shotCounter[f]
        <4>1. all[t] = n - age[f][t]
          BY <1>6, <3>3
        <4>2. all[t] = 0 <=> age[f][t] = n
          <5>1. n \in Nat /\ age[f][t] \in Nat
            BY <1>1, <3>1
          <5>2. n - age[f][t] = 0 <=> age[f][t] = n
            BY <5>1
          <5> QED
            BY <4>1, <5>2, Zenon
        <4> QED
          BY <2>1, <3>2, <3>3, <4>2
      <3>4. CASE t \notin DOMAIN shotCounter[f]
        BY <2>1, <2>2, <3>2, <3>4
      <3> QED
        BY <3>3, <3>4
    <2>4. \A t \in new : t \in Due(f) <=> n = 0
      BY <1>1, <1>6, <2>1
    <2> QED
      BY <2>1, <2>3, <2>4
  <1>8. /\ DOMAIN shotCounter'[f] = DOMAIN all \ Due(f)
        /\ \A t \in DOMAIN all \ Due(f) : shotCounter'[f][t] = all[t] - 1
    BY DEF Remaining
  <1> HIDE DEF all
  <1>9. DOMAIN shotCounter'[f] = {t \in DOMAIN age'[f] : age'[f][t] <= n}
    <2>1. ASSUME NEW t \in DOMAIN age[f]
          PROVE  t \in DOMAIN shotCounter'[f] <=> age'[f][t] <= n
      <3>1. age[f][t] \in Nat /\ age'[f][t] = age[f][t] + 1
        BY <1>3, <1>5
      <3>2. t \in DOMAIN all <=> age[f][t] <= n
        BY <1>3, <1>4, <1>6
      <3>3. t \in DOMAIN shotCounter'[f] <=> age[f][t] <= n /\ age[f][t] # n
        BY <1>7, <1>8, <3>2
      <3> QED
        BY <1>1, <3>1, <3>3
    <2>2. ASSUME NEW t \in new
          PROVE  t \in DOMAIN shotCounter'[f] <=> age'[f][t] <= n
      <3>1. t \in DOMAIN shotCounter'[f] <=> n # 0
        BY <1>6, <1>7, <1>8
      <3> QED
        <4>1. age'[f][t] = 1
          BY <1>5
        <4>2. n # 0 <=> 1 <= n
          BY <1>1
        <4> QED
          BY <3>1, <4>1, <4>2
    <2> QED
      BY <1>3, <1>5, <1>6, <1>8, <2>1, <2>2
  <1>10. \A t \in DOMAIN shotCounter'[f] : shotCounter'[f][t] = n - age'[f][t]
    <2>1. ASSUME NEW t \in DOMAIN shotCounter'[f]
          PROVE  shotCounter'[f][t] = n - age'[f][t]
      <3>1. t \in DOMAIN all /\ shotCounter'[f][t] = all[t] - 1
        BY <1>8
      <3>2. CASE t \in DOMAIN shotCounter[f]
        <4>1. age[f][t] \in Nat /\ age'[f][t] = age[f][t] + 1 /\ all[t] = n - age[f][t]
          BY <1>3, <1>5, <1>6, <3>2
        <4>2. (n - age[f][t]) - 1 = n - (age[f][t] + 1)
          BY <1>1, <4>1
        <4> QED
          BY <3>1, <4>1, <4>2
      <3>3. CASE t \in new
        <4>1. all[t] = n /\ age'[f][t] = 1
          BY <1>5, <1>6, <3>3
        <4> QED
          BY <1>1, <3>1, <4>1
      <3> QED
        BY <1>6, <3>1, <3>2, <3>3
    <2> QED
      BY <2>1
  <1>11. ASSUME NEW t \in DOMAIN age'[f]
         PROVE  /\ age'[f][t] \in Nat
                /\ shots'[f][t] = IF age'[f][t] > n THEN 1 ELSE 0
    <2>1. shots'[f][t] = (IF t \in DOMAIN age[f] THEN shots[f][t] ELSE 0)
                           + IF t \in Due(f) THEN 1 ELSE 0
      BY <1>3, <1>5 DEF new
    <2>2. CASE t \in DOMAIN age[f]
      <3>1. /\ age[f][t] \in Nat /\ age'[f][t] = age[f][t] + 1
            /\ shots[f][t] = IF age[f][t] > n THEN 1 ELSE 0
        BY <1>3, <1>5, <2>2
      <3>2. shots'[f][t] = shots[f][t] + IF age[f][t] = n THEN 1 ELSE 0
        <4>1. t \in Due(f) <=> age[f][t] = n
          BY <1>7, <2>2
        <4>2. CASE t \in Due(f)
          BY <2>1, <2>2, <4>1, <4>2
        <4>3. CASE t \notin Due(f)
          BY <2>1, <2>2, <4>1, <4>3
        <4> QED
          BY <4>2, <4>3
      <3> QED
        BY <1>1, <3>1, <3>2
    <2>3. CASE t \in new
      BY <1>1, <1>4, <1>5, <1>7, <2>1, <2>3
    <2> QED
      BY <1>5, <2>2, <2>3
  <1>12. ASSUME NEW t \in DOMAIN age'[f], age'[f][t] <= Span
         PROVE  \E i \in DOMAIN tracks'[f] :
                  tracks'[f][i].id = t /\ tracks'[f][i].x <= age'[f][t]
    <2>1. CASE t \in DOMAIN age[f]
      <3>1. age[f][t] \in Nat /\ age[f][t] + 1 <= Span /\ Span \in Nat
        BY <1>3, <1>5, <1>12, <2>1, ShotAssumption
      <3>2. PICK i \in DOMAIN tracks[f] : tracks[f][i].id = t /\ tracks[f][i].x <= age[f][t]
        BY <2>1, <3>1 DEF ShotIInv, ShotsAreSound
      <3>3. tracks[f][i] \in ShotTracks
        BY ShotFacts DEF ShotIInv
      <3>4. tracks[f][i].x \in Nat
        BY <3>1, <3>3 DEF ShotTracks
      <3>5. i \notin Ended(f)
        BY <3>1, <3>2, <3>4, MovedFacts DEF ShotIInv
      <3> QED
        BY <1>5, <2>1, <3>1, <3>2, <3>4, <3>5, MovedFacts DEF ShotIInv
    <2>2. CASE t \in new
      <3>1. PICK i \in Ended(f) : Renewed(f)[i] = t
        BY <2>2, RenewedFacts DEF ShotIInv, new, Range
      <3>2. i \in DOMAIN tracks[f]
        BY DEF Ended
      <3> QED
        <4>1. age'[f][t] = 1 /\ tracks'[f][i].id = t /\ tracks'[f][i].x = 0
          <5>1. age'[f][t] = 1
            BY <1>5, <2>2
          <5>2. MovedTracks(f)[i].id = Renewed(f)[i] /\ MovedTracks(f)[i].x = 0
            BY <3>1, <3>2, MovedFacts DEF ShotIInv
          <5> QED
            BY <3>1, <5>1, <5>2
        <4>2. i \in DOMAIN tracks'[f]
          BY <3>2, MovedFacts DEF ShotIInv
        <4> QED
          BY <4>1, <4>2
    <2> QED
      BY <1>5, <2>1, <2>2
  <1>13. DOMAIN age'[f] \subseteq 1..created'[f] /\ DOMAIN shots'[f] = DOMAIN age'[f]
    BY <1>1, <1>2, <1>3, <1>5 DEF new
  <1> QED
    BY <1>9, <1>10, <1>11, <1>12, <1>13 DEF ShotsAreSound, n

LEMMA PushFrameIsSound ==
  ASSUME ShotIInv, PushShotFrame
  PROVE  ShotIInv'
  <1>1. shotEnabled' = shotEnabled /\ shotNumber' = shotNumber
    BY DEF PushShotFrame
  <1>2. ASSUME NEW f \in Features, shotEnabled[f]
        PROVE  /\ tracks'[f] = MovedTracks(f)
               /\ shotCounter'[f] = Remaining(f)
               /\ created'[f] = created[f] + Cardinality(Ended(f))
               /\ age'[f] = [t \in DOMAIN age[f] \union Range(Renewed(f)) |->
                               (IF t \in DOMAIN age[f] THEN age[f][t] ELSE 0) + 1]
               /\ shots'[f] = [t \in DOMAIN age[f] \union Range(Renewed(f)) |->
                                 (IF t \in DOMAIN shots[f] THEN shots[f][t] ELSE 0)
                                   + IF t \in Due(f) THEN 1 ELSE 0]
    BY <1>2, Zenon DEF PushShotFrame
  <1>3. ASSUME NEW f \in Features, ~shotEnabled[f]
        PROVE  /\ tracks'[f] = tracks[f] /\ shotCounter'[f] = shotCounter[f]
               /\ created'[f] = created[f] /\ age'[f] = age[f] /\ shots'[f] = shots[f]
    BY <1>3, Zenon DEF PushShotFrame
  <1>4. ShotsAreTyped'
    <2>1. \A f \in Features : created'[f] \in Nat /\ tracks'[f] \in Seq(ShotTracks)
      <3>1. ASSUME NEW f \in Features, shotEnabled[f]
            PROVE  created'[f] \in Nat /\ tracks'[f] \in Seq(ShotTracks)
        <4>1. Cardinality(Ended(f)) \in Nat /\ created[f] \in Nat
          BY RenewedFacts, ShotFacts DEF ShotIInv
        <4>2. MovedTracks(f) \in Seq(ShotTracks)
          BY MovedFacts DEF ShotIInv
        <4>3. /\ tracks'[f] = MovedTracks(f)
              /\ created'[f] = created[f] + Cardinality(Ended(f))
          BY <1>2, <3>1
        <4> QED
          BY <4>1, <4>2, <4>3
      <3>2. ASSUME NEW f \in Features, ~shotEnabled[f]
            PROVE  created'[f] \in Nat /\ tracks'[f] \in Seq(ShotTracks)
        <4>1. created[f] \in Nat /\ tracks[f] \in Seq(ShotTracks)
          BY DEF ShotIInv, ShotsAreTyped
        <4> QED
          BY <1>3, <3>2, <4>1
      <3> QED
        BY <3>1, <3>2
    <2>2. /\ created' = [f \in Features |-> created'[f]]
          /\ tracks' = [f \in Features |-> tracks'[f]]
      BY DEF PushShotFrame
    <2> QED
      BY <1>1, <2>1, <2>2 DEF ShotIInv, ShotsAreTyped
  <1>5. ASSUME NEW f \in Features PROVE ShotsAreSound(f)'
    <2>1. CASE shotEnabled[f]
      BY <1>1, <1>2, <2>1, ShotFrameIsSound
    <2>2. CASE ~shotEnabled[f]
      BY <1>1, <1>3, <2>2 DEF ShotIInv, ShotsAreSound
    <2> QED
      BY <2>1, <2>2
  <1> QED
    BY <1>4, <1>5 DEF ShotIInv

LEMMA ConfigureIsSound ==
  ASSUME ShotIInv, NEW enabled \in [Features -> BOOLEAN],
         NEW number \in [Features -> ShotNumbers], NEW count \in [Features -> 0..MaxObjects],
         Configure(enabled, number, count)
  PROVE  ShotIInv'
  <1>1. ASSUME NEW f \in Features
        PROVE  /\ shotNumber'[f] = number[f] /\ number[f] \in Nat /\ count[f] \in Nat
               /\ created'[f] = created[f] + count[f] /\ created[f] \in Nat
               /\ tracks'[f] = [i \in 1..count[f] |-> [id |-> created[f] + i, x |-> 0]]
               /\ shotCounter'[f] = [t \in created[f] + 1 .. created[f] + count[f] |-> number[f]]
               /\ age'[f] = [t \in created[f] + 1 .. created[f] + count[f] |-> 0]
               /\ shots'[f] = [t \in created[f] + 1 .. created[f] + count[f] |-> 0]
    <2>1. number[f] \in Nat /\ count[f] \in Nat /\ created[f] \in Nat
      <3>1. number[f] \in ShotNumbers /\ count[f] \in 0..MaxObjects
        OBVIOUS
      <3>2. created[f] \in Nat
        BY DEF ShotIInv, ShotsAreTyped
      <3>3. count[f] \in Nat
        BY <3>1, ShotAssumption
      <3>4. number[f] \in Nat
        BY <3>1, ShotAssumption
      <3> QED
        BY <3>2, <3>3, <3>4
    <2> QED
      BY <2>1 DEF Configure
  <1>2. ASSUME NEW f \in Features
        PROVE  tracks'[f] \in Seq(ShotTracks) /\ created'[f] \in Nat
    <2>1. tracks'[f] \in [1..count[f] -> ShotTracks]
      <3>1. \A i \in 1..count[f] : [id |-> created[f] + i, x |-> 0] \in ShotTracks
        <4>1. count[f] \in Nat /\ created[f] \in Nat
          BY <1>1
        <4> QED
          BY <4>1, ShotAssumption DEF ShotTracks
      <3>2. tracks'[f] = [i \in 1..count[f] |-> [id |-> created[f] + i, x |-> 0]]
        BY <1>1
      <3> QED
        BY <3>1, <3>2
    <2>2. created'[f] \in Nat /\ count[f] \in Nat
      <3>1. created'[f] = created[f] + count[f] /\ count[f] \in Nat /\ created[f] \in Nat
        BY <1>1
      <3> QED
        BY <3>1
    <2> QED
      BY <2>1, <2>2, FunctionIsSeq
  <1>3. ShotsAreTyped'
    <2>1. /\ created' = [f \in Features |-> created'[f]]
          /\ tracks' = [f \in Features |-> tracks'[f]]
          /\ shotEnabled' = enabled /\ shotNumber' = number
      BY DEF Configure
    <2> QED
      BY <1>2, <2>1, ShotAssumption DEF ShotsAreTyped
  <1>4. ASSUME NEW f \in Features PROVE ShotsAreSound(f)'
    <2>1. ASSUME NEW t \in DOMAIN age'[f]
          PROVE  \E i \in DOMAIN tracks'[f] :
                   tracks'[f][i].id = t /\ tracks'[f][i].x <= age'[f][t]
      <3>1. t - created[f] \in 1..count[f]
        <4>1. /\ t \in created[f] + 1 .. created[f] + count[f]
              /\ count[f] \in Nat /\ created[f] \in Nat
          BY <1>1, <2>1
        <4> QED
          BY <4>1
      <3>2. /\ tracks'[f][t - created[f]].id = t /\ tracks'[f][t - created[f]].x = 0
            /\ t - created[f] \in DOMAIN tracks'[f] /\ age'[f][t] = 0
        <4>1. /\ t \in created[f] + 1 .. created[f] + count[f]
              /\ count[f] \in Nat /\ created[f] \in Nat
          BY <1>1, <2>1
        <4>2. created[f] + (t - created[f]) = t
          BY <4>1
        <4>3. /\ tracks'[f] = [i \in 1..count[f] |-> [id |-> created[f] + i, x |-> 0]]
              /\ age'[f] = [u \in created[f] + 1 .. created[f] + count[f] |-> 0]
          BY <1>1
        <4> QED
          BY <3>1, <4>1, <4>2, <4>3
      <3>3. tracks'[f][t - created[f]].x <= age'[f][t]
        BY <3>2
      <3> QED
        BY <3>2, <3>3
    <2> DEFINE n == number[f]
               new == created[f] + 1 .. created[f] + count[f]
    <2>2. /\ shotNumber'[f] = n /\ n \in Nat
          /\ age'[f] = [t \in new |-> 0] /\ shots'[f] = [t \in new |-> 0]
          /\ shotCounter'[f] = [t \in new |-> n]
      BY <1>1
    <2>3. new \subseteq 1..created'[f]
      <3>1. created'[f] = created[f] + count[f] /\ count[f] \in Nat /\ created[f] \in Nat
        BY <1>1
      <3> QED
        BY <3>1
    <2> HIDE DEF n, new
    <2>4. DOMAIN age'[f] \subseteq 1..created'[f] /\ DOMAIN shots'[f] = DOMAIN age'[f]
      BY <2>2, <2>3
    <2>5. DOMAIN shotCounter'[f] = {t \in DOMAIN age'[f] : age'[f][t] <= n}
      BY <2>2
    <2>6. /\ \A t \in DOMAIN shotCounter'[f] : shotCounter'[f][t] = n - age'[f][t]
          /\ \A t \in DOMAIN age'[f] :
               age'[f][t] \in Nat /\ shots'[f][t] = IF age'[f][t] > n THEN 1 ELSE 0
      BY <2>2
    <2> QED
      BY <2>1, <2>2, <2>4, <2>5, <2>6 DEF ShotsAreSound
  <1> QED
    BY <1>3, <1>4 DEF ShotIInv

LEMMA ShotBegins == ShotInit => ShotIInv
  <1> SUFFICES ASSUME ShotInit PROVE ShotIInv
    OBVIOUS
  <1>1. <<>> \in Seq(ShotTracks) /\ DOMAIN <<>> = {}
    <2>1. <<>> \in Seq(ShotTracks) /\ Len(<<>>) = 0
      BY EmptySeq, Zenon
    <2>2. DOMAIN <<>> = 1..0
      BY <2>1, LenProperties
    <2> QED
      BY <2>1, <2>2
  <1>2. ShotsAreTyped
    BY <1>1 DEF ShotInit, ShotsAreTyped
  <1>3. ASSUME NEW f \in Features PROVE ShotsAreSound(f)
    BY <1>1 DEF ShotInit, ShotsAreSound
  <1> QED
    BY <1>2, <1>3 DEF ShotIInv

LEMMA ShotIsKept == ShotIInv /\ [ShotNext]_shotVars => ShotIInv'
  <1> SUFFICES ASSUME ShotIInv, [ShotNext]_shotVars PROVE ShotIInv'
    OBVIOUS
  <1>1. CASE UNCHANGED shotVars
    BY <1>1 DEF shotVars, ShotIInv, ShotsAreTyped, ShotsAreSound
  <1> QED
    BY <1>1, PushFrameIsSound, ConfigureIsSound DEF ShotNext

(* Every track has its one shot on the frame that the settings name, and   *)
(* is in the picture while it is not too old: however many tracks there    *)
(* are and begin again in one frame.                                       *)
THEOREM ShotsAreOnTime == ShotSpec => []OneShotPerTrack
  <1>1. ShotIInv => OneShotPerTrack
    BY ShotAssumption DEF ShotIInv, ShotsAreSound, OneShotPerTrack
  <1> QED
    BY <1>1, ShotBegins, ShotIsKept, PTL DEF ShotSpec

----------------------------------------------------------------------------
(* Object streams.                                                         *)

StreamObjects ==
  [trackId : CreationRefs \union CycleRefs \union Uuids, typeId : ObjectTypes \union {NoValue},
   frame : Nat, entry : {"regular", "bestShot", "title"}]

(* References have ids of their own, none of which is greater than `ids`.  *)
RefsHaveIds ==
  /\ ids \in Nat
  /\ DOMAIN trackIdByRef \subseteq Refs
  /\ trackIdByRef \in [DOMAIN trackIdByRef -> 1..ids]
  /\ \A r, q \in DOMAIN trackIdByRef : trackIdByRef[r] = trackIdByRef[q] => r = q

PassIsTyped ==
  /\ maxFrame \in Nat /\ frameNumber \in 0..maxFrame /\ hadFrame \in BOOLEAN
  /\ pass.last \in Nat \union {-1}
  /\ pass.ids \subseteq CycleRefs \X (1..ids)
  /\ former \subseteq 1..ids

(* A pass goes on, and its ids are still known; or the frame that is next  *)
(* begins another one, and no id of a reference per cycle is known.        *)
PassIsFollowed ==
  /\ \A p, q \in pass.ids : (p[1] = q[1]) <=> (p[2] = q[2])
  /\ \A p \in pass.ids : p[2] \notin former
  /\ \A r \in DOMAIN trackIdByRef \intersect CycleRefs : trackIdByRef[r] \notin former
  /\ pass.last = -1 => pass.ids = {} /\ former = {}
  /\ pass.last # -1 =>
       /\ hadFrame
       /\ \/ /\ PreviousFrame = pass.last + 1
             /\ \A p \in pass.ids : /\ p[1] \in DOMAIN trackIdByRef
                                    /\ trackIdByRef[p[1]] = p[2]
          \/ /\ PreviousFrame <= pass.last
             /\ DOMAIN trackIdByRef \intersect CycleRefs = {}

StreamIInv == RefsHaveIds /\ PassIsTyped /\ PassIsFollowed

(* An item that is kept has what an object needs.                          *)
LEMMA KeptItem ==
  ASSUME NEW item \in Items, IsKept(item)
  PROVE  ObjectOf(item) \in StreamObjects
  <1>1. item.trackId \in CreationRefs \union CycleRefs \union Uuids
    BY DEF Items, IsKept, ErrorOf
  <1>2. item.typeId \in ObjectTypes \union {NoValue} /\ item.frame \in Nat
    BY DEF Items, IsKept, ErrorOf
  <1> QED
    BY <1>1, <1>2 DEF ObjectOf, StreamObjects

(* The objects of a file, read item by item.                               *)
LEMMA ParsedObjects ==
  ASSUME NEW file \in Seq(Items), file # BadValue
  PROVE  ParseObjectStreamFile(file).objects \in Seq(StreamObjects)
  <1> DEFINE n == Len(file)
             Next1(read, i) == IF IsKept(file[i]) THEN Append(read, ObjectOf(file[i]))
                               ELSE read
             Steps(g) == g = [i \in 0..n |-> IF i = 0 THEN <<>> ELSE Next1(g[i - 1], i)]
             step == [p \in Seq(StreamObjects) \X (1..n) |-> Next1(p[1], p[2])]
             ObjectsOf == CHOOSE g : Steps(g)
  <1>1. n \in Nat /\ \A i \in 1..n : file[i] \in Items
    BY ElementOfSeq, LenProperties
  <1>2. <<>> \in Seq(StreamObjects)
    BY EmptySeq
  <1>3. \A read \in Seq(StreamObjects), i \in 1..n : Next1(read, i) \in Seq(StreamObjects)
    <2> SUFFICES ASSUME NEW read \in Seq(StreamObjects), NEW i \in 1..n
                 PROVE  Next1(read, i) \in Seq(StreamObjects)
      OBVIOUS
    <2>1. CASE IsKept(file[i])
      <3>1. ObjectOf(file[i]) \in StreamObjects
        BY <1>1, <2>1, KeptItem
      <3> QED
        BY <2>1, <3>1, AppendProperties
    <2>2. CASE ~IsKept(file[i])
      BY <2>2
    <2> QED
      BY <2>1, <2>2
  <1>4. \E g \in [0..n -> Seq(StreamObjects)] : Steps(g)
    <2>1. step \in [Seq(StreamObjects) \X (1..n) -> Seq(StreamObjects)]
      BY <1>3
    <2>2. PICK g : g \in Computations(Seq(StreamObjects), <<>>, n, step)
      <3> HIDE DEF n, step
      <3> QED
        BY <1>1, <1>2, <2>1, ComputationExists
    <2>3. /\ g \in [0..n -> Seq(StreamObjects)] /\ g[0] = <<>>
          /\ \A i \in 1..n : g[i] = step[<<g[i - 1], i>>]
      <3> HIDE DEF n, step
      <3> QED
        BY <2>2 DEF Computations
    <2>4. \A i \in 1..n : g[i] = Next1(g[i - 1], i)
      <3> SUFFICES ASSUME NEW i \in 1..n PROVE g[i] = Next1(g[i - 1], i)
        OBVIOUS
      <3> HIDE DEF n, Next1
      <3>1. i - 1 \in 0..n
        BY <1>1
      <3>2. g[i - 1] \in Seq(StreamObjects)
        BY <2>3, <3>1
      <3> QED
        BY <2>3, <3>2
    <2>5. Steps(g)
      <3> HIDE DEF n, Next1
      <3> QED
        BY <1>1, <2>3, <2>4
    <2> QED
      BY <2>3, <2>5
  <1>5. Steps(ObjectsOf)
    <2> HIDE DEF Steps
    <2> QED
      BY <1>4
  <1>6. \A i \in 0..n : ObjectsOf[i] \in Seq(StreamObjects)
    <2> DEFINE Bad == {i \in 0..n : ObjectsOf[i] \notin Seq(StreamObjects)}
    <2> SUFFICES ASSUME Bad # {} PROVE FALSE
      OBVIOUS
    <2>1. PICK k \in Bad : \A m \in Bad : k <= m
      <3>1. Bad \in SUBSET Nat
        BY <1>1
      <3> HIDE DEF Bad
      <3> QED
        BY <3>1, LeastNumber
    <2>2. /\ ObjectsOf[0] = <<>>
          /\ \A i \in 1..n : ObjectsOf[i] = Next1(ObjectsOf[i - 1], i)
      <3> HIDE DEF ObjectsOf, n, Next1
      <3> QED
        BY <1>1, <1>5
    <2> HIDE DEF ObjectsOf, Next1, n
    <2>3. k \in 1..n /\ k - 1 \in 0..n /\ k - 1 \notin Bad
      <3>1. k \in 0..n /\ k # 0
        BY <1>2, <2>2
      <3>2. k \in 1..n /\ k - 1 \in 0..n /\ ~(k <= k - 1)
        BY <1>1, <3>1
      <3> QED
        BY <2>1, <3>2
    <2> QED
      BY <1>3, <2>1, <2>2, <2>3
  <1>7. ParseObjectStreamFile(file).objects = ObjectsOf[n]
    BY DEF ParseObjectStreamFile
  <1> HIDE DEF ObjectsOf, n
  <1> QED
    BY <1>1, <1>6, <1>7

(* A number of the frames of a file is the greatest.                       *)
LEMMA GreatestFrame ==
  ASSUME NEW s \in Seq(StreamObjects), s # <<>>
  PROVE  Max({s[i].frame : i \in DOMAIN s}) \in Nat
  <1> DEFINE n == Len(s)
             IsTop(j, k) == j \in 1..k /\ \A i \in 1..k : s[i].frame <= s[j].frame
             Bad == {k \in 1..n : ~ \E j \in 1..k : IsTop(j, k)}
  <1>1. n \in Nat \ {0} /\ DOMAIN s = 1..n /\ \A i \in 1..n : s[i] \in StreamObjects
    BY LenProperties, ElementOfSeq, EmptySeq
  <1>2. \A i \in 1..n : s[i].frame \in Nat
    BY <1>1 DEF StreamObjects
  <1> HIDE DEF n
  <1>3. Bad = {}
    <2> SUFFICES ASSUME Bad # {} PROVE FALSE
      OBVIOUS
    <2>1. PICK k \in Bad : \A m \in Bad : k <= m
      <3>1. Bad \in SUBSET Nat
        BY <1>1
      <3> HIDE DEF Bad
      <3> QED
        BY <3>1, LeastNumber
    <2>2. k \in 1..n /\ k # 1
      <3>1. IsTop(1, 1)
        BY <1>1, <1>2
      <3> QED
        BY <3>1
    <2>3. k - 1 \in 1..n /\ k - 1 \notin Bad
      <3> HIDE DEF IsTop
      <3>1. k - 1 \in 1..n /\ ~(k <= k - 1)
        BY <1>1, <2>2
      <3> QED
        BY <2>1, <3>1
    <2>4. PICK j \in 1..k - 1 : IsTop(j, k - 1)
      BY <2>3
    <2>5. s[j].frame \in Nat /\ s[k].frame \in Nat /\ j \in 1..k
      BY <1>1, <1>2, <2>2, <2>4
    <2>6. \A i \in 1..k : i # k => i \in 1..k - 1
      BY <1>1, <2>2
    <2>7. CASE s[k].frame <= s[j].frame
      <3>1. IsTop(j, k)
        BY <2>4, <2>5, <2>6, <2>7
      <3> QED
        BY <2>5, <3>1
    <2>8. CASE ~(s[k].frame <= s[j].frame)
      <3>1. ASSUME NEW i \in 1..k PROVE s[i].frame <= s[k].frame
        <4>1. s[i].frame \in Nat
          BY <1>1, <1>2, <2>2
        <4>2. CASE i = k
          <5>1. s[k].frame = s[i].frame
            BY <4>2
          <5> DEFINE a == s[i].frame
          <5>2. a <= a
            <6>1. a \in Nat
              BY <4>1
            <6> HIDE DEF a
            <6> QED
              BY <6>1
          <5> QED
            BY <4>1, <5>1, <5>2, Zenon
        <4>3. CASE i # k
          <5>1. s[i].frame <= s[j].frame
            BY <2>4, <2>6, <4>3
          <5> QED
            <6> DEFINE a == s[i].frame
                       b == s[j].frame
                       c == s[k].frame
            <6>1. a \in Nat /\ b \in Nat /\ c \in Nat /\ ~(c <= b) /\ a <= b
              BY <2>5, <2>8, <4>1, <5>1
            <6> HIDE DEF a, b, c
            <6>2. a <= c
              BY <6>1
            <6> QED
              BY <6>2 DEF a, c
        <4> QED
          BY <4>2, <4>3
      <3>2. k \in 1..k
        BY <1>1, <2>2
      <3> QED
        BY <3>1, <3>2
    <2> QED
      BY <2>7, <2>8
  <1>4. PICK j \in 1..n : IsTop(j, n)
    <2>1. n \in 1..n
      BY <1>1
    <2> QED
      BY <1>3, <2>1
  <1> DEFINE frames == {s[i].frame : i \in DOMAIN s}
  <1>5. \E x \in frames : \A y \in frames : x >= y
    BY <1>1, <1>2, <1>4
  <1>6. Max(frames) \in frames
    <2> HIDE DEF frames
    <2> QED
      BY <1>5 DEF Max
  <1> QED
    BY <1>1, <1>2, <1>6

(* References met first get ids that no reference has had.                 *)
LEMMA NewIds ==
  ASSUME RefsHaveIds
  PROVE  /\ Cardinality(NewRefs) \in Nat
         /\ IdsOf \in [DOMAIN trackIdByRef \union NewRefs -> 1..ids + Cardinality(NewRefs)]
         /\ \A r \in DOMAIN trackIdByRef : IdsOf[r] = trackIdByRef[r]
         /\ \A r \in NewRefs : IdsOf[r] \in ids + 1 .. ids + Cardinality(NewRefs)
         /\ \A r, q \in DOMAIN IdsOf : IdsOf[r] = IdsOf[q] => r = q
  <1> DEFINE known == DOMAIN trackIdByRef
             card == Cardinality(NewRefs)
             new == ids + 1 .. ids + card
             IsGood(f) == /\ \A r \in known : f[r] = trackIdByRef[r]
                          /\ {f[r] : r \in NewRefs} = new
  <1>1. IsFiniteSet(NewRefs) /\ NewRefs \intersect known = {}
    <2>1. NewRefs \in SUBSET Refs
      BY DEF NewRefs
    <2> QED
      BY <2>1, StreamAssumption, FS_Subset DEF Refs, NewRefs
  <1>2. card \in Nat /\ ids \in Nat
    BY <1>1, FS_CardinalityType DEF RefsHaveIds
  <1>3. IsFiniteSet(new) /\ Cardinality(new) = card
    <2>1. ids + 1 \in Int /\ ids + card \in Int
      BY <1>2
    <2>2. IsFiniteSet(new) /\ Cardinality(new) =
            IF ids + 1 > ids + card THEN 0 ELSE (ids + card) - (ids + 1) + 1
      BY <2>1, FS_Interval
    <2> QED
      BY <1>2, <2>2
  <1>4. PICK b \in [NewRefs -> new] : \A v \in new : \E r \in NewRefs : b[r] = v
    <2>1. ExistsBijection(NewRefs, new)
      <3> HIDE DEF new
      <3> QED
        BY <1>1, <1>3, FS_SameCardinalityBij
    <2> QED
      BY <2>1 DEF ExistsBijection, Bijection, Surjection
  <1>5. \E f \in [known \union NewRefs -> 1..ids + card] : IsGood(f)
    <2> DEFINE f == [r \in known \union NewRefs |-> IF r \in known THEN trackIdByRef[r] ELSE b[r]]
    <2>1. ASSUME NEW r \in known \union NewRefs PROVE f[r] \in 1..ids + card
      <3>1. CASE r \in known
        <4>1. f[r] = trackIdByRef[r] /\ trackIdByRef[r] \in 1..ids
          BY <3>1 DEF RefsHaveIds
        <4> QED
          BY <1>2, <4>1
      <3>2. CASE r \in NewRefs
        <4>1. f[r] = b[r] /\ b[r] \in new
          BY <1>1, <1>4, <3>2
        <4> QED
          BY <1>2, <4>1
      <3> QED
        BY <3>1, <3>2
    <2>2. f \in [known \union NewRefs -> 1..ids + card]
      BY <2>1
    <2>3. \A r \in NewRefs : f[r] = b[r]
      BY <1>1
    <2>4. \A r \in known : f[r] = trackIdByRef[r]
      OBVIOUS
    <2> HIDE DEF f, new
    <2>5. {f[r] : r \in NewRefs} = new
      BY <1>4, <2>3
    <2> QED
      BY <2>2, <2>4, <2>5
  <1>6. IdsOf \in [known \union NewRefs -> 1..ids + card] /\ IsGood(IdsOf)
    BY <1>5, Zenon DEF IdsOf
  <1>7. \A r \in NewRefs : IdsOf[r] \in new
    BY <1>6
  <1>8. ASSUME NEW r \in NewRefs, NEW q \in NewRefs, IdsOf[r] = IdsOf[q] PROVE r = q
    <2> DEFINE g == [x \in NewRefs |-> IdsOf[x]]
    <2> HIDE DEF new
    <2>1. g \in Surjection(NewRefs, new)
      BY <1>6, <1>7 DEF Surjection
    <2>2. g \in Injection(NewRefs, new)
      <3> HIDE DEF g
      <3> QED
        BY <1>1, <1>3, <2>1, FS_SurjSameCardinalityImpliesInj
    <2>3. IsInjective(g)
      <3> HIDE DEF g
      <3> QED
        BY <2>2 DEF Injection
    <2> QED
      BY <1>8, <2>3 DEF IsInjective
  <1>9. ASSUME NEW r \in known \union NewRefs, NEW q \in known \union NewRefs,
               IdsOf[r] = IdsOf[q]
        PROVE  r = q
    <2>1. \A x \in known : IdsOf[x] = trackIdByRef[x] /\ trackIdByRef[x] \in 1..ids
      BY <1>6 DEF RefsHaveIds
    <2>2. \A x \in known, y \in NewRefs : IdsOf[x] # IdsOf[y]
      BY <1>2, <1>7, <2>1
    <2>3. CASE r \in known /\ q \in known
      BY <1>9, <2>1, <2>3 DEF RefsHaveIds
    <2> QED
      BY <1>8, <1>9, <2>2, <2>3
  <1>10. DOMAIN IdsOf = known \union NewRefs
    BY <1>6
  <1> QED
    BY <1>2, <1>6, <1>7, <1>9, <1>10

(* A frame: the references played have ids, those of the former pass are   *)
(* done with when another one begins.                                      *)
LEMMA FrameFollows ==
  ASSUME StreamIInv, StreamFrame
  PROVE  StreamIInv'
  <1> DEFINE card == Cardinality(NewRefs)
             P == PreviousFrame
             F == frameNumber
             X == {o.trackId : o \in Range(Played)} \intersect CycleRefs
             used == {<<r, IdsOf[r]>> : r \in X}
  <1>1. /\ card \in Nat /\ ids \in Nat
        /\ IdsOf \in [DOMAIN trackIdByRef \union NewRefs -> 1..ids + card]
        /\ \A r \in DOMAIN trackIdByRef : IdsOf[r] = trackIdByRef[r]
        /\ \A r \in NewRefs : IdsOf[r] \in ids + 1 .. ids + card
        /\ \A r, q \in DOMAIN IdsOf : IdsOf[r] = IdsOf[q] => r = q
    BY NewIds DEF StreamIInv, RefsHaveIds
  <1>2. /\ X \subseteq DOMAIN IdsOf /\ X \subseteq CycleRefs
        /\ DOMAIN IdsOf = DOMAIN trackIdByRef \union NewRefs /\ DOMAIN IdsOf \subseteq Refs
    <2>1. DOMAIN IdsOf = DOMAIN trackIdByRef \union NewRefs
      BY <1>1
    <2>2. NewRefs \subseteq Refs /\ DOMAIN trackIdByRef \subseteq Refs
      BY DEF NewRefs, StreamIInv, RefsHaveIds
    <2>3. X \subseteq DOMAIN trackIdByRef \union NewRefs
      BY DEF NewRefs, Refs
    <2> QED
      BY <2>1, <2>2, <2>3
  <1>3. /\ ids' = ids + card /\ maxFrame' = maxFrame /\ hadFrame' = TRUE
        /\ frameNumber' = IF F + 1 > maxFrame THEN 0 ELSE F + 1
    BY DEF StreamFrame
  <1>4. /\ maxFrame \in Nat /\ F \in 0..maxFrame /\ hadFrame \in BOOLEAN
        /\ P = IF F = 0 THEN maxFrame ELSE F - 1
    BY DEF StreamIInv, PassIsTyped, PreviousFrame
  <1>5. P \in 0..maxFrame
    BY <1>4
  (* The frame that will be played next. *)
  <1>6. /\ frameNumber' \in 0..maxFrame
        /\ F # 0 => PreviousFrame' = P + 1
        /\ F = 0 => PreviousFrame' = 0
    <2>1. PreviousFrame' = IF frameNumber' = 0 THEN maxFrame ELSE frameNumber' - 1
      BY <1>3 DEF PreviousFrame
    <2> HIDE DEF P, F
    <2>2. CASE F + 1 > maxFrame
      BY <1>3, <1>4, <2>1, <2>2
    <2>3. CASE ~(F + 1 > maxFrame)
      BY <1>3, <1>4, <2>1, <2>3
    <2> QED
      BY <2>2, <2>3
  (* What is known of the references after the frame. *)
  <1>7. /\ trackIdByRef' = IF hadFrame /\ F = 0
                             THEN [r \in DOMAIN IdsOf \ CycleRefs |-> IdsOf[r]] ELSE IdsOf
    BY DEF StreamFrame, IsEndOfCycle, Restrict
  <1> HIDE DEF card, P, X, F
  <1>8. /\ DOMAIN trackIdByRef' \subseteq DOMAIN IdsOf
        /\ \A r \in DOMAIN trackIdByRef' : trackIdByRef'[r] = IdsOf[r]
        /\ trackIdByRef' = [r \in DOMAIN trackIdByRef' |-> trackIdByRef'[r]]
        /\ hadFrame /\ F = 0 => DOMAIN trackIdByRef' \intersect CycleRefs = {}
        /\ ~(hadFrame /\ F = 0) => DOMAIN trackIdByRef' = DOMAIN IdsOf
    <2>1. IdsOf = [r \in DOMAIN IdsOf |-> IdsOf[r]]
      BY <1>1
    <2>2. CASE hadFrame /\ F = 0
      BY <1>7, <2>2
    <2>3. CASE ~(hadFrame /\ F = 0)
      BY <1>7, <2>1, <2>3
    <2> QED
      BY <2>2, <2>3
  <1>9. \A r \in DOMAIN IdsOf : IdsOf[r] \in 1..ids'
    BY <1>1, <1>3
  <1>10. RefsHaveIds'
    <2>1. ids' \in Nat
      BY <1>1, <1>3
    <2>2. DOMAIN trackIdByRef' \subseteq Refs
      BY <1>2, <1>8
    <2>3. trackIdByRef' \in [DOMAIN trackIdByRef' -> 1..ids']
      BY <1>8, <1>9
    <2>4. \A r, q \in DOMAIN trackIdByRef' : trackIdByRef'[r] = trackIdByRef'[q] => r = q
      BY <1>1, <1>8
    <2> QED
      BY <2>1, <2>2, <2>3, <2>4 DEF RefsHaveIds, Refs
  (* An id that is not known yet is greater than those of former passes.   *)
  <1>11. /\ pass.last \in Nat \union {-1} /\ pass.ids \subseteq CycleRefs \X (1..ids)
         /\ former \subseteq 1..ids
    BY DEF StreamIInv, PassIsTyped
  <1>12. \A r \in DOMAIN IdsOf : r \notin DOMAIN trackIdByRef => IdsOf[r] \notin 1..ids
    BY <1>1, <1>2
  <1>13. \A r \in DOMAIN IdsOf \intersect CycleRefs : IdsOf[r] \notin former
    <2>1. \A r \in DOMAIN trackIdByRef \intersect CycleRefs : trackIdByRef[r] \notin former
      BY DEF StreamIInv, PassIsFollowed
    <2> QED
      BY <1>1, <1>11, <1>12, <2>1
  <1>14. CASE ~hadFrame
    <2>1. pass' = pass /\ former' = former
      BY <1>14 DEF StreamFrame, RecordPass
    <2>2. pass.last = -1 /\ pass.ids = {} /\ former = {}
      BY <1>14 DEF StreamIInv, PassIsFollowed
    <2>3. PassIsTyped'
      BY <1>3, <1>4, <1>6, <2>1, <2>2 DEF PassIsTyped
    <2>4. PassIsFollowed'
      BY <2>1, <2>2 DEF PassIsFollowed
    <2> QED
      BY <1>10, <2>3, <2>4 DEF StreamIInv
  <1>15. CASE hadFrame
    <2> DEFINE begins == P <= pass.last
               gone == {p[2] : p \in pass.ids}
    <2>1. /\ pass' = [last |-> P, ids |-> IF begins THEN used ELSE pass.ids \union used]
          /\ former' = IF begins THEN former \union gone ELSE former
      BY <1>15 DEF StreamFrame, RecordPass, P, X
    <2>2. pass'.last = P /\ pass'.ids = IF begins THEN used ELSE pass.ids \union used
      BY <2>1
    <2>3. \A p \in pass.ids : p = <<p[1], p[2]>> /\ p[1] \in CycleRefs /\ p[2] \in 1..ids
      BY <1>11
    <2>4. \A p \in used : p[1] \in X /\ p[2] = IdsOf[p[1]] /\ p = <<p[1], p[2]>>
      OBVIOUS
    <2> HIDE DEF used
    (* The ids of the pass are those that are known after the frame, before *)
    (* the end of a cycle.                                                  *)
    <2>5. \A p \in pass'.ids :
            /\ p = <<p[1], p[2]>> /\ p[1] \in DOMAIN IdsOf \intersect CycleRefs
            /\ p[2] = IdsOf[p[1]]
      <3>1. CASE begins
        BY <1>2, <2>2, <2>4, <3>1
      <3>2. CASE ~begins
        <4>1. pass.last # -1 => \A p \in pass.ids :
                p[1] \in DOMAIN trackIdByRef /\ trackIdByRef[p[1]] = p[2]
          BY <1>5, <1>11, <3>2 DEF StreamIInv, PassIsFollowed, P
        <4>2. pass.last = -1 => pass.ids = {}
          BY DEF StreamIInv, PassIsFollowed
        <4>3. \A p \in pass.ids :
                p[1] \in DOMAIN IdsOf \intersect CycleRefs /\ p[2] = IdsOf[p[1]]
          BY <1>1, <1>2, <2>3, <4>1, <4>2
        <4> QED
          BY <1>2, <2>2, <2>3, <2>4, <3>2, <4>3
      <3> QED
        BY <3>1, <3>2
    <2>6. former' \subseteq 1..ids
      BY <1>11, <2>1, <2>3
    <2>7. \A r \in DOMAIN IdsOf \intersect CycleRefs : IdsOf[r] \notin former'
      <3>1. CASE begins
        <4>1. pass.last # -1
          BY <1>5, <1>11, <3>1
        <4>2. DOMAIN trackIdByRef \intersect CycleRefs = {}
          BY <1>5, <1>11, <3>1, <4>1 DEF StreamIInv, PassIsFollowed, P
        <4> QED
          BY <1>12, <2>6, <4>2
      <3>2. CASE ~begins
        BY <1>13, <2>1, <3>2
      <3> QED
        BY <3>1, <3>2
    <2>8. PassIsTyped'
      <3>1. pass'.last \in Nat \union {-1}
        BY <1>5, <2>2
      <3>2. pass'.ids \subseteq CycleRefs \X (1..ids')
        <4>1. \A p \in pass'.ids : p[1] \in CycleRefs /\ p[2] \in 1..ids' /\ p = <<p[1], p[2]>>
          BY <1>9, <2>5
        <4> QED
          BY <4>1
      <3>3. former' \subseteq 1..ids'
        BY <1>1, <1>3, <2>6
      <3>4. maxFrame' \in Nat /\ frameNumber' \in 0..maxFrame' /\ hadFrame' \in BOOLEAN
        BY <1>3, <1>4, <1>6
      <3> QED
        BY <3>1, <3>2, <3>3, <3>4 DEF PassIsTyped
    <2>9. PassIsFollowed'
      <3>1. \A p, q \in pass'.ids : (p[1] = q[1]) <=> (p[2] = q[2])
        BY <1>1, <2>5
      <3>2. \A p \in pass'.ids : p[2] \notin former'
        BY <2>5, <2>7
      <3>3. \A r \in DOMAIN trackIdByRef' \intersect CycleRefs : trackIdByRef'[r] \notin former'
        BY <1>8, <2>7
      <3>4. pass'.last # -1
        BY <1>5, <2>2
      <3>5. CASE F = 0
        <4>1. PreviousFrame' <= pass'.last /\ DOMAIN trackIdByRef' \intersect CycleRefs = {}
          BY <1>5, <1>6, <1>8, <1>15, <2>2, <3>5
        <4> QED
          BY <1>3, <3>1, <3>2, <3>3, <3>4, <4>1 DEF PassIsFollowed
      <3>6. CASE F # 0
        <4>1. PreviousFrame' = pass'.last + 1
          BY <1>6, <2>2, <3>6
        <4>2. \A p \in pass'.ids :
                p[1] \in DOMAIN trackIdByRef' /\ trackIdByRef'[p[1]] = p[2]
          BY <1>8, <2>5, <3>6
        <4> QED
          BY <1>3, <3>1, <3>2, <3>3, <3>4, <4>1, <4>2 DEF PassIsFollowed
      <3> QED
        BY <3>5, <3>6
    <2> QED
      BY <1>10, <2>8, <2>9 DEF StreamIInv
  <1> QED
    BY <1>4, <1>14, <1>15

LEMMA SettingsBegin ==
  ASSUME StreamIInv, NEW setting \in StreamFiles \union {NoValue, BadValue},
         NEW off \in SUBSET ObjectTypes, StreamSettingsReceived(setting, off)
  PROVE  StreamIInv'
  <1> DEFINE file == IF setting # NoValue THEN setting
                     ELSE IF isInitial THEN DefaultStream ELSE BadValue
             info == ParseObjectStreamFile(file)
             frames == {info.objects[i].frame : i \in DOMAIN info.objects}
  <1>1. info.objects # <<>> => Max(frames) \in Nat
    <2>1. CASE file = BadValue
      BY <2>1 DEF ParseObjectStreamFile
    <2>2. CASE file # BadValue
      <3>1. file \in StreamFiles \union {DefaultStream}
        BY <2>2
      <3> HIDE DEF file
      <3>2. file \in Seq(Items)
        BY <2>2, <3>1, StreamAssumption
      <3>3. info.objects \in Seq(StreamObjects)
        BY <2>2, <3>2, ParsedObjects
      <3> HIDE DEF info
      <3> QED
        BY <3>3, GreatestFrame
    <2> QED
      BY <2>1, <2>2
  <1>2. maxFrame' = IF info.objects = <<>> THEN maxFrame ELSE Max(frames)
    BY Zenon DEF StreamSettingsReceived
  <1> HIDE DEF file, info, frames
  <1>3. /\ frameNumber' = 0 /\ pass' = [last |-> -1, ids |-> {}] /\ former' = {}
        /\ hadFrame' = hadFrame /\ trackIdByRef' = trackIdByRef /\ ids' = ids
    BY DEF StreamSettingsReceived
  <1>4. maxFrame' \in Nat
    BY <1>1, <1>2 DEF StreamIInv, PassIsTyped
  <1>5. RefsHaveIds'
    BY <1>3 DEF StreamIInv, RefsHaveIds, Refs
  <1>6. PassIsTyped'
    BY <1>3, <1>4 DEF StreamIInv, PassIsTyped
  <1>7. PassIsFollowed'
    BY <1>3 DEF PassIsFollowed
  <1> QED
    BY <1>5, <1>6, <1>7 DEF StreamIInv

LEMMA StreamBegins == StreamInit => StreamIInv
  <1> SUFFICES ASSUME StreamInit PROVE StreamIInv
    OBVIOUS
  <1>1. DOMAIN <<>> = {} /\ <<>> \in [{} -> 1..0]
    OBVIOUS
  <1>2. RefsHaveIds
    BY <1>1 DEF StreamInit, RefsHaveIds
  <1>3. PassIsTyped
    <2>1. /\ maxFrame = 0 /\ frameNumber = 0 /\ hadFrame = FALSE
          /\ pass.last = -1 /\ pass.ids = {} /\ former = {}
      BY DEF StreamInit
    <2>2. maxFrame \in Nat /\ frameNumber \in 0..maxFrame
      BY <2>1
    <2>3. hadFrame \in BOOLEAN /\ pass.last \in Nat \union {-1}
      BY <2>1
    <2>4. pass.ids \subseteq CycleRefs \X (1..ids) /\ former \subseteq 1..ids
      BY <2>1
    <2> QED
      BY <2>2, <2>3, <2>4 DEF PassIsTyped
  <1>4. PassIsFollowed
    BY DEF StreamInit, PassIsFollowed
  <1> QED
    BY <1>2, <1>3, <1>4 DEF StreamIInv

LEMMA StreamIsKept == StreamIInv /\ [StreamNext]_streamVars => StreamIInv'
  <1> SUFFICES ASSUME StreamIInv, [StreamNext]_streamVars PROVE StreamIInv'
    OBVIOUS
  <1>1. CASE UNCHANGED streamVars
    BY <1>1 DEF streamVars, StreamIInv, RefsHaveIds, PassIsTyped, PassIsFollowed,
       PreviousFrame, Refs
  <1> QED
    BY <1>1, FrameFollows, SettingsBegin DEF StreamNext

(* Within a pass over the frames a reference is of one track, in each pass *)
(* of another one, and no two references share a track: for any files.     *)
THEOREM TracksFollowCycles == StreamSpec => []OneTrackPerCycle
  <1>1. StreamIInv => OneTrackPerCycle
    BY DEF StreamIInv, RefsHaveIds, PassIsFollowed, OneTrackPerCycle
  <1> QED
    BY <1>1, StreamBegins, StreamIsKept, PTL DEF StreamSpec

----------------------------------------------------------------------------
(* Motion metadata.                                                        *)

(* Quotients and remainders. *)
LEMMA Division ==
  ASSUME NEW a \in Nat, NEW d \in Nat \ {0}
  PROVE  /\ a \div d \in Nat /\ d * (a \div d) <= a /\ a < d * (a \div d) + d
         /\ a % d \in 0..d - 1 /\ a = d * (a \div d) + (a % d)
  <1> DEFINE q == a \div d
  <1>1. q \in Int /\ d * q <= a /\ a < d * q + d
    OBVIOUS
  <1>2. q >= 0
    <2>1. SUFFICES ASSUME q <= -1 PROVE FALSE
      BY <1>1
    <2>2. d * q <= d * (-1)
      BY <1>1, <2>1
    <2> QED
      BY <1>1, <2>2
  <1>3. a % d \in 0..d - 1 /\ a = d * q + (a % d)
    <2>1. a % d \in 0..d - 1
      OBVIOUS
    <2>2. a % d = a - d * q
      OBVIOUS
    <2>3. d * q \in Int
      BY <1>1
    <2> DEFINE p == d * q
               r == a % d
    <2>4. r = a - p /\ p \in Int
      BY <2>2, <2>3
    <2> HIDE DEF p, r
    <2>5. a = p + r
      BY <2>4
    <2> QED
      BY <2>1, <2>5 DEF p, r
  <1> QED
    BY <1>1, <1>2, <1>3

LEMMA QuotientIs ==
  ASSUME NEW a \in Nat, NEW d \in Nat \ {0}, NEW c \in Nat, d * c <= a, a < d * c + d
  PROVE  a \div d = c /\ a % d = a - d * c
  <1> DEFINE q == a \div d
  <1>1. q \in Nat /\ d * q <= a /\ a < d * q + d /\ a % d = a - d * q
    <2>1. a % d \in 0..d - 1 /\ a = d * q + (a % d) /\ q \in Nat
      BY Division
    <2> QED
      BY <2>1, Division
  <1> HIDE DEF q
  <1>2. q <= c
    <2>1. SUFFICES ASSUME q >= c + 1 PROVE FALSE
      BY <1>1
    <2>2. d * q >= d * (c + 1)
      BY <1>1, <2>1
    <2>3. d * (c + 1) = d * c + d
      OBVIOUS
    <2> QED
      BY <1>1, <2>2, <2>3
  <1>3. c <= q
    <2>1. SUFFICES ASSUME c >= q + 1 PROVE FALSE
      BY <1>1
    <2>2. d * c >= d * (q + 1)
      BY <1>1, <2>1
    <2>3. d * (q + 1) = d * q + d
      BY <1>1
    <2> QED
      BY <1>1, <2>2, <2>3
  <1>4. q = c
    BY <1>1, <1>2, <1>3
  <1> QED
    BY <1>1, <1>4 DEF q

(* The place of an area by its number, and its object.                     *)
PlaceOf(a) == <<a \div grid[2], a % grid[2]>>
AreaObject(a) == [at |-> PlaceOf(a), id |-> areaIds[a + 1]]
AreasMoved == {a \in 0..area - 1 : HasMotionUnderObject(a \div grid[2], a % grid[2])}

AreasAreTyped ==
  /\ areaSize \in (Nat \ {0}) \X (Nat \ {0})
  /\ areaIdCount \in Nat /\ areaIds \in Seq(1..areaIdCount)
  /\ motion.counts \in (Nat \ {0}) \X (Nat \ {0})
  /\ motion.cells \subseteq (0..motion.counts[1] - 1) \X (0..motion.counts[2] - 1)
  /\ grid \in Nat \X Nat /\ area \in 0..AreaCount
  /\ sizeStayed \in BOOLEAN

(* There is an id for each area of the grid, and the areas scanned so far  *)
(* have their objects.                                                     *)
AreasAreSound ==
  /\ Len(areaIds) = AreaCount
  /\ \A i, j \in 1..Len(areaIds) : areaIds[i] = areaIds[j] => i = j
  /\ areasShown \subseteq {AreaObject(a) : a \in 0..area - 1}
  /\ sizeStayed => areasShown = {AreaObject(a) : a \in AreasMoved}
  /\ ~sizeStayed => IsIdle

MotionIInv == AreasAreTyped /\ AreasAreSound

(* The cells under an area are those whose quotients are its place: those  *)
(* past the last whole area, and past the edge, change nothing.            *)
LEMMA MotionUnderArea ==
  ASSUME AreasAreTyped, NEW column \in Nat, NEW row \in Nat
  PROVE  HasMotionUnderObject(column, row) <=>
           \E c \in motion.cells : c[1] \div areaSize[1] = column
                                /\ c[2] \div areaSize[2] = row
  <1> DEFINE w == areaSize[1]
             h == areaSize[2]
             m == motion.counts[1]
             n == motion.counts[2]
  <1>1. /\ w \in Nat \ {0} /\ h \in Nat \ {0} /\ m \in Nat \ {0} /\ n \in Nat \ {0}
        /\ \A c \in motion.cells : c = <<c[1], c[2]>> /\ c[1] \in 0..m - 1 /\ c[2] \in 0..n - 1
    BY DEF AreasAreTyped
  <1>2. ASSUME NEW size \in Nat \ {0}, NEW count \in Nat \ {0}, NEW at \in Nat,
               NEW x \in 0..count - 1
        PROVE  x \in at * size .. LesserOf((at + 1) * size, count) - 1 <=> x \div size = at
    <2>1. at * size = size * at /\ (at + 1) * size = size * at + size /\ size * at \in Nat
      OBVIOUS
    <2>2. x \in Nat
      BY <1>2
    <2>3. ASSUME x \div size = at
          PROVE  size * at <= x /\ x < size * at + size
      BY <2>2, <2>3, Division
    <2>4. x \in at * size .. LesserOf((at + 1) * size, count) - 1 <=>
            size * at <= x /\ x < size * at + size
      <3> DEFINE p == size * at
      <3>1. p \in Nat /\ at * size = p /\ (at + 1) * size = p + size
        BY <2>1
      <3> HIDE DEF p
      <3>2. LesserOf(p + size, count) = IF p + size < count THEN p + size ELSE count
        BY DEF LesserOf
      <3>3. x \in p .. LesserOf(p + size, count) - 1 <=> p <= x /\ x < p + size
        BY <2>2, <3>1, <3>2
      <3> QED
        BY <3>1, <3>3 DEF p
    <2>5. ASSUME size * at <= x, x < size * at + size
          PROVE  x \div size = at
      BY <2>2, <2>5, QuotientIs
    <2> QED
      BY <2>3, <2>4, <2>5
  <1>3. \A c \in motion.cells :
          /\ c[1] \in column * w .. LesserOf((column + 1) * w, m) - 1 <=> c[1] \div w = column
          /\ c[2] \in row * h .. LesserOf((row + 1) * h, n) - 1 <=> c[2] \div h = row
    BY <1>1, <1>2
  <1>4. HasMotionUnderObject(column, row) <=>
          \E c \in motion.cells : /\ c[1] \in column * w .. LesserOf((column + 1) * w, m) - 1
                                  /\ c[2] \in row * h .. LesserOf((row + 1) * h, n) - 1
    <2> DEFINE X == column * w .. LesserOf((column + 1) * w, m) - 1
               Y == row * h .. LesserOf((row + 1) * h, n) - 1
    <2>1. HasMotionUnderObject(column, row) <=> \E x \in X, y \in Y : <<x, y>> \in motion.cells
      BY DEF HasMotionUnderObject
    <2> HIDE DEF X, Y
    <2>2. (\E x \in X, y \in Y : <<x, y>> \in motion.cells) <=>
            \E c \in motion.cells : c[1] \in X /\ c[2] \in Y
      BY <1>1
    <2> QED
      BY <2>1, <2>2 DEF X, Y
  <1> QED
    BY <1>3, <1>4

(* The places of the areas, number by number, are those of the grid.       *)
LEMMA PlacesOfGrid ==
  ASSUME NEW g \in Nat, NEW d \in Nat
  PROVE  /\ \A a \in 0..g * d - 1 : d # 0 /\ a \in Nat /\ a \div d \in 0..g - 1
                                 /\ a % d \in 0..d - 1 /\ a = d * (a \div d) + (a % d)
         /\ \A column \in 0..g - 1, row \in 0..d - 1 :
              /\ d * column + row \in 0..g * d - 1
              /\ (d * column + row) \div d = column /\ (d * column + row) % d = row
  <1>1. g * d \in Nat /\ g * d = d * g
    OBVIOUS
  <1>2. ASSUME NEW a \in 0..g * d - 1
        PROVE  d # 0 /\ a \in Nat /\ a \div d \in 0..g - 1
               /\ a % d \in 0..d - 1 /\ a = d * (a \div d) + (a % d)
    <2>1. a \in Nat /\ a < d * g
      BY <1>1
    <2>2. d # 0
      <3>1. d = 0 => d * g = 0
        OBVIOUS
      <3> QED
        BY <2>1, <3>1
    <2> DEFINE q == a \div d
    <2>3. /\ q \in Nat /\ d * q <= a /\ a % d \in 0..d - 1 /\ a = d * q + (a % d)
      BY <2>1, <2>2, Division
    <2> HIDE DEF q
    <2>4. q < g
      <3>1. SUFFICES ASSUME q >= g PROVE FALSE
        BY <2>3
      <3>2. d * q >= d * g
        BY <2>3, <3>1
      <3> QED
        BY <1>1, <2>1, <2>3, <3>2
    <2> QED
      BY <2>1, <2>2, <2>3, <2>4 DEF q
  <1>3. ASSUME NEW column \in 0..g - 1, NEW row \in 0..d - 1
        PROVE  /\ d * column + row \in 0..g * d - 1
               /\ (d * column + row) \div d = column /\ (d * column + row) % d = row
    <2> DEFINE p == d * column
               a == p + row
    <2>1. p \in Nat /\ d \in Nat \ {0} /\ row \in Nat /\ row < d /\ column \in Nat
      OBVIOUS
    <2>2. p + d <= d * g
      <3>1. p + d = d * (column + 1) /\ column + 1 <= g
        OBVIOUS
      <3>2. d * (column + 1) <= d * g
        BY <3>1
      <3> QED
        BY <3>1, <3>2
    <2>3. a \in Nat /\ p <= a /\ a < p + d /\ a - p = row
      <3> HIDE DEF p
      <3> QED
        BY <2>1
    <2>4. a \div d = column /\ a % d = a - p
      <3> HIDE DEF a
      <3> QED
        BY <2>1, <2>3, QuotientIs
    <2>5. a \in 0..g * d - 1
      <3> HIDE DEF a, p
      <3> QED
        BY <1>1, <2>1, <2>2, <2>3
    <2> QED
      BY <2>3, <2>4, <2>5
  <1> QED
    BY <1>2, <1>3

LEMMA PacketIsSound ==
  ASSUME MotionIInv, NEW counts \in CellCounts,
         NEW cells \in SUBSET ((0..counts[1] - 1) \X (0..counts[2] - 1)),
         PacketComes(counts, cells)
  PROVE  MotionIInv'
  <1> DEFINE columns == AtLeastOne(counts[1] \div areaSize[1])
             rows == AtLeastOne(counts[2] \div areaSize[2])
             n == columns * rows
  <1>1. counts \in (Nat \ {0}) \X (Nat \ {0})
    BY MotionAssumption
  <1>2. areaSize \in (Nat \ {0}) \X (Nat \ {0}) /\ areaIdCount \in Nat
        /\ areaIds \in Seq(1..areaIdCount)
    BY DEF MotionIInv, AreasAreTyped
  <1>3. columns \in Nat /\ rows \in Nat
    <2>1. counts[1] \div areaSize[1] \in Nat /\ counts[2] \div areaSize[2] \in Nat
      <3>1. /\ counts[1] \in Nat /\ counts[2] \in Nat
            /\ areaSize[1] \in Nat \ {0} /\ areaSize[2] \in Nat \ {0}
        BY <1>1, <1>2
      <3> QED
        BY <3>1, Division
    <2> QED
      BY <2>1 DEF AtLeastOne
  <1>4. /\ motion' = [counts |-> counts, cells |-> cells] /\ grid' = <<columns, rows>>
        /\ area' = 0 /\ areasShown' = {} /\ sizeStayed' = TRUE /\ areaSize' = areaSize
        /\ IF Len(areaIds) # n
             THEN /\ areaIds' = [i \in 1..n |-> areaIdCount + i]
                  /\ areaIdCount' = areaIdCount + n
             ELSE areaIds' = areaIds /\ areaIdCount' = areaIdCount
    BY DEF PacketComes
  <1> HIDE DEF columns, rows
  <1>5. n \in Nat /\ AreaCount' = n
    BY <1>3, <1>4 DEF AreaCount
  <1> HIDE DEF n
  <1>6. /\ areaIdCount' \in Nat /\ areaIds' \in Seq(1..areaIdCount') /\ Len(areaIds') = n
        /\ \A i, j \in 1..n : areaIds'[i] = areaIds'[j] => i = j
    <2>1. CASE Len(areaIds) # n
      <3>1. /\ areaIdCount' = areaIdCount + n /\ areaIdCount' \in Nat
            /\ areaIds' = [i \in 1..n |-> areaIdCount + i]
        BY <1>2, <1>4, <1>5, <2>1
      <3>2. \A i \in 1..n : areaIdCount + i \in 1..areaIdCount'
        BY <1>2, <1>5, <3>1
      <3>3. areaIds' \in [1..n -> 1..areaIdCount']
        BY <3>1, <3>2
      <3>4. areaIds' \in Seq(1..areaIdCount')
        BY <1>5, <3>3, FunctionIsSeq
      <3>5. Len(areaIds') = n
        <4>1. Len(areaIds') \in Nat /\ DOMAIN areaIds' = 1..Len(areaIds')
          BY <3>4, LenProperties
        <4> DEFINE l == Len(areaIds')
        <4>2. l \in Nat /\ 1..l = 1..n
          BY <3>1, <4>1
        <4> HIDE DEF l
        <4>3. l \in 1..l \/ l = 0
          BY <4>2
        <4>4. n \in 1..n \/ n = 0
          BY <1>5
        <4>5. (l \in 1..n \/ l = 0) /\ (n \in 1..l \/ n = 0)
          BY <4>2, <4>3, <4>4
        <4> QED
          BY <1>5, <4>2, <4>5 DEF l
      <3>6. \A i, j \in 1..n : areaIds'[i] = areaIds'[j] => i = j
        <4> SUFFICES ASSUME NEW i \in 1..n, NEW j \in 1..n, areaIds'[i] = areaIds'[j]
                     PROVE  i = j
          OBVIOUS
        <4>1. areaIdCount + i = areaIdCount + j
          BY <3>1
        <4> QED
          BY <1>2, <4>1
      <3> QED
        BY <3>1, <3>4, <3>5, <3>6
    <2>2. CASE Len(areaIds) = n
      BY <1>2, <1>4, <2>2 DEF MotionIInv, AreasAreSound
    <2> QED
      BY <2>1, <2>2
  <1>7. AreasAreTyped'
    <2>1. motion'.counts = counts /\ motion'.cells = cells
      BY <1>4
    <2>2. grid' \in Nat \X Nat /\ area' \in 0..AreaCount' /\ sizeStayed' \in BOOLEAN
      BY <1>3, <1>4, <1>5
    <2> QED
      BY <1>1, <1>2, <1>4, <1>6, <2>1, <2>2 DEF AreasAreTyped
  <1>8. AreasAreSound'
    <2>1. AreasMoved' = {}
      BY <1>4 DEF AreasMoved
    <2> QED
      BY <1>4, <1>5, <1>6, <2>1 DEF AreasAreSound
  <1> QED
    BY <1>7, <1>8 DEF MotionIInv

LEMMA ScanIsSound ==
  ASSUME MotionIInv, ScanArea
  PROVE  MotionIInv'
  <1> DEFINE g == grid[1]
             d == grid[2]
             column == area \div d
             row == area % d
             more == IF HasMotionUnderObject(column, row) THEN {AreaObject(area)} ELSE {}
  <1>1. /\ g \in Nat /\ d \in Nat /\ AreaCount = g * d /\ area \in 0..AreaCount
        /\ area # AreaCount /\ sizeStayed /\ g * d \in Nat
    BY DEF MotionIInv, AreasAreTyped, AreasAreSound, ScanArea, IsIdle, AreaCount
  <1>2. area \in 0..g * d - 1 /\ area \in Nat
    BY <1>1
  <1>3. d # 0 /\ column \in Nat /\ row \in Nat /\ area = d * column + row
    <2>1. d # 0 /\ column \in 0..g - 1 /\ row \in 0..d - 1 /\ area = d * column + row
      <3> HIDE DEF g, d
      <3>1. \A a \in 0..g * d - 1 : d # 0 /\ a \in Nat /\ a \div d \in 0..g - 1
                                 /\ a % d \in 0..d - 1 /\ a = d * (a \div d) + (a % d)
        BY <1>1, PlacesOfGrid, Zenon
      <3> QED
        BY <1>2, <3>1, Zenon
    <2> QED
      BY <1>1, <2>1
  <1>4. column * grid[2] + row + 1 = area + 1
    <2> HIDE DEF column, row
    <2>1. column * d = d * column
      BY <1>1, <1>3
    <2> QED
      BY <1>1, <1>3, <2>1
  <1>5. /\ areasShown' = areasShown \union more /\ area' = area + 1
        /\ UNCHANGED <<areaSize, areaIds, areaIdCount, motion, grid, sizeStayed>>
    BY <1>4 DEF ScanArea, AreaObject, PlaceOf
  <1>6. AreaCount' = AreaCount
    BY <1>5 DEF AreaCount
  <1>7. /\ \A a \in 0..area' - 1 : AreaObject(a)' = AreaObject(a)
        /\ 0..area' - 1 = 0..area - 1 \union {area}
    BY <1>2, <1>5 DEF AreaObject, PlaceOf
  <1>8. \A q, r : HasMotionUnderObject(q, r)' <=> HasMotionUnderObject(q, r)
    BY <1>5 DEF HasMotionUnderObject
  <1>9. AreasMoved' = AreasMoved \union {a \in {area} : HasMotionUnderObject(column, row)}
    <2>1. AreasMoved' = {a \in 0..area' - 1 : HasMotionUnderObject(a \div grid[2], a % grid[2])}
      BY <1>5, <1>8 DEF AreasMoved
    <2> QED
      BY <1>7, <2>1 DEF AreasMoved
  <1>10. AreasAreTyped'
    <2>1. area' \in 0..AreaCount'
      BY <1>1, <1>5, <1>6
    <2> QED
      BY <1>5, <1>6, <2>1 DEF MotionIInv, AreasAreTyped
  <1>11. areasShown' = {AreaObject(a) : a \in AreasMoved'}
    <2>1. areasShown = {AreaObject(a) : a \in AreasMoved}
      BY <1>1 DEF MotionIInv, AreasAreSound
    <2> HIDE DEF column, row
    <2> QED
      BY <1>5, <1>9, <2>1
  <1>12. AreasMoved' \subseteq 0..area' - 1
    BY DEF AreasMoved
  <1>13. areasShown' = {AreaObject(a)' : a \in AreasMoved'}
    BY <1>7, <1>11, <1>12
  <1>14. AreasAreSound'
    BY <1>1, <1>5, <1>6, <1>12, <1>13 DEF MotionIInv, AreasAreSound
  <1> QED
    BY <1>10, <1>14 DEF MotionIInv

LEMMA SizeIsSound ==
  ASSUME MotionIInv, NEW size \in AreaSizes, MotionSettingsReceived(size)
  PROVE  MotionIInv'
  <1>1. /\ areaSize' = size /\ sizeStayed' = FALSE /\ IsIdle
        /\ UNCHANGED <<areaIds, areaIdCount, motion, grid, area, areasShown>>
    BY DEF MotionSettingsReceived
  <1>2. AreaCount' = AreaCount /\ IsIdle'
    BY <1>1 DEF AreaCount, IsIdle
  <1>3. \A a : AreaObject(a)' = AreaObject(a)
    BY <1>1 DEF AreaObject, PlaceOf
  <1>4. AreasAreTyped'
    BY <1>1, <1>2, MotionAssumption DEF MotionIInv, AreasAreTyped
  <1>5. areasShown' \subseteq {AreaObject(a)' : a \in 0..area' - 1}
    BY <1>1, <1>3 DEF MotionIInv, AreasAreSound
  <1>6. AreasAreSound'
    BY <1>1, <1>2, <1>5 DEF MotionIInv, AreasAreSound
  <1> QED
    BY <1>4, <1>6 DEF MotionIInv

LEMMA MotionBegins == MotionInit => MotionIInv
  <1> SUFFICES ASSUME MotionInit PROVE MotionIInv
    OBVIOUS
  <1>1. <<>> \in Seq(1..0) /\ Len(<<>>) = 0
    BY EmptySeq, Zenon
  <1>2. AreaCount = 0
    BY DEF MotionInit, AreaCount
  <1>3. AreasAreTyped
    BY <1>1, <1>2, MotionAssumption DEF MotionInit, AreasAreTyped
  <1>4. AreasMoved = {}
    BY DEF MotionInit, AreasMoved
  <1>5. AreasAreSound
    BY <1>1, <1>2, <1>4 DEF MotionInit, AreasAreSound
  <1> QED
    BY <1>3, <1>5 DEF MotionIInv

LEMMA MotionIsKept == MotionIInv /\ [MotionNext]_motionVars => MotionIInv'
  <1> SUFFICES ASSUME MotionIInv, [MotionNext]_motionVars PROVE MotionIInv'
    OBVIOUS
  <1>1. CASE UNCHANGED motionVars
    <2>1. UNCHANGED <<areaSize, areaIds, areaIdCount, motion, grid, area, areasShown,
                      sizeStayed>>
      BY <1>1 DEF motionVars
    <2>2. AreaCount' = AreaCount /\ (IsIdle' <=> IsIdle)
      BY <2>1 DEF AreaCount, IsIdle
    <2>3. AreasMoved' = AreasMoved
      BY <2>1 DEF AreasMoved, HasMotionUnderObject
    <2>4. \A a : AreaObject(a)' = AreaObject(a)
      BY <2>1 DEF AreaObject, PlaceOf
    <2>5. AreasAreTyped'
      BY <2>1, <2>2 DEF MotionIInv, AreasAreTyped
    <2>6. /\ areasShown' \subseteq {AreaObject(a)' : a \in 0..area' - 1}
          /\ sizeStayed' => areasShown' = {AreaObject(a)' : a \in AreasMoved'}
      BY <2>1, <2>3, <2>4 DEF MotionIInv, AreasAreSound
    <2>7. AreasAreSound'
      BY <2>1, <2>2, <2>6 DEF MotionIInv, AreasAreSound
    <2> QED
      BY <2>5, <2>7 DEF MotionIInv
  <1> QED
    BY <1>1, PacketIsSound, ScanIsSound, SizeIsSound DEF MotionNext

(* Each area with motion, and no other one, has an object, and different   *)
(* areas are of different tracks: for grids and areas of any size.         *)
THEOREM MotionHasObjects == MotionSpec => []MotionIsShown
  <1>1. ASSUME MotionIInv PROVE MotionIsShown
    <2> DEFINE g == grid[1]
               d == grid[2]
    <2>1. g \in Nat /\ d \in Nat /\ AreaCount = g * d /\ g * d \in Nat /\ area \in 0..g * d
      BY <1>1 DEF MotionIInv, AreasAreTyped, AreaCount
    <2>2. \A a \in 0..area - 1 : a \in 0..g * d - 1
      BY <2>1
    <2> HIDE DEF g, d
    <2>3. \A a \in 0..g * d - 1 : a \div d \in 0..g - 1 /\ a % d \in 0..d - 1
                               /\ a = d * (a \div d) + (a % d)
      <3>1. \A a \in 0..g * d - 1 : d # 0 /\ a \in Nat /\ a \div d \in 0..g - 1
                                 /\ a % d \in 0..d - 1 /\ a = d * (a \div d) + (a % d)
        BY <2>1, PlacesOfGrid, Zenon
      <3> QED
        BY <3>1, Zenon
    <2>4. ASSUME IsIdle, sizeStayed
          PROVE  {o.at : o \in areasShown} = AreasWithMotion
      <3>1. {o.at : o \in areasShown} = {PlaceOf(a) : a \in AreasMoved}
        <4>1. areasShown = {AreaObject(a) : a \in AreasMoved}
          BY <1>1, <2>4 DEF MotionIInv, AreasAreSound
        <4>2. \A a : AreaObject(a).at = PlaceOf(a)
          BY DEF AreaObject
        <4> QED
          BY <4>1, <4>2
      <3>2. AreasMoved = {a \in 0..g * d - 1 : HasMotionUnderObject(a \div d, a % d)}
        BY <2>1, <2>4 DEF AreasMoved, IsIdle, d
      <3>3. ASSUME NEW a \in AreasMoved PROVE PlaceOf(a) \in AreasWithMotion
        <4>1. a \div d \in 0..g - 1 /\ a % d \in 0..d - 1 /\ a \div d \in Nat /\ a % d \in Nat
          BY <2>1, <2>3, <3>2
        <4>2. PICK c \in motion.cells : c[1] \div areaSize[1] = a \div d
                                     /\ c[2] \div areaSize[2] = a % d
          BY <1>1, <3>2, <4>1, MotionUnderArea DEF MotionIInv
        <4> QED
          BY <4>1, <4>2 DEF PlaceOf, AreasWithMotion, g, d
      <3>4. ASSUME NEW p \in AreasWithMotion PROVE p \in {PlaceOf(a) : a \in AreasMoved}
        <4>1. PICK c \in motion.cells : p = <<c[1] \div areaSize[1], c[2] \div areaSize[2]>>
          BY DEF AreasWithMotion
        <4>2. p[1] \in 0..g - 1 /\ p[2] \in 0..d - 1 /\ p = <<p[1], p[2]>>
          BY DEF AreasWithMotion, g, d
        <4>3. p[1] \in Nat /\ p[2] \in Nat
          BY <2>1, <4>2
        <4>4. HasMotionUnderObject(p[1], p[2])
          BY <1>1, <4>1, <4>3, MotionUnderArea DEF MotionIInv
        <4> DEFINE a == d * p[1] + p[2]
        <4>5. a \in 0..g * d - 1 /\ a \div d = p[1] /\ a % d = p[2]
          BY <2>1, <4>2, PlacesOfGrid
        <4> HIDE DEF a
        <4>6. a \in AreasMoved /\ PlaceOf(a) = p
          BY <3>2, <4>2, <4>4, <4>5 DEF PlaceOf, d
        <4> QED
          BY <4>6
      <3> QED
        BY <3>1, <3>3, <3>4
    <2>5. ASSUME NEW o \in areasShown, NEW p \in areasShown
          PROVE  (o.at = p.at) <=> (o.id = p.id)
      <3>1. PICK a \in 0..area - 1 : o = AreaObject(a)
        BY <1>1 DEF MotionIInv, AreasAreSound
      <3>2. PICK b \in 0..area - 1 : p = AreaObject(b)
        BY <1>1 DEF MotionIInv, AreasAreSound
      <3>3. o.at = p.at => a = b
        <4>1. /\ a = d * (a \div d) + (a % d) /\ b = d * (b \div d) + (b % d)
          BY <2>2, <2>3
        <4>2. o.at = <<a \div d, a % d>> /\ p.at = <<b \div d, b % d>>
          BY <3>1, <3>2 DEF AreaObject, PlaceOf, d
        <4>3. o.at = p.at => a \div d = b \div d /\ a % d = b % d
          BY <4>2
        <4>4. ASSUME a \div d = b \div d, a % d = b % d PROVE a = b
          <5> DEFINE x == a \div d
                     u == a % d
          <5>1. a = d * x + u /\ b = d * (b \div d) + (b % d)
            BY <4>1
          <5>2. x = b \div d /\ u = b % d
            BY <4>4
          <5> HIDE DEF x, u
          <5>3. b = d * x + u
            BY <5>1, <5>2, Zenon
          <5> QED
            BY <5>1, <5>3, Zenon
        <4> QED
          BY <4>3, <4>4
      <3>4. o.id = p.id => a = b
        <4>1. o.id = areaIds[a + 1] /\ p.id = areaIds[b + 1]
          BY <3>1, <3>2 DEF AreaObject
        <4>2. Len(areaIds) = g * d
          BY <1>1, <2>1 DEF MotionIInv, AreasAreSound
        <4>3. a + 1 \in 1..Len(areaIds) /\ b + 1 \in 1..Len(areaIds)
          BY <2>1, <2>2, <4>2
        <4>4. areaIds[a + 1] = areaIds[b + 1] => a + 1 = b + 1
          BY <1>1, <4>3 DEF MotionIInv, AreasAreSound
        <4> QED
          BY <2>1, <4>1, <4>4
      <3> QED
        BY <3>1, <3>2, <3>3, <3>4
    <2> QED
      BY <2>4, <2>5 DEF MotionIsShown
  <1> QED
    BY <1>1, MotionBegins, MotionIsKept, PTL DEF MotionSpec

----------------------------------------------------------------------------
(* Object detection.                                                       *)

DetectRange == Range(DetectTypes)

(* The types that are on come each once.                                   *)
LEMMA TypesAreDistinct ==
  ASSUME typesOn \subseteq DetectRange
  PROVE  /\ TypesToGenerate \in Seq(DetectRange)
         /\ \A i, j \in 1..Len(TypesToGenerate) :
              TypesToGenerate[i] = TypesToGenerate[j] => i = j
  <1> DEFINE n == Len(DetectTypes)
             Next1(read, i) == IF DetectTypes[i] \in typesOn THEN Append(read, DetectTypes[i])
                               ELSE read
             Steps(g) == g = [i \in 0..n |-> IF i = 0 THEN <<>> ELSE Next1(g[i - 1], i)]
             step == [p \in Seq(DetectRange) \X (1..n) |-> Next1(p[1], p[2])]
             Among == CHOOSE g : Steps(g)
  <1>1. n \in Nat /\ \A i \in 1..n : DetectTypes[i] \in DetectRange
    BY DetectAssumption, ElementOfSeq, LenProperties DEF DetectRange
  <1>2. \A i, j \in 1..n : DetectTypes[i] = DetectTypes[j] => i = j
    BY DetectAssumption, LenProperties DEF IsInjective
  <1>3. <<>> \in Seq(DetectRange)
    BY EmptySeq
  <1>4. \A read \in Seq(DetectRange), i \in 1..n : Next1(read, i) \in Seq(DetectRange)
    <2> SUFFICES ASSUME NEW read \in Seq(DetectRange), NEW i \in 1..n
                 PROVE  Next1(read, i) \in Seq(DetectRange)
      OBVIOUS
    <2>1. DetectTypes[i] \in DetectRange
      BY <1>1
    <2>2. Append(read, DetectTypes[i]) \in Seq(DetectRange)
      BY <2>1, AppendProperties
    <2> QED
      BY <2>2
  <1>5. \E g \in [0..n -> Seq(DetectRange)] : Steps(g)
    <2>1. step \in [Seq(DetectRange) \X (1..n) -> Seq(DetectRange)]
      BY <1>4
    <2>2. PICK g : g \in Computations(Seq(DetectRange), <<>>, n, step)
      <3> HIDE DEF n, step
      <3> QED
        BY <1>1, <1>3, <2>1, ComputationExists
    <2>3. /\ g \in [0..n -> Seq(DetectRange)] /\ g[0] = <<>>
          /\ \A i \in 1..n : g[i] = step[<<g[i - 1], i>>]
      <3> HIDE DEF n, step
      <3> QED
        BY <2>2 DEF Computations
    <2>4. \A i \in 1..n : g[i] = Next1(g[i - 1], i)
      <3> SUFFICES ASSUME NEW i \in 1..n PROVE g[i] = Next1(g[i - 1], i)
        OBVIOUS
      <3> HIDE DEF n, Next1
      <3>1. i - 1 \in 0..n
        BY <1>1
      <3>2. g[i - 1] \in Seq(DetectRange)
        BY <2>3, <3>1
      <3> QED
        BY <2>3, <3>2
    <2>5. Steps(g)
      <3> HIDE DEF n, Next1
      <3> QED
        BY <1>1, <2>3, <2>4
    <2> QED
      BY <2>3, <2>5
  <1>6. Steps(Among)
    <2> HIDE DEF Steps
    <2> QED
      BY <1>5
  <1>7. /\ Among[0] = <<>>
        /\ \A i \in 1..n : Among[i] = Next1(Among[i - 1], i)
    <2> HIDE DEF Among, n, Next1
    <2> QED
      BY <1>1, <1>6
  <1> DEFINE Good(k) ==
               /\ Among[k] \in Seq(DetectRange)
               /\ \A i \in 1..Len(Among[k]) : \E j \in 1..k : Among[k][i] = DetectTypes[j]
               /\ \A i, j \in 1..Len(Among[k]) : Among[k][i] = Among[k][j] => i = j
             Bad == {k \in 0..n : ~Good(k)}
  <1> HIDE DEF Among
  <1>8. Good(0)
    BY <1>3, <1>7
  <1>9. ASSUME NEW k \in 1..n, Good(k - 1) PROVE Good(k)
    <2>1. Among[k] = Next1(Among[k - 1], k)
      BY <1>7
    <2>2. CASE DetectTypes[k] \notin typesOn
      <3>1. Among[k] = Among[k - 1]
        BY <2>1, <2>2
      <3>2. \A j \in 1..k - 1 : j \in 1..k
        BY <1>1
      <3> HIDE DEF n
      <3> QED
        BY <3>1, <3>2, <1>9
    <2>3. CASE DetectTypes[k] \in typesOn
      <3> DEFINE s == Among[k - 1]
                 t == DetectTypes[k]
      <3>1. Among[k] = Append(s, t) /\ s \in Seq(DetectRange) /\ t \in DetectRange
        BY <1>1, <1>9, <2>1, <2>3
      <3>2. \A i \in 1..Len(s) : \E j \in 1..k - 1 : s[i] = DetectTypes[j]
        BY <1>9
      <3>3. \A i, j \in 1..Len(s) : s[i] = s[j] => i = j
        BY <1>9
      <3> HIDE DEF s, n
      <3>4. \A i \in 1..Len(s) : s[i] # t
        <4> SUFFICES ASSUME NEW i \in 1..Len(s), s[i] = t PROVE FALSE
          OBVIOUS
        <4>1. PICK j \in 1..k - 1 : s[i] = DetectTypes[j]
          BY <3>2
        <4>2. j \in 1..n /\ j # k
          BY <1>1
        <4> QED
          BY <4>1, <4>2, <1>2
      <3> HIDE DEF t
      <3>5. /\ Append(s, t) \in Seq(DetectRange) /\ Len(Append(s, t)) = Len(s) + 1
            /\ \A i \in 1..Len(s) : Append(s, t)[i] = s[i]
            /\ Append(s, t)[Len(s) + 1] = t /\ Len(s) \in Nat
        BY <3>1, AppendProperties, LenProperties
      <3> DEFINE a == Append(s, t)
                 l == Len(s)
      <3> HIDE DEF a, l
      <3>6. \A i \in 1..l + 1 : i \in 1..l \/ i = l + 1
        BY <3>5 DEF l
      <3>7. \A i \in 1..l + 1 : \E j \in 1..k : a[i] = DetectTypes[j]
        <4>1. \A j \in 1..k - 1 : j \in 1..k
          BY <1>1
        <4>2. k \in 1..k
          BY <1>1
        <4> QED
          BY <4>1, <4>2, <3>2, <3>5, <3>6 DEF a, l, t
      <3>8. \A i, j \in 1..l + 1 : a[i] = a[j] => i = j
        BY <3>3, <3>4, <3>5, <3>6 DEF a, l
      <3> QED
        BY <3>1, <3>5, <3>7, <3>8 DEF a, l
    <2> QED
      BY <2>2, <2>3
  <1>10. Bad = {}
    <2> SUFFICES ASSUME Bad # {} PROVE FALSE
      OBVIOUS
    <2> HIDE DEF Good
    <2>1. PICK k \in Bad : \A m \in Bad : k <= m
      <3>1. Bad \in SUBSET Nat
        BY <1>1
      <3> HIDE DEF Bad
      <3> QED
        BY <3>1, LeastNumber
    <2> HIDE DEF n
    <2>2. k \in 1..n /\ k - 1 \in 0..n /\ ~(k <= k - 1)
      BY <1>1, <1>8, <2>1
    <2> QED
      BY <1>9, <2>1, <2>2
  <1>11. TypesToGenerate = Among[n]
    BY DEF TypesToGenerate, Among
  <1>12. Good(n)
    <2> HIDE DEF Good, n
    <2> QED
      BY <1>1, <1>10
  <1> HIDE DEF n
  <1> QED
    BY <1>11, <1>12

(* Each type climbs with the track of its place, and former tracks are not *)
(* among those in use.                                                     *)
DetectIsTyped ==
  /\ frameIndex \in 0..TrackLength - 1
  /\ typesOn \subseteq DetectRange
  /\ detected \in Nat
  /\ trackIds \in Seq(1..detected)

ClimbIsTracked ==
  /\ \A i, j \in 1..Len(trackIds) : trackIds[i] = trackIds[j] => i = j
  /\ \A p \in climb : \E i \in 1..Len(TypesToGenerate) :
       i \in 1..Len(trackIds) /\ p = <<TypesToGenerate[i], trackIds[i]>>
  /\ pastClimbs \subseteq 1..detected
  /\ \A i \in 1..Len(trackIds) : trackIds[i] \notin pastClimbs

DetectIInv == DetectIsTyped /\ ClimbIsTracked

(* Ids that are made on demand follow those that are there.                *)
LEMMA NewTracks ==
  ASSUME NEW d \in Nat, NEW m \in Nat, NEW s \in Seq(1..d),
         \A i, j \in 1..Len(s) : s[i] = s[j] => i = j,
         NEW a, a = s \o [i \in 1..m |-> d + i]
  PROVE  /\ a \in Seq(1..d + m) /\ Len(a) = Len(s) + m /\ Len(s) \in Nat
         /\ \A i \in 1..Len(s) : i \in 1..Len(a) /\ a[i] = s[i]
         /\ \A i \in 1..Len(a) : i \notin 1..Len(s) => a[i] \notin 1..d
         /\ \A i, j \in 1..Len(a) : a[i] = a[j] => i = j
  <1> DEFINE new == [i \in 1..m |-> d + i]
             l == Len(s)
  <1>1. l \in Nat /\ s \in [1..l -> 1..d]
    BY LenProperties
  <1>2. new \in [1..m -> 1..d + m]
    OBVIOUS
  <1>3. new \in Seq(1..d + m)
    BY <1>2, FunctionIsSeq
  <1>4. Len(new) = m
    BY <1>2, <1>3, LenProperties
  <1>5. s \in Seq(1..d + m)
    <2>1. s \in [1..l -> 1..d + m]
      BY <1>1
    <2> QED
      BY <1>1, <2>1, FunctionIsSeq
  <1>6. /\ a \in Seq(1..d + m) /\ Len(a) = l + m
        /\ \A i \in 1..l + m : a[i] = IF i <= l THEN s[i] ELSE new[i - l]
    <2> HIDE DEF new
    <2> QED
      BY <1>3, <1>4, <1>5, ConcatProperties DEF new
  <1>7. \A i \in 1..l + m : i > l => i - l \in 1..m /\ a[i] = d + (i - l)
    BY <1>1, <1>6
  <1>8. \A i \in 1..l : i \in 1..l + m /\ a[i] = s[i] /\ s[i] \in 1..d
    BY <1>1, <1>6
  <1> HIDE DEF l, new
  <1>9. \A i \in 1..l + m : i \notin 1..l => a[i] \notin 1..d
    BY <1>1, <1>7
  <1>10. \A i, j \in 1..l + m : a[i] = a[j] => i = j
    <2> SUFFICES ASSUME NEW i \in 1..l + m, NEW j \in 1..l + m, a[i] = a[j] PROVE i = j
      OBVIOUS
    <2>1. CASE i \in 1..l /\ j \in 1..l
      BY <2>1, <1>8 DEF l
    <2>2. CASE i \notin 1..l /\ j \notin 1..l
      BY <2>2, <1>1, <1>7
    <2> QED
      BY <2>1, <2>2, <1>8, <1>9
  <1> QED
    BY <1>1, <1>6, <1>8, <1>9, <1>10 DEF l

LEMMA DetectBegins == DetectInit => DetectIInv
  BY DetectAssumption, EmptySeq DEF DetectInit, DetectIInv, DetectIsTyped, ClimbIsTracked

LEMMA DetectFrameIsSound == DetectIInv /\ DetectFrame => DetectIInv'
  <1> SUFFICES ASSUME DetectIInv, DetectFrame PROVE DetectIInv'
    OBVIOUS
  <1> DEFINE index == (frameIndex + 1) % TrackLength
             types == TypesToGenerate
             kept == IF index = 0 THEN <<>> ELSE trackIds
             missing == IF Len(kept) < Len(types) THEN Len(types) - Len(kept) ELSE 0
             new == [i \in 1..missing |-> detected + i]
             all == kept \o new
             used == {<<types[i], all[i]>> : i \in DOMAIN types}
  <1>1. /\ frameIndex' = index /\ trackIds' = all /\ detected' = detected + Len(new)
        /\ climb' = IF index = 0 THEN used ELSE climb \union used
        /\ pastClimbs' = IF index = 0 THEN pastClimbs \union {p[2] : p \in climb}
                         ELSE pastClimbs
        /\ typesOn' = typesOn
    BY DEF DetectFrame, RoundEnds
  <1>2. index \in 0..TrackLength - 1
    BY DetectAssumption DEF DetectIInv, DetectIsTyped
  <1>3. /\ types \in Seq(DetectRange) /\ Len(types) \in Nat /\ DOMAIN types = 1..Len(types)
        /\ \A i, j \in 1..Len(types) : types[i] = types[j] => i = j
    BY TypesAreDistinct, LenProperties DEF DetectIInv, DetectIsTyped
  <1>4. TypesToGenerate' = types
    BY <1>1 DEF TypesToGenerate
  <1> HIDE DEF types, index
  <1>5. /\ kept \in Seq(1..detected) /\ Len(kept) \in Nat
        /\ \A i, j \in 1..Len(kept) : kept[i] = kept[j] => i = j
    <2>1. CASE index = 0
      BY <2>1, EmptySeq
    <2>2. CASE index # 0
      BY <2>2, LenProperties DEF DetectIInv, DetectIsTyped, ClimbIsTracked
    <2> QED
      BY <2>1, <2>2
  <1>6. detected \in Nat
    BY DEF DetectIInv, DetectIsTyped
  <1> HIDE DEF kept
  <1>7. missing \in Nat /\ Len(kept) + missing >= Len(types)
    BY <1>3, <1>5
  <1> HIDE DEF missing
  <1>8. Len(new) = missing
    <2>1. new \in [1..missing -> Nat]
      BY <1>6, <1>7
    <2>2. new \in Seq(Nat)
      BY <2>1, <1>7, FunctionIsSeq
    <2> HIDE DEF new
    <2> QED
      BY <2>1, <2>2, <1>7, LenProperties
  <1>9. /\ all \in Seq(1..detected + missing) /\ Len(all) = Len(kept) + missing
        /\ \A i \in 1..Len(kept) : i \in 1..Len(all) /\ all[i] = kept[i]
        /\ \A i \in 1..Len(all) : i \notin 1..Len(kept) => all[i] \notin 1..detected
        /\ \A i, j \in 1..Len(all) : all[i] = all[j] => i = j
    <2> HIDE DEF all
    <2> QED
      BY <1>5, <1>6, <1>7, NewTracks DEF all
  <1> HIDE DEF all, new
  <1>10. DetectIsTyped'
    BY <1>1, <1>2, <1>6, <1>7, <1>8, <1>9 DEF DetectIInv, DetectIsTyped
  <1>11. \A i \in 1..Len(types) : i \in 1..Len(all)
    BY <1>3, <1>5, <1>7, <1>9
  <1>12. \A p \in used : \E i \in 1..Len(types) : i \in 1..Len(all) /\ p = <<types[i], all[i]>>
    BY <1>3, <1>11
  <1>13. \A p \in climb : \E i \in 1..Len(types) :
           i \in 1..Len(trackIds) /\ p = <<types[i], trackIds[i]>>
    BY DEF DetectIInv, ClimbIsTracked, types
  <1>14. /\ pastClimbs \subseteq 1..detected
         /\ \A i \in 1..Len(trackIds) : trackIds[i] \in 1..detected
         /\ \A i \in 1..Len(trackIds) : trackIds[i] \notin pastClimbs
    BY ElementOfSeq DEF DetectIInv, DetectIsTyped, ClimbIsTracked
  <1>15. \A n \in 1..detected : n \in 1..detected + missing
    BY <1>6, <1>7
  <1> HIDE DEF used
  <1>16. CASE index = 0
    <2>1. Len(kept) = 0
      BY <1>16 DEF kept
    <2>2. \A p \in climb : p[2] \in 1..detected
      BY <1>13, <1>14
    <2>3. climb' = used /\ pastClimbs' \subseteq 1..detected
      BY <1>1, <1>14, <1>16, <2>2
    <2>4. \A i \in 1..Len(all) : all[i] \notin 1..detected
      BY <1>9, <2>1
    <2>5. ClimbIsTracked'
      BY <1>1, <1>4, <1>8, <1>9, <1>12, <1>15, <2>3, <2>4 DEF ClimbIsTracked
    <2> QED
      BY <2>5, <1>10 DEF DetectIInv
  <1>17. CASE index # 0
    <2>1. kept = trackIds
      BY <1>17 DEF kept
    <2>2. climb' = climb \union used /\ pastClimbs' = pastClimbs
      BY <1>1, <1>17
    <2>3. \A p \in climb : \E i \in 1..Len(types) :
            i \in 1..Len(all) /\ p = <<types[i], all[i]>>
      BY <1>9, <1>13, <2>1
    <2>4. \A i \in 1..Len(all) : all[i] \notin pastClimbs
      BY <1>9, <1>14, <2>1
    <2>5. pastClimbs \subseteq 1..detected + missing
      BY <1>14, <1>15
    <2>6. ClimbIsTracked'
      BY <1>1, <1>4, <1>8, <1>9, <1>12, <2>2, <2>3, <2>4, <2>5 DEF ClimbIsTracked
    <2> QED
      BY <2>6, <1>10 DEF DetectIInv
  <1> QED
    BY <1>16, <1>17

LEMMA DetectIsKept == DetectIInv /\ [DetectNext]_detectVars => DetectIInv'
  <1> SUFFICES ASSUME DetectIInv, [DetectNext]_detectVars PROVE DetectIInv'
    OBVIOUS
  <1>1. CASE UNCHANGED detectVars
    <2>1. TypesToGenerate' = TypesToGenerate
      BY <1>1 DEF detectVars, TypesToGenerate
    <2> QED
      BY <1>1, <2>1 DEF detectVars, DetectIInv, DetectIsTyped, ClimbIsTracked
  <1>2. ASSUME NEW types \in SUBSET Range(DetectTypes), DetectSettingsReceived(types)
        PROVE  DetectIInv'
    BY <1>2 DEF DetectSettingsReceived, DetectIInv, DetectIsTyped, ClimbIsTracked, DetectRange
  <1> QED
    BY <1>1, <1>2, DetectFrameIsSound DEF DetectNext

(* A type keeps its track while it climbs and comes back as another one,   *)
(* whatever types there are and however the settings have changed between. *)
THEOREM TracksClimbOnce == DetectSpec => []TracksOnlyClimb
  <1>1. DetectIInv => TracksOnlyClimb
    <2> SUFFICES ASSUME DetectIInv PROVE TracksOnlyClimb
      OBVIOUS
    <2>1. \A i, j \in 1..Len(TypesToGenerate) :
            TypesToGenerate[i] = TypesToGenerate[j] => i = j
      BY TypesAreDistinct DEF DetectIInv, DetectIsTyped
    <2> QED
      BY <2>1 DEF DetectIInv, ClimbIsTracked, TracksOnlyClimb
  <1> QED
    BY <1>1, DetectBegins, DetectIsKept, PTL DEF DetectSpec

----------------------------------------------------------------------------
(* Error reporting.                                                        *)

(* Only frames that have come have failed.                                 *)
FramesAreCounted ==
  /\ errorFrameCount \in Nat
  /\ \A n \in failedFrames : n \in 1..errorFrameCount

ErrorIInv == FramesAreCounted /\ SettingsFailAsAsked /\ FramesFailAsAsked

LEMMA ErrorBegins == ErrorInit => ErrorIInv
  <1> SUFFICES ASSUME ErrorInit PROVE ErrorIInv
    OBVIOUS
  <1>1. errorFrameCount = 0 /\ failedFrames = {} /\ reply.call = "none"
    BY DEF ErrorInit, ReplyOf
  <1>2. FramesAreCounted /\ SettingsFailAsAsked
    BY <1>1 DEF FramesAreCounted, SettingsFailAsAsked
  <1>3. \A n \in 1..0 : FALSE
    OBVIOUS
  <1>4. FramesFailAsAsked
    BY <1>1, <1>3 DEF FramesFailAsAsked
  <1> QED
    BY <1>2, <1>4 DEF ErrorIInv

(* A reply to a call for settings, with the parameter and the key of that  *)
(* call.                                                                   *)
LEMMA SettingsReply ==
  ASSUME NEW of \in {"Engine", "DeviceAgent"},
         NEW call \in {"settings", "active", "integration"},
         NEW key \in IF of = "Engine" THEN EngineItems ELSE DeviceAgentItems,
         NEW parameter, parameter = ParameterOf[of][call],
         ErrorIInv, SettingsCall(of, call, parameter, key)
  PROVE  ErrorIInv'
  <1> DEFINE asked == errorParameters[parameter]
  <1>1. /\ errorFlags' = errorFlags /\ errorParameters' = errorParameters
        /\ errorFrameCount' = errorFrameCount /\ failedFrames' = failedFrames
    BY DEF SettingsCall
  <1>2. kErrorInsteadOfSettingsResponse # kSettingsResponseWithError
    BY DEF kErrorInsteadOfSettingsResponse, kSettingsResponseWithError
  <1>3. /\ asked = kErrorInsteadOfSettingsResponse =>
             reply' = ReplyOf(of, call, "error", "internalError")
        /\ asked = kSettingsResponseWithError =>
             reply' = ReplyOf(of, call, "responseWithError", key)
        /\ asked # kErrorInsteadOfSettingsResponse /\ asked # kSettingsResponseWithError =>
             reply' = ReplyOf(of, call, "value", "")
    BY <1>2 DEF SettingsCall
  <1>4. /\ reply'.of = of /\ reply'.call = call
        /\ reply'.kind = "error" <=> asked = kErrorInsteadOfSettingsResponse
        /\ reply'.kind = "responseWithError" <=> asked = kSettingsResponseWithError
        /\ reply'.kind = "responseWithError" => reply'.text = key
    <2> HIDE DEF asked
    <2>1. CASE asked = kErrorInsteadOfSettingsResponse
      BY <1>2, <1>3, <2>1 DEF ReplyOf
    <2>2. CASE asked = kSettingsResponseWithError
      BY <1>2, <1>3, <2>2 DEF ReplyOf
    <2>3. CASE asked # kErrorInsteadOfSettingsResponse /\ asked # kSettingsResponseWithError
      <3>1. reply' = ReplyOf(of, call, "value", "")
        BY <1>3, <2>3
      <3>2. reply'.of = of /\ reply'.call = call /\ reply'.kind = "value"
        BY <3>1 DEF ReplyOf
      <3> QED
        BY <3>2, <2>3
    <2> QED
      BY <2>1, <2>2, <2>3
  <1>5. errorParameters'[ParameterOf[reply'.of][reply'.call]] = asked
    BY <1>1, <1>4
  <1>6. ItemsOf(reply.of)' # {} => key \in ItemsOf(reply.of)'
    BY <1>1, <1>4 DEF ItemsOf
  <1> HIDE DEF asked
  <1>7. SettingsFailAsAsked'
    BY <1>4, <1>5, <1>6 DEF SettingsFailAsAsked
  <1>8. FramesAreCounted' /\ FramesFailAsAsked'
    BY <1>1 DEF ErrorIInv, FramesAreCounted, FramesFailAsAsked
  <1> QED
    BY <1>7, <1>8 DEF ErrorIInv

(* A reply to another call says nothing of settings.                       *)
LEMMA OtherReply ==
  ASSUME ErrorIInv, NEW of, NEW call \in {"creation", "frame"}, NEW kind, NEW text,
         reply' = ReplyOf(of, call, kind, text),
         UNCHANGED <<errorFlags, errorParameters, errorFrameCount, failedFrames>>
  PROVE  ErrorIInv'
  <1>1. SettingsFailAsAsked'
    BY DEF SettingsFailAsAsked, ReplyOf
  <1>2. FramesAreCounted' /\ FramesFailAsAsked'
    BY DEF ErrorIInv, FramesAreCounted, FramesFailAsAsked
  <1> QED
    BY <1>1, <1>2 DEF ErrorIInv

LEMMA FrameIsAnswered == ErrorIInv /\ PushFrame => ErrorIInv'
  <1> SUFFICES ASSUME ErrorIInv, PushFrame PROVE ErrorIInv'
    OBVIOUS
  <1> DEFINE n == errorFrameCount + 1
             fails == "errorOnPushCompressedFrame" \in errorFlags /\ n % ErrorPeriod = 0
             code == IF fails THEN "otherError" ELSE IF handlerIsSet THEN "" ELSE "internalError"
  <1>1. /\ errorFrameCount' = n /\ errorFlags' = errorFlags
        /\ reply' = ReplyOf("DeviceAgent", "frame", IF code = "" THEN "value" ELSE "error", code)
        /\ failedFrames' = failedFrames \union (IF reply'.text = "otherError" THEN {n} ELSE {})
    BY DEF PushFrame
  <1>2. n \in Nat /\ \A k \in 1..n : k = n \/ k \in 1..errorFrameCount
    BY DEF ErrorIInv, FramesAreCounted
  <1>3. n \in 1..n /\ \A k \in 1..errorFrameCount : k \in 1..n
    BY DEF ErrorIInv, FramesAreCounted
  <1> HIDE DEF n
  <1>4. reply'.text = "otherError" <=> fails
    BY <1>1 DEF ReplyOf
  <1>5. SettingsFailAsAsked'
    BY <1>1 DEF SettingsFailAsAsked, ReplyOf
  <1>6. failedFrames' = failedFrames \union (IF fails THEN {n} ELSE {})
    BY <1>1, <1>4
  <1>7. FramesAreCounted'
    BY <1>1, <1>2, <1>3, <1>6 DEF ErrorIInv, FramesAreCounted
  <1>8. FramesFailAsAsked'
    <2>1. CASE "errorOnPushCompressedFrame" \in errorFlags
      <3>1. failedFrames = {k \in 1..errorFrameCount : k % ErrorPeriod = 0}
        BY <2>1 DEF ErrorIInv, FramesFailAsAsked
      <3>2. failedFrames' = {k \in 1..n : k % ErrorPeriod = 0}
        BY <1>2, <1>3, <1>6, <2>1, <3>1
      <3> QED
        BY <1>1, <2>1, <3>2 DEF FramesFailAsAsked
    <2>2. CASE "errorOnPushCompressedFrame" \notin errorFlags
      BY <1>1, <1>6, <2>2 DEF ErrorIInv, FramesFailAsAsked
    <2> QED
      BY <2>1, <2>2
  <1> QED
    BY <1>5, <1>7, <1>8 DEF ErrorIInv

LEMMA ErrorIsKept == ErrorIInv /\ [ErrorNext]_errorVars => ErrorIInv'
  <1> SUFFICES ASSUME ErrorIInv, [ErrorNext]_errorVars PROVE ErrorIInv'
    OBVIOUS
  <1>1. CASE UNCHANGED errorVars
    BY <1>1 DEF errorVars, ErrorIInv, FramesAreCounted, SettingsFailAsAsked, FramesFailAsAsked,
                ItemsOf
  <1>2. CASE MakeEngine
    <2>1. reply' = ReplyOf("Engine", "creation",
                     IF errorEngine' = "error" THEN "error" ELSE "value", errorEngine')
      BY <1>2 DEF MakeEngine, ReplyOfCreation
    <2> QED
      BY <1>2, <2>1, OtherReply DEF MakeEngine
  <1>3. CASE MakeDeviceAgent
    <2>1. reply' = ReplyOf("DeviceAgent", "creation",
                     IF errorAgent' = "error" THEN "error" ELSE "value", errorAgent')
      BY <1>3 DEF MakeDeviceAgent, ReplyOfCreation
    <2> QED
      BY <1>3, <2>1, OtherReply DEF MakeDeviceAgent
  <1>4. CASE SetErrorHandler
    BY <1>4 DEF SetErrorHandler, ErrorIInv, FramesAreCounted, SettingsFailAsAsked,
                FramesFailAsAsked, ItemsOf
  <1>5. CASE EngineSetSettings
    BY <1>5, SettingsReply DEF EngineSetSettings, ParameterOf, EngineItems
  <1>6. CASE EngineActiveSettingChange
    BY <1>6, SettingsReply DEF EngineActiveSettingChange, ParameterOf, EngineItems
  <1>7. CASE EngineGetIntegrationSideSettings
    BY <1>7, SettingsReply DEF EngineGetIntegrationSideSettings, ParameterOf, EngineItems
  <1>8. CASE DeviceAgentSetSettings
    BY <1>8, SettingsReply DEF DeviceAgentSetSettings, ParameterOf, DeviceAgentItems
  <1>9. CASE DeviceAgentActiveSettingChange
    BY <1>9, SettingsReply DEF DeviceAgentActiveSettingChange, ParameterOf, DeviceAgentItems
  <1>10. CASE DeviceAgentGetIntegrationSideSettings
    BY <1>10, SettingsReply
       DEF DeviceAgentGetIntegrationSideSettings, ParameterOf, DeviceAgentItems
  <1>11. CASE PushFrame
    BY <1>11, FrameIsAnswered
  <1>12. CASE PushInvalidPacket
    BY <1>12, OtherReply DEF PushInvalidPacket
  <1> QED
    BY <1>1, <1>2, <1>3, <1>4, <1>5, <1>6, <1>7, <1>8, <1>9, <1>10, <1>11, <1>12 DEF ErrorNext

(* Settings and frames fail as the .ini file says and not otherwise, for   *)
(* any period, in whatever order the calls come and fail.                  *)
THEOREM FailuresAreAsAsked == ErrorSpec => []ErrorsAreAsAsked
  <1>1. ErrorIInv => ErrorsAreAsAsked
    BY DEF ErrorIInv, ErrorsAreAsAsked
  <1> QED
    BY <1>1, ErrorBegins, ErrorIsKept, PTL DEF ErrorSpec

----------------------------------------------------------------------------
(* Actions on objects.                                                     *)

(* What is asked and what is answered, of an action that can be chosen.    *)
IsWellAnswered ==
  /\ outcome.url = {} \/ outcome.message = {}
  /\ IsOffered /\ request.params # NullParams =>
       /\ outcome.error = "none"
       /\ outcome.url # {} \/ Expected \subseteq outcome.message
       /\ <<"page", "prefix">> \in outcome.url => <<"track", request.track.id>> \in outcome.url
  /\ IsOffered /\ request.params = NullParams => outcome = WithError("invalidParams")

ActionIInv == actionPlugin \in {"object_actions", "special_objects"} /\ IsWellAnswered

LEMMA ActionBegins == ActionInit => ActionIInv
  <1> SUFFICES ASSUME ActionInit PROVE ActionIInv
    OBVIOUS
  <1>1. /\ actionPlugin \in {"object_actions", "special_objects"}
        /\ request.action = "none" /\ outcome.url = {}
    BY DEF ActionInit, NoRequest, NoOutcome
  <1>2. ~IsOffered
    BY <1>1 DEF IsOffered, OfferedActions, ObjectActionsManifest, SpecialActionsManifest,
                OfferedAction
  <1> QED
    BY <1>1, <1>2 DEF ActionIInv, IsWellAnswered

(* The facts of a track are told, or "null" for a track that is not known. *)
LEMMA FactsAreTold ==
  ASSUME NEW needs \in SUBSET WholeTrack, NEW info \in TrackInfos(needs)
  PROVE  {<<"info", f>> : f \in info.facts \ {"track"}} \subseteq Described(info)
  <1>1. CASE info = NoInfo
    <2>1. info.facts = {}
      BY <1>1 DEF NoInfo
    <2> QED
      BY <2>1
  <1>2. CASE info \in [known : {TRUE}, facts : SUBSET needs]
    <2>1. info.known /\ info.facts \subseteq needs
      BY <1>2
    <2>2. info.facts \ {"track"} \subseteq info.facts \intersect {"frame", "metadata"}
      BY <2>1 DEF WholeTrack
    <2> QED
      BY <2>1, <2>2 DEF Described
  <1> QED
    BY <1>1, <1>2 DEF TrackInfos

(* A message that has everything, an address of the page or of the object. *)
LEMMA OutcomeIsSound ==
  ASSUME NEW track, NEW info, NEW params, NEW action, params # NullParams,
         {<<"info", f>> : f \in info.facts \ {"track"}} \subseteq Described(info),
         request' = [action |-> action, track |-> track, info |-> info, params |-> params],
         outcome'.error = "none",
         \/ /\ outcome'.url = {}
            /\ {<<"track", track.id>>} \union Described(info) \union Parameters(params)
                 \subseteq outcome'.message
         \/ /\ outcome'.message = {} /\ outcome'.url # {}
            /\ <<"page", "prefix">> \in outcome'.url => <<"track", track.id>> \in outcome'.url
  PROVE  IsWellAnswered'
  <1>1. request'.track = track /\ request'.info = info /\ request'.params = params
    OBVIOUS
  <1>2. Expected' = {<<"track", track.id>>} \union Parameters(params)
                      \union {<<"info", f>> : f \in info.facts \ {"track"}}
    BY <1>1 DEF Expected, Parameters
  <1>3. Expected' \subseteq {<<"track", track.id>>} \union Described(info) \union Parameters(params)
    BY <1>2
  <1>4. outcome'.url = {} \/ outcome'.message = {}
    OBVIOUS
  <1>5. outcome'.url # {} \/ Expected' \subseteq outcome'.message
    BY <1>3
  <1>6. <<"page", "prefix">> \in outcome'.url => <<"track", request'.track.id>> \in outcome'.url
    BY <1>1
  <1> HIDE DEF IsWellAnswered
  <1> QED
    BY <1>1, <1>4, <1>5, <1>6 DEF IsWellAnswered

LEMMA NoParametersToTell == Parameters(NoParameters) = {}
  BY DEF Parameters, NoParameters

LEMMA FilledInNothing ==
  ASSUME NEW params \in FilledIn(NoParameters), params # NullParams
  PROVE  Parameters(params) = {}
  <1>1. DOMAIN NoParameters = {}
    BY DEF NoParameters
  <1>2. params = NoParameters
    BY <1>1 DEF FilledIn
  <1> QED
    BY <1>2, NoParametersToTell

LEMMA ChosenIsAnswered == ActionIInv /\ ChooseAction => ActionIInv'
  <1> SUFFICES ASSUME ActionIInv, NEW track \in sentTracks, NEW offered \in OfferedActions,
                      NEW info \in TrackInfos(offered.needs),
                      NEW params \in FilledIn(offered.parameters),
                      Requested(offered.id, track, info, params)
               PROVE  ActionIInv'
    BY DEF ChooseAction
  <1> DEFINE action == offered.id
  <1>1. /\ request' = [action |-> action, track |-> track, info |-> info, params |-> params]
        /\ outcome' = DoExecuteAction(action, track, info, params)
        /\ actionPlugin' = actionPlugin
    BY DEF Requested
  <1>2. CASE params = NullParams
    <2>1. outcome' = WithError("invalidParams") /\ request'.params = NullParams
      BY <1>1, <1>2 DEF DoExecuteAction
    <2>2. outcome'.url = {}
      BY <2>1 DEF WithError
    <2>3. IsWellAnswered'
      BY <2>1, <2>2 DEF IsWellAnswered
    <2> QED
      BY <1>1, <2>3 DEF ActionIInv
  <1>3. CASE params # NullParams
    <2>1. offered.needs \in SUBSET WholeTrack
      BY DEF OfferedActions, ObjectActionsManifest, SpecialActionsManifest, OfferedAction,
             WholeTrack
    <2>2. {<<"info", f>> : f \in info.facts \ {"track"}} \subseteq Described(info)
      BY <2>1, FactsAreTold
    <2> DEFINE told == {<<"track", track.id>>} \union Described(info) \union Parameters(params)
               common == CommonMessage(track, info)
    <2>3. {<<"track", track.id>>} \union Described(info) \subseteq common
      BY DEF CommonMessage
    <2>4. CASE actionPlugin = "object_actions"
      <3>1. offered \in ObjectActionsManifest
            /\ outcome' = ExecuteObjectAction(action, track, info, params)
        BY <1>1, <1>3, <2>4 DEF OfferedActions, DoExecuteAction
      <3>2. CASE action \in {"nx.stub.objectActionWithMessageResult",
                             "nx.stub.objectActionWithRequirements"}
        <4>1. outcome' = WithMessage(common)
          BY <3>1, <3>2 DEF ExecuteObjectAction
        <4>2. offered.parameters = NoParameters
          BY <3>1, <3>2 DEF ObjectActionsManifest, OfferedAction
        <4>3. Parameters(params) = {}
          BY <4>2, <1>3, FilledInNothing
        <4>4. outcome'.error = "none" /\ outcome'.url = {} /\ told \subseteq outcome'.message
          BY <4>1, <4>3, <2>3 DEF WithMessage
        <4> QED
          BY <4>4, <1>1, <1>3, <2>2, OutcomeIsSound DEF ActionIInv
      <3>3. CASE action = "nx.stub.objectActionWithUrlResult"
        <4>1. outcome' = WithUrl({<<"page", "https://example.com">>})
          BY <3>1, <3>3 DEF ExecuteObjectAction
        <4>2. /\ outcome'.error = "none" /\ outcome'.message = {} /\ outcome'.url # {}
              /\ <<"page", "prefix">> \notin outcome'.url
          BY <4>1 DEF WithUrl
        <4> QED
          BY <4>2, <1>1, <1>3, <2>2, OutcomeIsSound DEF ActionIInv
      <3>4. CASE action = "nx.stub.objectActionWithParameters"
        <4>1. outcome' = WithMessage(common \union Parameters(params))
          BY <3>1, <3>4 DEF ExecuteObjectAction
        <4>2. outcome'.error = "none" /\ outcome'.url = {} /\ told \subseteq outcome'.message
          BY <4>1, <2>3 DEF WithMessage
        <4> QED
          BY <4>2, <1>1, <1>3, <2>2, OutcomeIsSound DEF ActionIInv
      <3> QED
        BY <3>1, <3>2, <3>3, <3>4 DEF ObjectActionsManifest, OfferedAction
    <2>5. CASE actionPlugin = "special_objects"
      <3>1. offered \in SpecialActionsManifest
            /\ outcome' = ExecuteSpecialAction(action, track, info, params)
        BY <1>1, <1>3, <2>5 DEF OfferedActions, DoExecuteAction
      <3>2. CASE action = "nx.stub.addToList"
        <4>1. outcome' = WithMessage(told)
          BY <3>1, <3>2 DEF ExecuteSpecialAction
        <4>2. outcome'.error = "none" /\ outcome'.url = {} /\ told \subseteq outcome'.message
          BY <4>1 DEF WithMessage
        <4> QED
          BY <4>2, <1>1, <1>3, <2>2, OutcomeIsSound DEF ActionIInv
      <3>3. CASE action = "nx.stub.addPerson"
        <4>1. outcome' = WithUrl({<<"page", "prefix">>, <<"track", track.id>>})
          BY <3>1, <3>3 DEF ExecuteSpecialAction
        <4>2. /\ outcome'.error = "none" /\ outcome'.message = {} /\ outcome'.url # {}
              /\ <<"track", track.id>> \in outcome'.url
          BY <4>1 DEF WithUrl
        <4> QED
          BY <4>2, <1>1, <1>3, <2>2, OutcomeIsSound DEF ActionIInv
      <3> QED
        BY <3>1, <3>2, <3>3 DEF SpecialActionsManifest, OfferedAction
    <2> QED
      BY <2>4, <2>5 DEF ActionIInv
  <1> QED
    BY <1>2, <1>3

(* An action that is not offered may be answered with an error or with     *)
(* nothing.                                                                *)
LEMMA FormerIsAnswered == ActionIInv /\ ChooseFormerAction => ActionIInv'
  <1> SUFFICES ASSUME ActionIInv, NEW track \in sentTracks,
                      Requested("former", track, NoInfo, NoParameters)
               PROVE  ActionIInv'
    BY DEF ChooseFormerAction
  <1>1. /\ request'.action = "former"
        /\ outcome' = DoExecuteAction("former", track, NoInfo, NoParameters)
        /\ actionPlugin' = actionPlugin
    BY DEF Requested
  <1>2. DoExecuteAction("former", track, NoInfo, NoParameters)
          \in {NoOutcome, WithError("invalidParams")}
    <2>1. ExecuteObjectAction("former", track, NoInfo, NoParameters) = NoOutcome
      BY DEF ExecuteObjectAction
    <2>2. ExecuteSpecialAction("former", track, NoInfo, NoParameters)
            = WithError("invalidParams")
      BY DEF ExecuteSpecialAction
    <2> QED
      BY <2>1, <2>2 DEF DoExecuteAction
  <1>3. outcome'.url = {}
    BY <1>1, <1>2 DEF NoOutcome, WithError
  <1>4. ~IsOffered'
    BY <1>1 DEF IsOffered, OfferedActions, ObjectActionsManifest, SpecialActionsManifest,
                OfferedAction
  <1>5. IsWellAnswered'
    BY <1>3, <1>4 DEF IsWellAnswered
  <1> QED
    BY <1>1, <1>5 DEF ActionIInv

LEMMA ActionIsKept == ActionIInv /\ [ActionNext]_actionVars => ActionIInv'
  <1> SUFFICES ASSUME ActionIInv, [ActionNext]_actionVars PROVE ActionIInv'
    OBVIOUS
  <1>1. ASSUME UNCHANGED <<actionPlugin, request, outcome>> PROVE ActionIInv'
    <2>1. Expected' = Expected /\ IsOffered' = IsOffered
      BY <1>1 DEF Expected, IsOffered, OfferedActions, Parameters
    <2> QED
      BY <1>1, <2>1 DEF ActionIInv, IsWellAnswered
  <1>2. CASE UNCHANGED actionVars
    BY <1>1, <1>2 DEF actionVars
  <1>3. CASE GenerateObject
    BY <1>1, <1>3 DEF GenerateObject
  <1>4. CASE GenerateSpecialObject
    BY <1>1, <1>4 DEF GenerateSpecialObject
  <1> QED
    BY <1>2, <1>3, <1>4, ChosenIsAnswered, FormerIsAnswered DEF ActionNext

(* Whatever objects there are, and whatever is known of the chosen one and *)
(* filled in for it, the user is told all of it, or sent to a page, that of*)
(* the chosen object.                                                      *)
THEOREM ChoicesAreAnswered == ActionSpec => []ActionsAreAnswered
  <1>1. ActionIInv => ActionsAreAnswered
    <2>1. ActionIInv => ActionsAreAvailable
      BY DEF ActionIInv, ActionsAreAvailable, OfferedActions, SupportedTypes,
             ObjectActionsManifest, SpecialActionsManifest, OfferedAction
    <2> QED
      BY <2>1 DEF ActionIInv, IsWellAnswered, ActionsAreAnswered
  <1> QED
    BY <1>1, ActionBegins, ActionIsKept, PTL DEF ActionSpec

----------------------------------------------------------------------------
(* The base class, ConsumingDeviceAgent: what m_mutex guarantees.          *)

(* Who calls the handler holds the mutex, and calls the present handler;   *)
(* so does the Server from the first packet of a batch to the last.        *)
CallsAreLocked ==
  \A a \in Threads \union {Server} :
    calling[a] # NoHandler => mutex = a /\ calling[a] = handler

BatchIsLocked ==
  server = "processing" =>
    mutex = Server /\ (calling[Server] # NoHandler => packets > 0)

BaseIInv == BaseTypeOK /\ CallsAreLocked /\ BatchIsLocked

LEMMA BaseInitially == BaseInit => BaseIInv
  BY ThreadsAssumption
  DEF BaseInit, BaseIInv, BaseTypeOK, CallsAreLocked, BatchIsLocked

(* The Server's calls, but for what its overrides push.                    *)
LEMMA ServerStep ==
  ASSUME BaseIInv, DoPushDataPacket \/ \E h \in Handlers : SetHandler(h)
  PROVE  BaseIInv'
  <1> USE ThreadsAssumption
      DEF BaseIInv, BaseTypeOK, CallsAreLocked, BatchIsLocked
  <1>1. CASE \E h \in Handlers : SetHandler(h)
    BY <1>1 DEF SetHandler
  <1>2. CASE EnterOverride \/ LeaveOverride \/ AcceptDataPacket \/ ReturnError
    BY <1>2 DEF EnterOverride, LeaveOverride, AcceptDataPacket, ReturnError
  <1>3. CASE PullMetadataPackets
    BY <1>3 DEF PullMetadataPackets
  <1>4. CASE ProcessMetadataPackets
    BY <1>4 DEF ProcessMetadataPackets
  <1>5. CASE ProcessMetadataPacket
    BY <1>5 DEF ProcessMetadataPacket
  <1>6. CASE NextPacket
    BY <1>6 DEF NextPacket
  <1>7. CASE EndProcessing
    BY <1>7 DEF EndProcessing
  <1> QED
    BY <1>1, <1>2, <1>3, <1>4, <1>5, <1>6, <1>7 DEF DoPushDataPacket

(* What a thread of the plugin, or an override, pushes.                    *)
LEMMA PushStep ==
  ASSUME BaseIInv, NEW t \in Threads \union {Server},
         Lock(t) \/ CallHandler(t) \/ EndPush(t)
  PROVE  BaseIInv'
  <1> USE ThreadsAssumption
      DEF BaseIInv, BaseTypeOK, CallsAreLocked, BatchIsLocked
  <1>1. CASE Lock(t)
    BY <1>1 DEF Lock
  <1>2. CASE CallHandler(t)
    BY <1>2 DEF CallHandler
  <1>3. CASE EndPush(t)
    BY <1>3 DEF EndPush
  <1> QED
    BY <1>1, <1>2, <1>3

(* The inductive invariant of the base class holds in all states.          *)
THEOREM BaseInvariance == BaseSpec => []BaseIInv
  <1>1. BaseIInv /\ [BaseNext]_baseVars => BaseIInv'
    <2> SUFFICES ASSUME BaseIInv, [BaseNext]_baseVars PROVE BaseIInv'
      OBVIOUS
    <2>1. CASE UNCHANGED baseVars
      BY <2>1 DEF baseVars, BaseIInv, BaseTypeOK, CallsAreLocked, BatchIsLocked
    <2>2. CASE BaseNext
      BY <2>2, ServerStep, PushStep DEF BaseNext
    <2> QED
      BY <2>1, <2>2
  <1> QED
    BY <1>1, BaseInitially, PTL DEF BaseSpec

(* A handler is replaced only when nobody is calling it, so that the Server*)
(* may destroy it once setHandler() has returned.                          *)
THEOREM HandlerIsSafe == BaseSpec => []HandlerOutlivesCall
  <1>1. BaseIInv => HandlerOutlivesCall
    BY DEF BaseIInv, CallsAreLocked, HandlerOutlivesCall
  <1> QED
    BY <1>1, BaseInvariance, PTL

(* The packets of one batch are delivered with nothing in between.         *)
THEOREM BatchIsWhole == BaseSpec => []BatchIsContiguous
  <1>1. BaseIInv => BatchIsContiguous
    BY ThreadsAssumption
    DEF BaseIInv, CallsAreLocked, BatchIsLocked, BatchIsContiguous
  <1> QED
    BY <1>1, BaseInvariance, PTL

----------------------------------------------------------------------------
(* diagnostic_events.                                                       *)

(* Where the thread must be to hold each mutex.                            *)
ThreadMutexes ==
  /\ eventMutex = Nobody \/ (eventMutex = thread /\ loop \in {"locked", "wait"})
  /\ mutex \in {thread, Server, Nobody}
  /\ mutex = thread => loop = "push"
  /\ loop = "push" => pack > 0

(* The Server holds m_mutex only while it processes packets, and is in no  *)
(* call once the destructor has begun.                                     *)
ServerMutexes ==
  /\ mutex = Server => server = "processing"
  /\ life # "alive" => server = "idle"
  /\ life = "destroyed" => loop = "ended"

ThreadIInv == TypeOK /\ BaseIInv /\ ThreadMutexes /\ ServerMutexes

LEMMA ThreadIsServed == thread \in Threads /\ thread # Server /\ thread # Nobody
                        /\ Server # Nobody
  BY EventThreadAssumption, ThreadsAssumption

LEMMA ThreadInitially == Init => ThreadIInv
  <1> SUFFICES ASSUME Init PROVE ThreadIInv
    OBVIOUS
  <1>1. BaseIInv
    BY BaseInitially DEF Init, ThreadInit
  <1>2. ThreadTypeOK
    BY <1>1 DEF Init, ThreadInit, BaseIInv, ThreadTypeOK
  <1>3. TypeOK
    BY <1>2, PackAssumption DEF Init, TypeOK
  <1>4. ThreadMutexes /\ ServerMutexes
    BY ThreadIsServed DEF Init, ThreadInit, BaseInit, ThreadMutexes, ServerMutexes
  <1> QED
    BY <1>1, <1>3, <1>4 DEF ThreadIInv

(* The steps of the base class keep its invariant; those of the thread and *)
(* of the destructor leave its variables alone.                            *)
LEMMA BasePart ==
  ASSUME ThreadIInv, Next
  PROVE  BaseIInv'
  <1> USE DEF ThreadIInv
  <1>1. CASE SettingsReceived
    BY <1>1, ThreadsAssumption
    DEF SettingsReceived, BaseIInv, BaseTypeOK, CallsAreLocked, BatchIsLocked
  <1>2. CASE NotifySettings
    BY <1>2, ThreadsAssumption
    DEF NotifySettings, BaseIInv, BaseTypeOK, CallsAreLocked, BatchIsLocked
  <1>3. CASE BaseCall
    BY <1>3, ServerStep DEF BaseCall, DoPushDataPacket
  <1>4. CASE PushEvent \/ EventPushed
    BY <1>4, PushStep, ThreadIsServed DEF PushEvent, EventPushed
  <1>5. CASE (SleepStep \/ Generate \/ Tick \/ Stop)
    <2>1. UNCHANGED baseVars
      BY <1>5
      DEF SleepStep, CheckTerminated, LockToSleep, BreakIfTerminated, WaitFor, Resume,
          Generate, Tick, TimeOut, Stop, StopEventThread, Join
    <2> QED
      BY <2>1 DEF baseVars, BaseIInv, BaseTypeOK, CallsAreLocked, BatchIsLocked
  <1> QED
    BY <1>1, <1>2, <1>3, <1>4, <1>5 DEF Next, LoopStep

(* Each action keeps the rest.                                             *)
LEMMA ThreadPart ==
  ASSUME ThreadIInv, Next, BaseIInv'
  PROVE  TypeOK' /\ ThreadMutexes' /\ ServerMutexes'
  <1> USE ThreadIsServed, PackAssumption
      DEF ThreadIInv, BaseIInv, TypeOK, ThreadTypeOK, ThreadMutexes, ServerMutexes
  <1>1. CASE SettingsReceived
    BY <1>1 DEF SettingsReceived, threadVars
  <1>2. CASE NotifySettings
    BY <1>2 DEF NotifySettings, NotifyAll
  <1>3. CASE BaseCall
    <2>1. (\E h \in Handlers : SetHandler(h)) => UNCHANGED <<mutex, server>>
      BY DEF SetHandler
    <2> QED
      BY <1>3, <2>1
      DEF BaseCall, threadVars, EnterOverride, AcceptDataPacket, ReturnError,
          PullMetadataPackets, ProcessMetadataPackets, EndProcessing
  <1>4. CASE SleepStep /\ UNCHANGED <<generateEvents, pack, notified>>
    BY <1>4
    DEF SleepStep, CheckTerminated, LockToSleep, BreakIfTerminated, WaitFor, Resume,
        baseVars
  <1>5. CASE Generate
    BY <1>5 DEF Generate, baseVars
  <1>6. CASE PushEvent
    BY <1>6 DEF PushEvent, Lock, CallHandler, threadVars
  <1>7. CASE EventPushed
    BY <1>7 DEF EventPushed, EndPush
  <1>8. CASE Tick
    BY <1>8 DEF Tick, TimeOut, baseVars
  <1>9. CASE Stop
    BY <1>9 DEF Stop, StopEventThread, Join, NotifyAll, baseVars
  <1> QED
    BY <1>1, <1>2, <1>3, <1>4, <1>5, <1>6, <1>7, <1>8, <1>9 DEF Next, LoopStep

(* The inductive invariant of the events thread holds in all states.       *)
THEOREM ThreadInvariance == Spec => []ThreadIInv
  <1>1. ThreadIInv /\ [Next]_vars => ThreadIInv'
    <2> SUFFICES ASSUME ThreadIInv, [Next]_vars PROVE ThreadIInv'
      OBVIOUS
    <2>1. CASE UNCHANGED vars
      BY <2>1
      DEF vars, baseVars, threadVars, ThreadIInv, BaseIInv, BaseTypeOK, CallsAreLocked,
          BatchIsLocked, TypeOK, ThreadTypeOK, ThreadMutexes, ServerMutexes
    <2>2. CASE Next
      BY <2>2, BasePart, ThreadPart DEF ThreadIInv
    <2> QED
      BY <2>1, <2>2
  <1> QED
    BY <1>1, ThreadInitially, PTL DEF Spec

(* The flags, the pack and the mutexes are always what the classes declare.*)
THEOREM ThreadIsTyped == Spec => []TypeOK
  <1>1. ThreadIInv => TypeOK
    BY DEF ThreadIInv
  <1> QED
    BY <1>1, ThreadInvariance, PTL

(* Once the owner is destroyed its thread has left the loop, nobody holds  *)
(* a mutex, and the handler is not being called.                           *)
THEOREM DestructionIsSafe == Spec => []NoUseAfterDestruction
  <1>1. ThreadIInv => NoUseAfterDestruction
    BY ThreadIsServed
    DEF ThreadIInv, BaseIInv, CallsAreLocked, TypeOK, ThreadTypeOK, ThreadMutexes,
        ServerMutexes, NoUseAfterDestruction
  <1> QED
    BY <1>1, ThreadInvariance, PTL

============================================================================
