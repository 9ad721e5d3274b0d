----------------------------- MODULE StubProofs ------------------------------
(***************************************************************************)
(* Theorems about the stub plugins.                                        *)
(* The events: the Server hears of the keys of prolonged events in a       *)
(* consistent order, and nothing is used after the agent is destroyed,     *)
(* whatever the number of handlers and of other threads.  The active       *)
(* settings: whatever sequence of changes and answers leads to a dialog,   *)
(* it is sound and is as if made anew of its values, for any limits of its *)
(* spin boxes.  The dialogs of all plugins: what is read is what is shown, *)
(* for any types and streams.                                              *)
(***************************************************************************)
EXTENDS StubEvents, ActiveSettings, StubSettings,
        InductionLemmas, FiniteSetTheorems, SequenceTheorems, TLAPS

(* The keys that are active before each event of the list.                 *)
ActiveBefore ==
  << {}, {"key1"}, {"key1"}, {"key1", "key2"}, {"key2"}, {"key1", "key2"}, {"key1"},
     {}, {}, {}, {} >>

Following(i) == (i % Len(EventsToFire)) + 1

(* The Server knows of the events before the one that is being pushed, or  *)
(* before the one that comes next.                                         *)
KeysFollowList ==
  /\ loop = "push" => index = Following(event)
  /\ active = ActiveBefore[IF loop = "push" THEN event ELSE index]

(* Where the thread must be to hold a mutex and to call the handler; the   *)
(* Server holds none between its steps.                                    *)
ThreadIsInPlace ==
  /\ mutex \in {thread, Nobody}
  /\ mutex = thread => loop = "push"
  /\ calling[thread] # NoHandler => mutex = thread
  /\ eventMutex = Nobody \/ (eventMutex = thread /\ loop \in {"locked", "wait"})

(* The destructor begins between the calls, and ends after the thread.     *)
OwnerIsLast ==
  /\ serverCall # "none" => server = "plugin"
  /\ life # "alive" => server = "idle"
  /\ life = "destroyed" => loop = "ended"

IInv == TypeOK /\ KeysFollowList /\ ThreadIsInPlace /\ OwnerIsLast

LEMMA ThreadIsServed ==
  thread \in Threads /\ thread # Server /\ thread # Nobody /\ Server # Nobody
  BY EventThreadAssumption, ThreadsAssumption

LEMMA ListLength == Len(EventsToFire) = 11 /\ EventIndices = 1..11
  BY DEF EventsToFire, EventIndices

LEMMA FollowingIsIndex ==
  ASSUME NEW i \in EventIndices
  PROVE  Following(i) \in EventIndices /\ Following(i) = IF i = 11 THEN 1 ELSE i + 1
  BY ListLength DEF Following

(* What an event does to the keys leads from each place of the list to the *)
(* next one, and from its end to its beginning.                            *)
LEMMA EventLeadsOn ==
  ASSUME NEW i \in EventIndices
  PROVE  ActiveBefore[Following(i)] =
           CASE EventsToFire[i].does = "start" -> ActiveBefore[i] \union {EventsToFire[i].key}
             [] EventsToFire[i].does = "finish" -> ActiveBefore[i] \ {EventsToFire[i].key}
             [] OTHER -> ActiveBefore[i]
  <1> USE FollowingIsIndex
  <1>1. CASE i = 1
    <2>1. EventsToFire[i].key = "key1" /\ EventsToFire[i].does = "start"
      BY <1>1 DEF EventsToFire, Started, Duplicate, Finished, Impulse
    <2>2. ActiveBefore[i] = {} /\ ActiveBefore[2] = {"key1"} /\ Following(i) = 2
      BY <1>1 DEF ActiveBefore
    <2> QED  BY <2>1, <2>2
  <1>2. CASE i = 2
    <2>1. EventsToFire[i].key = "key1" /\ EventsToFire[i].does = "repeat"
      BY <1>2 DEF EventsToFire, Started, Duplicate, Finished, Impulse
    <2>2. ActiveBefore[i] = {"key1"} /\ ActiveBefore[3] = {"key1"} /\ Following(i) = 3
      BY <1>2 DEF ActiveBefore
    <2> QED  BY <2>1, <2>2
  <1>3. CASE i = 3
    <2>1. EventsToFire[i].key = "key2" /\ EventsToFire[i].does = "start"
      BY <1>3 DEF EventsToFire, Started, Duplicate, Finished, Impulse
    <2>2. ActiveBefore[i] = {"key1"} /\ ActiveBefore[4] = {"key1", "key2"} /\ Following(i) = 4
      BY <1>3 DEF ActiveBefore
    <2> QED  BY <2>1, <2>2
  <1>4. CASE i = 4
    <2>1. EventsToFire[i].key = "key1" /\ EventsToFire[i].does = "finish"
      BY <1>4 DEF EventsToFire, Started, Duplicate, Finished, Impulse
    <2>2. ActiveBefore[i] = {"key1", "key2"} /\ ActiveBefore[5] = {"key2"} /\ Following(i) = 5
      BY <1>4 DEF ActiveBefore
    <2> QED  BY <2>1, <2>2
  <1>5. CASE i = 5
    <2>1. EventsToFire[i].key = "key1" /\ EventsToFire[i].does = "start"
      BY <1>5 DEF EventsToFire, Started, Duplicate, Finished, Impulse
    <2>2. ActiveBefore[i] = {"key2"} /\ ActiveBefore[6] = {"key1", "key2"} /\ Following(i) = 6
      BY <1>5 DEF ActiveBefore
    <2> QED  BY <2>1, <2>2
  <1>6. CASE i = 6
    <2>1. EventsToFire[i].key = "key2" /\ EventsToFire[i].does = "finish"
      BY <1>6 DEF EventsToFire, Started, Duplicate, Finished, Impulse
    <2>2. ActiveBefore[i] = {"key1", "key2"} /\ ActiveBefore[7] = {"key1"} /\ Following(i) = 7
      BY <1>6 DEF ActiveBefore
    <2> QED  BY <2>1, <2>2
  <1>7. CASE i = 7
    <2>1. EventsToFire[i].key = "key1" /\ EventsToFire[i].does = "finish"
      BY <1>7 DEF EventsToFire, Started, Duplicate, Finished, Impulse
    <2>2. ActiveBefore[i] = {"key1"} /\ ActiveBefore[8] = {} /\ Following(i) = 8
      BY <1>7 DEF ActiveBefore
    <2> QED  BY <2>1, <2>2
  <1>8. CASE i = 8
    <2>1. EventsToFire[i].key = "" /\ EventsToFire[i].does = "impulse"
      BY <1>8 DEF EventsToFire, Started, Duplicate, Finished, Impulse
    <2>2. ActiveBefore[i] = {} /\ ActiveBefore[9] = {} /\ Following(i) = 9
      BY <1>8 DEF ActiveBefore
    <2> QED  BY <2>1, <2>2
  <1>9. CASE i = 9
    <2>1. EventsToFire[i].key = "" /\ EventsToFire[i].does = "impulse"
      BY <1>9 DEF EventsToFire, Started, Duplicate, Finished, Impulse
    <2>2. ActiveBefore[i] = {} /\ ActiveBefore[10] = {} /\ Following(i) = 10
      BY <1>9 DEF ActiveBefore
    <2> QED  BY <2>1, <2>2
  <1>10. CASE i = 10
    <2>1. EventsToFire[i].key = "" /\ EventsToFire[i].does = "impulse"
      BY <1>10 DEF EventsToFire, Started, Duplicate, Finished, Impulse
    <2>2. ActiveBefore[i] = {} /\ ActiveBefore[11] = {} /\ Following(i) = 11
      BY <1>10 DEF ActiveBefore
    <2> QED  BY <2>1, <2>2
  <1>11. CASE i = 11
    <2>1. EventsToFire[i].key = "" /\ EventsToFire[i].does = "impulse"
      BY <1>11 DEF EventsToFire, Started, Duplicate, Finished, Impulse
    <2>2. ActiveBefore[i] = {} /\ ActiveBefore[1] = {} /\ Following(i) = 1
      BY <1>11 DEF ActiveBefore
    <2> QED  BY <2>1, <2>2
  <1> QED
    BY ListLength, <1>1, <1>2, <1>3, <1>4, <1>5, <1>6, <1>7, <1>8, <1>9, <1>10, <1>11

(* At each place of the list a key that starts is not active, and one that *)
(* is repeated or finished is.                                             *)
LEMMA EventFitsKeys ==
  ASSUME NEW i \in EventIndices
  PROVE  CASE EventsToFire[i].does = "start" -> EventsToFire[i].key \notin ActiveBefore[i]
           [] EventsToFire[i].does \in {"repeat", "finish"}
                -> EventsToFire[i].key \in ActiveBefore[i]
           [] OTHER -> TRUE
  <1>1. CASE i = 1
    BY <1>1 DEF ActiveBefore, EventsToFire, Started, Duplicate,
                   Finished, Impulse
  <1>2. CASE i = 2
    BY <1>2 DEF ActiveBefore, EventsToFire, Started, Duplicate,
                   Finished, Impulse
  <1>3. CASE i = 3
    BY <1>3 DEF ActiveBefore, EventsToFire, Started, Duplicate,
                   Finished, Impulse
  <1>4. CASE i = 4
    BY <1>4 DEF ActiveBefore, EventsToFire, Started, Duplicate,
                   Finished, Impulse
  <1>5. CASE i = 5
    BY <1>5 DEF ActiveBefore, EventsToFire, Started, Duplicate,
                   Finished, Impulse
  <1>6. CASE i = 6
    BY <1>6 DEF ActiveBefore, EventsToFire, Started, Duplicate,
                   Finished, Impulse
  <1>7. CASE i = 7
    BY <1>7 DEF ActiveBefore, EventsToFire, Started, Duplicate,
                   Finished, Impulse
  <1>8. CASE i = 8
    BY <1>8 DEF ActiveBefore, EventsToFire, Started, Duplicate,
                   Finished, Impulse
  <1>9. CASE i = 9
    BY <1>9 DEF ActiveBefore, EventsToFire, Started, Duplicate,
                   Finished, Impulse
  <1>10. CASE i = 10
    BY <1>10 DEF ActiveBefore, EventsToFire, Started, Duplicate,
                   Finished, Impulse
  <1>11. CASE i = 11
    BY <1>11 DEF ActiveBefore, EventsToFire, Started, Duplicate,
                   Finished, Impulse
  <1> QED
    BY ListLength, <1>1, <1>2, <1>3, <1>4, <1>5, <1>6, <1>7, <1>8, <1>9, <1>10, <1>11

LEMMA Initially == Init => IInv
  <1> SUFFICES ASSUME Init PROVE IInv
    OBVIOUS
  <1>1. TypeOK
    <2>1. ThreadTypeOK
      <3>1. BaseTypeOK
        <4>1. calling \in [Threads \union {Server} -> Handlers \union {NoHandler}]
          BY DEF Init, ThreadInit, BaseInit
        <4>2. packets \in 0..MaxPackets
          BY ThreadsAssumption DEF Init, ThreadInit, BaseInit
        <4> QED
          BY <4>1, <4>2 DEF Init, ThreadInit, BaseInit, BaseTypeOK
      <3> QED
        BY <3>1 DEF Init, ThreadInit, ThreadTypeOK
    <2>2. index \in EventIndices /\ event \in EventIndices
      BY ListLength DEF Init
    <2> QED
      BY <2>1, <2>2 DEF Init, TypeOK
  <1>2. KeysFollowList
    BY DEF Init, ThreadInit, KeysFollowList, ActiveBefore
  <1>3. ThreadIsInPlace /\ OwnerIsLast
    BY ThreadIsServed
    DEF Init, ThreadInit, BaseInit, ThreadIsInPlace, OwnerIsLast
  <1> QED
    BY <1>1, <1>2, <1>3 DEF IInv

(* The thread sleeps, wakes up or is stopped: what is pushed, and to whom, *)
(* stays as it is.                                                         *)
LEMMA SleepKeeps ==
  ASSUME IInv, SleepStep \/ TimeOut \/ StopEventThread \/ Join,
         UNCHANGED <<eventVars, callVars, active>>
  PROVE  IInv'
  <1>1. UNCHANGED <<baseVars, eventVars, callVars, active>>
    BY DEF SleepStep, CheckTerminated, LockToSleep, BreakIfTerminated, WaitFor, Resume,
           TimeOut, StopEventThread, Join
  <1>2. loop' = "push" <=> loop = "push"
    BY DEF SleepStep, CheckTerminated, LockToSleep, BreakIfTerminated, WaitFor, Resume,
           TimeOut, StopEventThread, Join, NotifyAll
  <1>3. TypeOK'
    <2>1. terminated' \in BOOLEAN
      BY Zenon
      DEF SleepStep, CheckTerminated, LockToSleep, BreakIfTerminated, WaitFor, Resume,
          TimeOut, StopEventThread, Join, IInv, TypeOK, ThreadTypeOK
    <2>2. /\ loop' \in {"check", "generate", "push", "sleep", "locked", "wait",
                        "waiting", "woken", "ended"}
          /\ eventMutex' \in {thread, Server, Nobody}
          /\ life' \in {"alive", "joined", "destroyed"}
      BY DEF SleepStep, CheckTerminated, LockToSleep, BreakIfTerminated, WaitFor, Resume,
             TimeOut, StopEventThread, Join, NotifyAll, IInv, TypeOK, ThreadTypeOK
    <2> QED
      BY <1>1, <2>1, <2>2
      DEF IInv, TypeOK, ThreadTypeOK, BaseTypeOK, baseVars, eventVars, callVars
  <1>4. KeysFollowList'
    BY <1>1, <1>2 DEF IInv, KeysFollowList, eventVars
  <1>5. ThreadIsInPlace' /\ OwnerIsLast'
    BY <1>1, <1>2, ThreadIsServed
    DEF IInv, ThreadIsInPlace, OwnerIsLast, SleepStep, CheckTerminated, LockToSleep,
        BreakIfTerminated, WaitFor, Resume, TimeOut, StopEventThread, Join, NotifyAll,
        baseVars, callVars
  <1> QED
    BY <1>3, <1>4, <1>5 DEF IInv

(* The Server's calls touch neither the events nor what the thread holds.  *)
LEMMA CallKeeps ==
  ASSUME IInv,
         \/ SetTheHandler \/ SettingsReceived \/ DoSetNeededMetadataTypes
         \/ ServerCall
  PROVE  IInv'
  <1>1. UNCHANGED <<index, event, active, mutex, eventMutex, life, terminated>>
    BY DEF SetTheHandler, SetHandler, SettingsReceived, DoSetNeededMetadataTypes, Call,
           ServerCall, PushManifest, ManifestPushed, StopFetchingMetadata,
           StartFetchingMetadata, baseVars, threadVars, eventVars
  <1>2. /\ loop' \in {loop, "woken"}
        /\ loop' # loop => loop = "waiting"
        /\ calling'[thread] = calling[thread]
    BY ThreadIsServed
    DEF SetTheHandler, SetHandler, SettingsReceived, DoSetNeededMetadataTypes, Call,
        ServerCall, PushManifest, ManifestPushed, StopFetchingMetadata,
        StartFetchingMetadata, baseVars, threadVars, NotifyAll, IInv, TypeOK,
        ThreadTypeOK, BaseTypeOK
  <1>3. BaseTypeOK'
    BY ThreadsAssumption
    DEF SetTheHandler, SetHandler, SettingsReceived, DoSetNeededMetadataTypes, Call,
        ServerCall, PushManifest, ManifestPushed, StopFetchingMetadata,
        StartFetchingMetadata, Return, baseVars, IInv, TypeOK, ThreadTypeOK, BaseTypeOK
  <1>4. generateEvents' \in BOOLEAN /\ needed' \in BOOLEAN /\ listed' \in BOOLEAN
    BY Zenon
    DEF SetTheHandler, SettingsReceived, DoSetNeededMetadataTypes, ServerCall,
        PushManifest, ManifestPushed, StopFetchingMetadata, StartFetchingMetadata,
        eventVars, callVars, IInv, TypeOK
  <1>5. serverCall' \in {"none", "manifest", "stop", "start"}
    BY DEF SetTheHandler, SettingsReceived, DoSetNeededMetadataTypes, Call, ServerCall,
           PushManifest, ManifestPushed, StopFetchingMetadata, StartFetchingMetadata,
           Return, callVars, IInv, TypeOK
  <1>6. TypeOK'
    BY <1>1, <1>2, <1>3, <1>4, <1>5 DEF IInv, TypeOK, ThreadTypeOK
  <1>7. KeysFollowList' /\ ThreadIsInPlace'
    BY <1>1, <1>2 DEF IInv, KeysFollowList, ThreadIsInPlace
  <1>8. OwnerIsLast'
    BY <1>1, <1>2
    DEF SetTheHandler, SetHandler, SettingsReceived, DoSetNeededMetadataTypes, Call,
        ServerCall, PushManifest, ManifestPushed, StopFetchingMetadata,
        StartFetchingMetadata, Return, baseVars, callVars, IInv, OwnerIsLast
  <1> QED
    BY <1>6, <1>7, <1>8 DEF IInv

(* cookSomeEvents() takes the event that comes next, or there is none.     *)
LEMMA GenerateKeeps ==
  ASSUME IInv, CookSomeEvents \/ NothingToGenerate
  PROVE  IInv'
  <1>1. TypeOK' /\ ThreadIsInPlace' /\ OwnerIsLast'
    <2>1. index' \in EventIndices /\ event' \in EventIndices
      BY FollowingIsIndex
      DEF CookSomeEvents, NothingToGenerate, eventVars, IInv, TypeOK, Following
    <2> QED
      BY <2>1
      DEF CookSomeEvents, NothingToGenerate, eventVars, callVars, baseVars, IInv, TypeOK,
          ThreadTypeOK, BaseTypeOK, ThreadIsInPlace, OwnerIsLast
  <1>2. KeysFollowList'
    BY DEF CookSomeEvents, NothingToGenerate, eventVars, IInv, KeysFollowList, Following
  <1> QED
    BY <1>1, <1>2 DEF IInv

LEMMA PushKeeps ==
  ASSUME IInv, PushEvent
  PROVE  IInv'
  <1>1. TypeOK'
    BY ThreadIsServed
    DEF PushEvent, Lock, CallHandler, threadVars, eventVars, callVars, IInv, TypeOK,
        ThreadTypeOK, BaseTypeOK
  <1>2. KeysFollowList' /\ ThreadIsInPlace' /\ OwnerIsLast'
    BY ThreadIsServed
    DEF PushEvent, Lock, CallHandler, threadVars, eventVars, callVars, IInv,
        KeysFollowList, ThreadIsInPlace, OwnerIsLast
  <1> QED
    BY <1>1, <1>2 DEF IInv

(* The Server has handled the event, and the list goes on from there.      *)
LEMMA PushedKeeps ==
  ASSUME IInv, EventPushed
  PROVE  IInv'
  <1> USE ThreadIsServed
  <1>1. index = Following(event) /\ active = ActiveBefore[event] /\ event \in EventIndices
    BY DEF EventPushed, IInv, KeysFollowList, TypeOK
  <1>2. active' = ActiveBefore[index]
    BY <1>1, EventLeadsOn DEF EventPushed
  <1>3. KeysFollowList'
    BY <1>2 DEF EventPushed, eventVars, KeysFollowList
  <1>4. active' \subseteq {"key1", "key2"}
    <2>1. ActiveBefore[index] \subseteq {"key1", "key2"}
      BY ListLength DEF IInv, TypeOK, ActiveBefore
    <2> QED
      BY <1>2, <2>1
  <1>5. TypeOK'
    BY <1>4
    DEF EventPushed, EndPush, eventVars, callVars, IInv, TypeOK, ThreadTypeOK, BaseTypeOK
  <1>6. ThreadIsInPlace' /\ OwnerIsLast'
    BY DEF EventPushed, EndPush, callVars, IInv, TypeOK, ThreadTypeOK, BaseTypeOK,
           ThreadIsInPlace, OwnerIsLast
  <1> QED
    BY <1>3, <1>5, <1>6 DEF IInv

(* The inductive invariant of the stub events holds in all states.         *)
THEOREM EventsInvariance == Spec => []IInv
  <1>1. IInv /\ [Next]_vars => IInv'
    <2> SUFFICES ASSUME IInv, [Next]_vars PROVE IInv'
      OBVIOUS
    <2>1. CASE UNCHANGED vars
      BY <2>1
      DEF vars, baseVars, threadVars, eventVars, callVars, IInv, TypeOK, ThreadTypeOK,
          BaseTypeOK, KeysFollowList, ThreadIsInPlace, OwnerIsLast
    <2>2. CASE SetTheHandler \/ SettingsReceived \/ DoSetNeededMetadataTypes \/ ServerCall
      BY <2>2, CallKeeps
    <2>3. CASE LoopStep
      BY <2>3, SleepKeeps, GenerateKeeps, PushKeeps, PushedKeeps DEF LoopStep
    <2>4. CASE Tick \/ Stop
      BY <2>4, SleepKeeps DEF Tick, Stop
    <2> QED
      BY <2>1, <2>2, <2>3, <2>4 DEF Next
  <1> QED
    BY <1>1, Initially, PTL DEF Spec

(* The flags, the place in the list and the keys are always what they are  *)
(* declared to be: the index never passes the end of kEventsToFire.        *)
THEOREM EventsAreTyped == Spec => []TypeOK
  <1>1. IInv => TypeOK
    BY DEF IInv
  <1> QED
    BY <1>1, EventsInvariance, PTL

(* The Server hears of the keys in a consistent order, however often the   *)
(* generation is stopped and started in the middle of the list.            *)
THEOREM KeysAreInOrder == Spec => []KeysAreConsistent
  <1>1. IInv => KeysAreConsistent
    <2> SUFFICES ASSUME IInv, calling[thread] # NoHandler PROVE KeysAreConsistent
      BY DEF KeysAreConsistent
    <2>1. active = ActiveBefore[event] /\ event \in EventIndices
      BY ThreadIsServed DEF IInv, KeysFollowList, ThreadIsInPlace, TypeOK
    <2> QED
      BY <2>1, EventFitsKeys DEF KeysAreConsistent
  <1> QED
    BY <1>1, EventsInvariance, PTL

(* Once the agent is destroyed its thread has left the loop, nobody holds  *)
(* a mutex, and the handler is not being called.                           *)
THEOREM EventsDestructionIsSafe == Spec => []NoUseAfterDestruction
  <1>1. IInv => NoUseAfterDestruction
    BY ThreadIsServed DEF IInv, ThreadIsInPlace, OwnerIsLast, NoUseAfterDestruction
  <1> QED
    BY <1>1, EventsInvariance, PTL

----------------------------------------------------------------------------
(* ActiveSettings: the items of a section.                                 *)

(* A place is found, inserted at and removed from, as the code does it.    *)
LEMMA FoundAt ==
  ASSUME NEW s, NEW k \in 1..Len(s), Len(s) \in Nat, NEW name, s[k] = name,
         \A j \in 1..Len(s) : j < k => s[j] # name
  PROVE  PlaceOf(s, name) = k
  <1> DEFINE found == {i \in 1..Len(s) : s[i] = name}
  <1>1. PlaceOf(s, name) = IF found # {} THEN Min(found) ELSE 0
    BY DEF PlaceOf, SelectInSeq
  <1>2. k \in found /\ \A i \in found : k <= i
    OBVIOUS
  <1>3. found \subseteq Nat
    OBVIOUS
  <1> HIDE DEF found
  <1>4. Min(found) \in found /\ \A i \in found : Min(found) <= i
    BY <1>2 DEF Min
  <1>5. Min(found) = k
    <2>1. Min(found) \in Nat /\ Min(found) <= k /\ k <= Min(found) /\ k \in Nat
      BY <1>2, <1>3, <1>4
    <2> QED
      BY <2>1
  <1> QED
    BY <1>1, <1>2, <1>5

(* InsertAt(), which puts an item at a place and moves the others.         *)
LEMMA InsertedAt ==
  ASSUME NEW S, NEW s \in Seq(S), NEW k \in 1..Len(s) + 1, NEW e \in S
  PROVE  InsertAt(s, k, e) = [j \in 1..Len(s) + 1 |->
                                IF j < k THEN s[j] ELSE IF j = k THEN e ELSE s[j - 1]]
  <1> DEFINE a == SubSeq(s, 1, k - 1)
             b == <<e>>
             c == SubSeq(s, k, Len(s))
             n == Len(s)
  <1>1. n \in Nat /\ \A j \in 1..n : s[j] \in S
    BY LenProperties, ElementOfSeq
  <1>2. a \in Seq(S) /\ Len(a) = k - 1 /\ \A j \in 1..k - 1 : a[j] = s[j]
    <2>1. \A i \in 1..k - 1 : s[i] \in S
      BY <1>1
    <2> QED
      BY <1>1, <2>1, SubSeqProperties
  <1>3. b \in Seq(S) /\ Len(b) = 1 /\ b[1] = e
    OBVIOUS
  <1>4. c \in Seq(S) /\ Len(c) = n - k + 1 /\ \A j \in 1..n - k + 1 : c[j] = s[k + j - 1]
    <2>1. \A i \in k..n : s[i] \in S
      BY <1>1
    <2> QED
      BY <1>1, <2>1, SubSeqProperties
  <1> HIDE DEF a, b, c
  <1> DEFINE d == a \o b
             z == d \o c
  <1>5. d \in Seq(S) /\ IsJoined(d, a, b)
    BY <1>2, <1>3, ConcatJoins
  <1> HIDE DEF d
  <1>6. Len(d) = k /\ \A j \in 1..k : d[j] = IF j < k THEN s[j] ELSE e
    <2>1. Len(d) = k /\ (\A j \in 1..k - 1 : d[j] = a[j]) /\ d[k - 1 + 1] = b[1]
      BY <1>1, <1>2, <1>3, <1>5 DEF IsJoined
    <2>2. k - 1 + 1 = k /\ \A j \in 1..k : j < k => j \in 1..k - 1
      BY <1>1
    <2> QED
      BY <1>1, <1>2, <1>3, <2>1, <2>2
  <1>7. z \in Seq(S) /\ IsJoined(z, d, c)
    BY <1>4, <1>5, ConcatJoins
  <1> HIDE DEF z
  <1>11. /\ Len(z) = n + 1 /\ \A j \in 1..k : z[j] = d[j]
         /\ \A j \in 1..n - k + 1 : z[k + j] = c[j]
    BY <1>1, <1>4, <1>6, <1>7 DEF IsJoined
  <1>8. \A j \in 1..n + 1 :
          z[j] = IF j < k THEN s[j] ELSE IF j = k THEN e ELSE s[j - 1]
    <2> TAKE j \in 1..n + 1
    <2>1. CASE j <= k
      BY <1>1, <1>6, <1>11, <2>1
    <2>2. CASE ~(j <= k)
      <3>1. j - k \in 1..n - k + 1 /\ k + (j - k) - 1 = j - 1 /\ k + (j - k) = j
        BY <1>1, <2>2
      <3>2. z[j] = c[j - k] /\ c[j - k] = s[j - 1]
        BY <1>4, <1>11, <3>1
      <3> QED
        BY <2>2, <3>2
    <2> QED
      BY <2>1, <2>2
  <1>9. InsertAt(s, k, e) = z
    BY Zenon DEF InsertAt, a, b, c, d, z
  <1>10. z = [j \in 1..n + 1 |-> z[j]]
    BY <1>1, <1>7, <1>11
  <1> QED
    BY <1>8, <1>9, <1>10

(* RemoveAt(), which takes an item away and moves the others back.         *)
LEMMA RemovedAt ==
  ASSUME NEW S, NEW s \in Seq(S), NEW k \in 1..Len(s)
  PROVE  RemoveAt(s, k) = [j \in 1..Len(s) - 1 |-> IF j < k THEN s[j] ELSE s[j + 1]]
  <1> DEFINE a == SubSeq(s, 1, k - 1)
             c == SubSeq(s, k + 1, Len(s))
             n == Len(s)
  <1>1. n \in Nat /\ \A j \in 1..n : s[j] \in S
    BY LenProperties, ElementOfSeq
  <1>2. a \in Seq(S) /\ Len(a) = k - 1 /\ \A j \in 1..k - 1 : a[j] = s[j]
    <2>1. \A i \in 1..k - 1 : s[i] \in S
      BY <1>1
    <2> QED
      BY <1>1, <2>1, SubSeqProperties
  <1>3. c \in Seq(S) /\ Len(c) = n - k /\ \A j \in 1..n - k : c[j] = s[k + j]
    <2>1. \A i \in k + 1..n : s[i] \in S
      BY <1>1
    <2> QED
      BY <1>1, <2>1, SubSeqProperties
  <1> HIDE DEF a, c
  <1> DEFINE z == a \o c
  <1>8. z \in Seq(S) /\ IsJoined(z, a, c)
    BY <1>2, <1>3, ConcatJoins
  <1> HIDE DEF z
  <1>4. /\ Len(z) = n - 1 /\ \A j \in 1..k - 1 : z[j] = a[j]
        /\ \A j \in 1..n - k : z[k - 1 + j] = c[j]
    BY <1>1, <1>2, <1>3, <1>8 DEF IsJoined
  <1>5. \A j \in 1..n - 1 : z[j] = IF j < k THEN s[j] ELSE s[j + 1]
    <2> TAKE j \in 1..n - 1
    <2>1. CASE j <= k - 1
      BY <1>1, <1>2, <1>4, <2>1
    <2>2. CASE ~(j <= k - 1)
      <3>1. j - (k - 1) \in 1..n - k /\ k + (j - (k - 1)) = j + 1
            /\ k - 1 + (j - (k - 1)) = j
        BY <1>1, <2>2
      <3>2. z[j] = c[j - (k - 1)] /\ c[j - (k - 1)] = s[j + 1]
        BY <1>3, <1>4, <3>1
      <3> QED
        BY <2>2, <3>2
    <2> QED
      BY <2>1, <2>2
  <1>6. RemoveAt(s, k) = z
    BY Zenon DEF RemoveAt, a, c, z
  <1>7. z = [j \in 1..n - 1 |-> z[j]]
    BY <1>1, <1>4, <1>8
  <1> QED
    BY <1>5, <1>6, <1>7

----------------------------------------------------------------------------
(* The items of the section: those of the manifest, and the two that are   *)
(* shown by rules; a and b are their numbers, 0 or 1.                      *)
ItemsOf(a, b) ==
  [j \in 1..Len(FreshItems) + a + b |->
     IF j = 1 THEN "activeComboBox" ELSE IF j = 1 + a THEN "additionalComboBox"
     ELSE IF j = 2 + a THEN "activeCheckBox" ELSE IF j = 2 + a + b THEN "additionalCheckBox"
     ELSE FreshItems[j - a - b]]

AllNames ==
  {"activeComboBox", "activeCheckBox", "activeRadioButtonGroup", "activeMinValue",
   "activeMaxValue", "activeCheckBoxForValueSetChange", "comboBoxForValueSetChange",
   "additionalComboBox", "additionalCheckBox", Flow}

ManifestNames ==
  {"activeComboBox", "activeCheckBox", "activeRadioButtonGroup", "activeMinValue",
   "activeMaxValue"}
  \union IF holder = "deviceAgent"
           THEN {"activeCheckBoxForValueSetChange", "comboBoxForValueSetChange"} ELSE {}

NamesOf(a, b) ==
  ManifestNames \union (IF a = 1 THEN {"additionalComboBox"} ELSE {})
                \union (IF b = 1 THEN {"additionalCheckBox"} ELSE {})

(* The items of the manifest, one by one.                                  *)
LEMMA FreshIs ==
  /\ FreshItems \in Seq(AllNames)
  /\ Len(FreshItems) = IF holder = "deviceAgent" THEN 9 ELSE 7
  /\ FreshItems[1] = "activeComboBox" /\ FreshItems[2] = "activeCheckBox"
  /\ FreshItems[3] = "activeRadioButtonGroup" /\ FreshItems[4] = "activeMinValue"
  /\ FreshItems[5] = "activeMaxValue" /\ FreshItems[6] = Flow /\ FreshItems[7] = Flow
  /\ holder = "deviceAgent" =>
       /\ FreshItems[8] = "activeCheckBoxForValueSetChange"
       /\ FreshItems[9] = "comboBoxForValueSetChange"
  <1> DEFINE s == <<"activeComboBox", "activeCheckBox", "activeRadioButtonGroup",
                    "activeMinValue", "activeMaxValue", Flow, Flow>>
             t == IF holder = "deviceAgent"
                  THEN <<"activeCheckBoxForValueSetChange", "comboBoxForValueSetChange">>
                  ELSE <<>>
  <1>8. s \in Seq(AllNames)
    BY DEF AllNames
  <1>1. /\ Len(s) = 7
        /\ s[1] = "activeComboBox" /\ s[2] = "activeCheckBox"
        /\ s[3] = "activeRadioButtonGroup" /\ s[4] = "activeMinValue"
        /\ s[5] = "activeMaxValue" /\ s[6] = Flow /\ s[7] = Flow
    BY DEF Flow
  <1>9. t \in Seq(AllNames)
    <2>1. CASE holder = "deviceAgent"
      BY <2>1 DEF AllNames
    <2>2. CASE holder # "deviceAgent"
      BY <2>2
    <2> QED
      BY <2>1, <2>2
  <1>2. /\ Len(t) = IF holder = "deviceAgent" THEN 2 ELSE 0
        /\ holder = "deviceAgent" =>
             t[1] = "activeCheckBoxForValueSetChange" /\ t[2] = "comboBoxForValueSetChange"
    OBVIOUS
  <1> DEFINE z == s \o t
  <1>3. FreshItems = z
    BY Zenon DEF FreshItems, s, t, z
  <1> HIDE DEF s, t
  <1>4. z \in Seq(AllNames) /\ IsJoined(z, s, t)
    BY <1>8, <1>9, ConcatJoins
  <1> HIDE DEF z
  <1>5. Len(z) = IF holder = "deviceAgent" THEN 9 ELSE 7
    BY <1>1, <1>2, <1>4 DEF IsJoined
  <1>6. \A i \in 1..7 : z[i] = s[i]
    BY <1>1, <1>4 DEF IsJoined
  <1>7. holder = "deviceAgent" => z[8] = t[1] /\ z[9] = t[2]
    <2> SUFFICES ASSUME holder = "deviceAgent" PROVE z[8] = t[1] /\ z[9] = t[2]
      OBVIOUS
    <2>1. \A i \in 1..2 : z[7 + i] = t[i]
      BY <1>1, <1>2, <1>4 DEF IsJoined
    <2>2. 1 \in 1..2 /\ 2 \in 1..2 /\ 7 + 1 = 8 /\ 7 + 2 = 9
      OBVIOUS
    <2> QED
      BY <2>1, <2>2
  <1> QED
    BY <1>1, <1>2, <1>3, <1>4, <1>5, <1>6, <1>7

(* What the rest of the manifest has, whoever the holder is.               *)
LEMMA RestIs ==
  /\ Len(FreshItems) \in {7, 9}
  /\ \A j \in 3..Len(FreshItems) :
       /\ FreshItems[j] \in AllNames
       /\ FreshItems[j] \notin {"activeComboBox", "additionalComboBox", "activeCheckBox",
                                "additionalCheckBox"}
       /\ \A i \in 3..Len(FreshItems) :
            FreshItems[i] = FreshItems[j] => i = j \/ FreshItems[i] = Flow
  <1> DEFINE F == FreshItems
  <1>1. CASE holder = "deviceAgent"
    <2>1. Len(F) = 9
      BY <1>1, FreshIs
    <2>2. /\ F[3] = "activeRadioButtonGroup" /\ F[4] = "activeMinValue"
          /\ F[5] = "activeMaxValue" /\ F[6] = "" /\ F[7] = ""
          /\ F[8] = "activeCheckBoxForValueSetChange" /\ F[9] = "comboBoxForValueSetChange"
      BY <1>1, FreshIs DEF Flow
    <2> HIDE DEF F
    <2>3. \A j \in 3..9 : j = 3 \/ j = 4 \/ j = 5 \/ j = 6 \/ j = 7 \/ j = 8 \/ j = 9
      OBVIOUS
    <2>4. \A j \in 3..9 :
            /\ F[j] \in AllNames
            /\ F[j] \notin {"activeComboBox", "additionalComboBox", "activeCheckBox",
                            "additionalCheckBox"}
      BY <2>2, <2>3 DEF AllNames, Flow
    <2>5. \A j \in 3..9, i \in 3..9 : F[i] = F[j] => i = j \/ F[i] = Flow
      BY <2>2, <2>3 DEF Flow
    <2> QED
      BY <2>1, <2>4, <2>5 DEF F
  <1>2. CASE holder # "deviceAgent"
    <2>1. Len(F) = 7
      BY <1>2, FreshIs
    <2>2. /\ F[3] = "activeRadioButtonGroup" /\ F[4] = "activeMinValue"
          /\ F[5] = "activeMaxValue" /\ F[6] = "" /\ F[7] = ""
      BY FreshIs DEF Flow
    <2> HIDE DEF F
    <2>3. \A j \in 3..7 : j = 3 \/ j = 4 \/ j = 5 \/ j = 6 \/ j = 7
      OBVIOUS
    <2>4. \A j \in 3..7 :
            /\ F[j] \in AllNames
            /\ F[j] \notin {"activeComboBox", "additionalComboBox", "activeCheckBox",
                            "additionalCheckBox"}
      BY <2>2, <2>3 DEF AllNames, Flow
    <2>5. \A j \in 3..7, i \in 3..7 : F[i] = F[j] => i = j \/ F[i] = Flow
      BY <2>2, <2>3 DEF Flow
    <2> QED
      BY <2>1, <2>4, <2>5 DEF F
  <1> QED
    BY <1>1, <1>2

(* ItemsOf() is a sequence of names.                                       *)
LEMMA ItemsAre ==
  ASSUME NEW a \in {0, 1}, NEW b \in {0, 1}
  PROVE  /\ ItemsOf(a, b) \in Seq(AllNames)
         /\ Len(ItemsOf(a, b)) = Len(FreshItems) + a + b
         /\ DOMAIN ItemsOf(a, b) = 1..Len(FreshItems) + a + b
  <1> DEFINE n == Len(FreshItems) + a + b
  <1>1. n \in Nat
    BY RestIs
  <1>2. \A j \in 1..n : ItemsOf(a, b)[j] \in AllNames
    <2> TAKE j \in 1..n
    <2>1. CASE j \in {1, 1 + a, 2 + a, 2 + a + b}
      BY <2>1, RestIs DEF ItemsOf, AllNames
    <2>2. CASE j \notin {1, 1 + a, 2 + a, 2 + a + b}
      <3>1. j - a - b \in 3..Len(FreshItems)
        BY <2>2, RestIs
      <3> QED
        BY <2>2, <3>1, RestIs DEF ItemsOf
    <2> QED
      BY <2>1, <2>2
  <1>3. ItemsOf(a, b) \in [1..n -> AllNames]
    BY <1>2 DEF ItemsOf
  <1> HIDE DEF n
  <1>4. ItemsOf(a, b) \in Seq(AllNames) /\ Len(ItemsOf(a, b)) = n
    BY <1>1, <1>3, IsASeq, LenProperties
  <1> QED
    BY <1>3, <1>4 DEF n

(* Where each item is.                                                     *)
ItemIsAt(items, a, b, j) ==
  /\ items[j] = "activeComboBox" <=> j = 1
  /\ items[j] = "additionalComboBox" <=> a = 1 /\ j = 2
  /\ items[j] = "activeCheckBox" <=> j = 2 + a
  /\ items[j] = "additionalCheckBox" <=> b = 1 /\ j = 3 + a
  /\ j > 2 + a + b => j - a - b \in 3..Len(FreshItems) /\ items[j] = FreshItems[j - a - b]

(* ItemsOf() has each item where ItemIsAt() says.                          *)
LEMMA PlacesAre ==
  ASSUME NEW a \in {0, 1}, NEW b \in {0, 1}, NEW j \in 1..Len(FreshItems) + a + b
  PROVE  ItemIsAt(ItemsOf(a, b), a, b, j)
  <1>1. CASE j > 2 + a + b
    <2> DEFINE r == j - a - b
    <2>1. r \in 3..Len(FreshItems)
      BY <1>1, RestIs
    <2>2. ItemsOf(a, b)[j] = FreshItems[r]
      BY <1>1 DEF ItemsOf
    <2> HIDE DEF r
    <2>3. /\ FreshItems[r] # "activeComboBox" /\ FreshItems[r] # "additionalComboBox"
          /\ FreshItems[r] # "activeCheckBox" /\ FreshItems[r] # "additionalCheckBox"
      BY <2>1, RestIs
    <2>4. j # 1 /\ ~(a = 1 /\ j = 2) /\ j # 2 + a /\ ~(b = 1 /\ j = 3 + a)
      BY <1>1, RestIs
    <2> QED
      BY <2>1, <2>2, <2>3, <2>4 DEF ItemIsAt, r
  <1>2. CASE ~(j > 2 + a + b)
    <2>1. ItemsOf(a, b)[j] = IF j = 1 THEN "activeComboBox"
                             ELSE IF j = 1 + a THEN "additionalComboBox"
                             ELSE IF j = 2 + a THEN "activeCheckBox" ELSE "additionalCheckBox"
      BY <1>2, RestIs DEF ItemsOf
    <2>2. j \in 1..4
      BY <1>2, RestIs
    <2> QED
      BY <1>2, <2>1, <2>2 DEF ItemIsAt
  <1> QED
    BY <1>1, <1>2

(* No name is there twice.                                                 *)
LEMMA NoneTwice ==
  ASSUME NEW a \in {0, 1}, NEW b \in {0, 1},
         NEW i \in 1..Len(FreshItems) + a + b, NEW j \in 1..Len(FreshItems) + a + b,
         ItemsOf(a, b)[i] = ItemsOf(a, b)[j]
  PROVE  i = j \/ ItemsOf(a, b)[i] = Flow
  <1> DEFINE I == ItemsOf(a, b)
  <1>1. ItemIsAt(I, a, b, i) /\ ItemIsAt(I, a, b, j)
    BY PlacesAre
  <1>2. I[i] = I[j]
    OBVIOUS
  <1> HIDE DEF I
  <1>3. CASE i > 2 + a + b /\ j > 2 + a + b
    <2> DEFINE p == i - a - b
               q == j - a - b
    <2>1. /\ p \in 3..Len(FreshItems) /\ I[i] = FreshItems[p]
          /\ q \in 3..Len(FreshItems) /\ I[j] = FreshItems[q]
      BY <1>1, <1>3 DEF ItemIsAt
    <2>2. p = q => i = j
      BY RestIs
    <2> HIDE DEF p, q
    <2> QED
      BY <1>2, <2>1, <2>2, RestIs DEF I
  <1>4. CASE ~(i > 2 + a + b) \/ ~(j > 2 + a + b)
    <2>1. \A k \in 1..Len(FreshItems) + a + b :
            ~(k > 2 + a + b) => k = 1 \/ (a = 1 /\ k = 2) \/ k = 2 + a \/ (b = 1 /\ k = 3 + a)
      BY RestIs
    <2>2. i = j
      BY <1>1, <1>2, <1>4, <2>1 DEF ItemIsAt
    <2> QED
      BY <2>2
  <1> QED
    BY <1>3, <1>4

(* The rules show and hide an item at its place.                           *)
LEMMA PlaceIsFound ==
  ASSUME NEW a \in {0, 1}, NEW b \in {0, 1}
  PROVE  /\ PlaceOf(ItemsOf(a, b), "activeComboBox") = 1
         /\ PlaceOf(ItemsOf(a, b), "activeCheckBox") = 2 + a
         /\ a = 1 => PlaceOf(ItemsOf(a, b), "additionalComboBox") = 2
         /\ b = 1 => PlaceOf(ItemsOf(a, b), "additionalCheckBox") = 3 + a
  <1> DEFINE I == ItemsOf(a, b)
             n == Len(FreshItems) + a + b
  <1>1. n \in Nat /\ n >= 4 + a + b
    BY RestIs
  <1>2. \A j \in 1..n : ItemIsAt(I, a, b, j)
    BY PlacesAre
  <1>3. Len(I) = n
    BY ItemsAre
  <1> HIDE DEF I, n
  <1>4. PlaceOf(I, "activeComboBox") = 1
    <2>1. I[1] = "activeComboBox" /\ 1 \in 1..n /\ \A j \in 1..n : ~(j < 1)
      BY <1>1, <1>2 DEF ItemIsAt
    <2> QED
      BY <1>1, <1>3, <2>1, FoundAt
  <1>5. PlaceOf(I, "activeCheckBox") = 2 + a
    <2> DEFINE k == 2 + a
    <2>1. k \in 1..n /\ I[k] = "activeCheckBox" /\ \A j \in 1..n : j < k => I[j] # "activeCheckBox"
      BY <1>1, <1>2 DEF ItemIsAt
    <2> HIDE DEF k
    <2>2. PlaceOf(I, "activeCheckBox") = k
      BY <1>1, <1>3, <2>1, FoundAt
    <2> QED
      BY <2>2 DEF k
  <1>6. ASSUME a = 1 PROVE PlaceOf(I, "additionalComboBox") = 2
    <2>1. /\ 2 \in 1..n /\ I[2] = "additionalComboBox"
          /\ \A j \in 1..n : j < 2 => I[j] # "additionalComboBox"
      BY <1>1, <1>2, <1>6 DEF ItemIsAt
    <2> QED
      BY <1>1, <1>3, <2>1, FoundAt
  <1>7. ASSUME b = 1 PROVE PlaceOf(I, "additionalCheckBox") = 3 + a
    <2> DEFINE k == 3 + a
    <2>1. /\ k \in 1..n /\ I[k] = "additionalCheckBox"
          /\ \A j \in 1..n : j < k => I[j] # "additionalCheckBox"
      BY <1>1, <1>2, <1>7 DEF ItemIsAt
    <2> HIDE DEF k
    <2>2. PlaceOf(I, "additionalCheckBox") = k
      BY <1>1, <1>3, <2>1, FoundAt
    <2> QED
      BY <2>2 DEF k
  <1> QED
    BY <1>4, <1>5, <1>6, <1>7 DEF I

(* showAdditionalSetting() after "activeComboBox": its item is there.      *)
LEMMA ComboShown ==
  ASSUME NEW b \in {0, 1}
  PROVE  InsertAt(ItemsOf(0, b), 2, "additionalComboBox") = ItemsOf(1, b)
  <1> DEFINE I == ItemsOf(0, b)
             n == Len(FreshItems) + 0 + b
             e == "additionalComboBox"
  <1>1. n \in Nat /\ n >= 4
    BY RestIs
  <1>2. I \in Seq(AllNames) /\ Len(I) = n
    BY ItemsAre
  <1>3. e \in AllNames
    BY DEF AllNames
  <1>4. InsertAt(I, 2, e) = [j \in 1..n + 1 |->
                               IF j < 2 THEN I[j] ELSE IF j = 2 THEN e ELSE I[j - 1]]
    <2> HIDE DEF I, n, e
    <2>1. 2 \in 1..Len(I) + 1
      BY <1>1, <1>2
    <2>2. InsertAt(I, 2, e) = [j \in 1..Len(I) + 1 |->
                                 IF j < 2 THEN I[j] ELSE IF j = 2 THEN e ELSE I[j - 1]]
      BY <1>2, <1>3, <2>1, InsertedAt
    <2> QED
      BY <1>2, <2>2
  <1>5. ASSUME NEW j \in 1..n + 1
        PROVE  (IF j < 2 THEN I[j] ELSE IF j = 2 THEN e ELSE I[j - 1]) = ItemsOf(1, b)[j]
    <2>1. j # 1 => j - 1 \in 1..n
      BY <1>1
    <2> QED
      BY <1>1, <2>1 DEF ItemsOf
  <1>6. ItemsOf(1, b) = [j \in 1..n + 1 |-> ItemsOf(1, b)[j]]
    BY <1>1 DEF ItemsOf
  <1> HIDE DEF I, e, n
  <1> QED
    BY <1>4, <1>5, <1>6 DEF I, e

(* showAdditionalSetting() after "activeCheckBox": its item is there.      *)
LEMMA CheckShown ==
  ASSUME NEW a \in {0, 1}
  PROVE  InsertAt(ItemsOf(a, 0), 3 + a, "additionalCheckBox") = ItemsOf(a, 1)
  <1> DEFINE I == ItemsOf(a, 0)
             n == Len(FreshItems) + a + 0
             e == "additionalCheckBox"
  <1>1. n \in Nat /\ n >= 4 + a
    BY RestIs
  <1>2. I \in Seq(AllNames) /\ Len(I) = n
    BY ItemsAre
  <1>3. e \in AllNames
    BY DEF AllNames
  <1>4. InsertAt(I, 3 + a, e) = [j \in 1..n + 1 |->
                          IF j < 3 + a THEN I[j] ELSE IF j = 3 + a THEN e ELSE I[j - 1]]
    <2> DEFINE k == 3 + a
    <2> HIDE DEF I, n, e
    <2>1. k \in 1..Len(I) + 1
      BY <1>1, <1>2
    <2> HIDE DEF k
    <2>2. InsertAt(I, k, e) = [j \in 1..Len(I) + 1 |->
                                 IF j < k THEN I[j] ELSE IF j = k THEN e ELSE I[j - 1]]
      BY <1>2, <1>3, <2>1, InsertedAt
    <2> QED
      BY <1>2, <2>2 DEF k
  <1>5. ASSUME NEW j \in 1..n + 1
        PROVE  (IF j < 3 + a THEN I[j] ELSE IF j = 3 + a THEN e ELSE I[j - 1])
                 = ItemsOf(a, 1)[j]
    <2>1. j # 1 => j - 1 \in 1..n
      BY <1>1
    <2> QED
      BY <1>1, <2>1 DEF ItemsOf
  <1>6. ItemsOf(a, 1) = [j \in 1..n + 1 |-> ItemsOf(a, 1)[j]]
    BY <1>1 DEF ItemsOf
  <1> HIDE DEF I, e, n
  <1> QED
    BY <1>4, <1>5, <1>6 DEF I, e

(* hideAdditionalSetting() of the additional combo box.                    *)
LEMMA ComboHidden ==
  ASSUME NEW b \in {0, 1}
  PROVE  RemoveAt(ItemsOf(1, b), 2) = ItemsOf(0, b)
  <1> DEFINE I == ItemsOf(1, b)
             n == Len(FreshItems) + 1 + b
  <1>1. n \in Nat /\ n >= 5 /\ n - 1 = Len(FreshItems) + 0 + b
    BY RestIs
  <1>2. I \in Seq(AllNames) /\ Len(I) = n
    BY ItemsAre
  <1>3. RemoveAt(I, 2) = [j \in 1..n - 1 |-> IF j < 2 THEN I[j] ELSE I[j + 1]]
    <2> HIDE DEF I, n
    <2>1. 2 \in 1..Len(I)
      BY <1>1, <1>2
    <2>2. RemoveAt(I, 2) = [j \in 1..Len(I) - 1 |-> IF j < 2 THEN I[j] ELSE I[j + 1]]
      BY <1>2, <2>1, RemovedAt
    <2> QED
      BY <1>2, <2>2
  <1>4. ASSUME NEW j \in 1..n - 1
        PROVE  (IF j < 2 THEN I[j] ELSE I[j + 1]) = ItemsOf(0, b)[j]
    <2>1. j + 1 \in 1..n
      BY <1>1
    <2> QED
      BY <1>1, <2>1 DEF ItemsOf
  <1>5. ItemsOf(0, b) = [j \in 1..n - 1 |-> ItemsOf(0, b)[j]]
    BY <1>1 DEF ItemsOf
  <1> HIDE DEF I, n
  <1> QED
    BY <1>3, <1>4, <1>5 DEF I

(* hideAdditionalSetting() of the additional check box.                    *)
LEMMA CheckHidden ==
  ASSUME NEW a \in {0, 1}
  PROVE  RemoveAt(ItemsOf(a, 1), 3 + a) = ItemsOf(a, 0)
  <1> DEFINE I == ItemsOf(a, 1)
             n == Len(FreshItems) + a + 1
  <1>1. n \in Nat /\ n >= 5 /\ n - 1 = Len(FreshItems) + a + 0
    BY RestIs
  <1>2. I \in Seq(AllNames) /\ Len(I) = n
    BY ItemsAre
  <1>3. RemoveAt(I, 3 + a) = [j \in 1..n - 1 |-> IF j < 3 + a THEN I[j] ELSE I[j + 1]]
    <2> HIDE DEF I, n
    <2>1. 3 + a \in 1..Len(I)
      BY <1>1, <1>2
    <2>2. RemoveAt(I, 3 + a)
            = [j \in 1..Len(I) - 1 |-> IF j < 3 + a THEN I[j] ELSE I[j + 1]]
      BY <1>2, <2>1, RemovedAt
    <2> QED
      BY <1>2, <2>2
  <1>4. ASSUME NEW j \in 1..n - 1
        PROVE  (IF j < 3 + a THEN I[j] ELSE I[j + 1]) = ItemsOf(a, 0)[j]
    <2>1. j + 1 \in 1..n
      BY <1>1
    <2> QED
      BY <1>1, <2>1 DEF ItemsOf
  <1>5. ItemsOf(a, 0) = [j \in 1..n - 1 |-> ItemsOf(a, 0)[j]]
    BY <1>1 DEF ItemsOf
  <1> HIDE DEF I, n
  <1> QED
    BY <1>3, <1>4, <1>5 DEF I

(* Without additional items, the items are those of the manifest.          *)
LEMMA NoneAdded == ItemsOf(0, 0) = FreshItems
  <1> DEFINE F == FreshItems
             n == Len(F)
  <1>1. F \in Seq(AllNames) /\ n \in {7, 9}
    BY FreshIs
  <1>2. F = [j \in 1..n |-> F[j]]
    <2> HIDE DEF F
    <2> QED
      BY <1>1 DEF n
  <1>3. ASSUME NEW j \in 1..n PROVE ItemsOf(0, 0)[j] = F[j]
    BY <1>1, FreshIs DEF ItemsOf
  <1>4. ItemsOf(0, 0) = [j \in 1..n |-> ItemsOf(0, 0)[j]]
    BY <1>1 DEF ItemsOf
  <1> HIDE DEF F, n
  <1> QED
    BY <1>2, <1>3, <1>4 DEF F

(* The names of the items.                                                 *)
LEMMA RangeIs ==
  ASSUME NEW a \in {0, 1}, NEW b \in {0, 1}
  PROVE  Range(ItemsOf(a, b)) = NamesOf(a, b) \union {Flow}
  <1> DEFINE I == ItemsOf(a, b)
             n == Len(FreshItems) + a + b
  <1>1. n \in Nat /\ n >= 7 + a + b /\ DOMAIN I = 1..n
    BY ItemsAre, RestIs
  <1>2. \A j \in 1..n : ItemIsAt(I, a, b, j)
    BY PlacesAre
  <1>3. \A k \in 3..Len(FreshItems) : FreshItems[k] \in ManifestNames \union {Flow}
    <2>1. \A k \in 3..7 : k = 3 \/ k = 4 \/ k = 5 \/ k = 6 \/ k = 7
      OBVIOUS
    <2>2. \A k \in 3..9 : k \in 3..7 \/ k = 8 \/ k = 9
      OBVIOUS
    <2> QED
      BY <2>1, <2>2, FreshIs DEF ManifestNames
  <1>4. \A name \in ManifestNames \ {"activeComboBox", "activeCheckBox"} :
          \E k \in 3..Len(FreshItems) : FreshItems[k] = name
    <2>1. 3 \in 3..Len(FreshItems) /\ 4 \in 3..Len(FreshItems) /\ 5 \in 3..Len(FreshItems)
      BY FreshIs
    <2>2. holder = "deviceAgent" => 8 \in 3..Len(FreshItems) /\ 9 \in 3..Len(FreshItems)
      BY FreshIs
    <2> QED
      BY <2>1, <2>2, FreshIs DEF ManifestNames
  <1>5. \E k \in 3..Len(FreshItems) : FreshItems[k] = Flow
    <2>1. 6 \in 3..Len(FreshItems)
      BY FreshIs
    <2> QED
      BY <2>1, FreshIs
  <1>6. ASSUME NEW j \in 1..n PROVE I[j] \in NamesOf(a, b) \union {Flow}
    <2>1. CASE j > 2 + a + b
      BY <1>2, <1>3, <2>1 DEF ItemIsAt, NamesOf
    <2>2. CASE ~(j > 2 + a + b)
      <3>1. j = 1 \/ (a = 1 /\ j = 2) \/ j = 2 + a \/ (b = 1 /\ j = 3 + a)
        BY <1>1, <2>2
      <3> QED
        BY <1>2, <3>1 DEF ItemIsAt, NamesOf, ManifestNames
    <2> QED
      BY <2>1, <2>2
  <1>7. ASSUME NEW k \in 3..Len(FreshItems)
        PROVE  k + a + b \in 1..n /\ I[k + a + b] = FreshItems[k]
    <2>1. k + a + b \in 1..n /\ k + a + b > 2 + a + b /\ k + a + b - a - b = k
      BY <1>1, RestIs
    <2> QED
      BY <1>2, <2>1 DEF ItemIsAt
  <1>8. ASSUME NEW name \in NamesOf(a, b) \union {Flow} PROVE \E j \in 1..n : I[j] = name
    <2>1. 1 \in 1..n /\ 2 + a \in 1..n /\ (a = 1 => 2 \in 1..n) /\ (b = 1 => 3 + a \in 1..n)
      BY <1>1
    <2>2. CASE name \in {"activeComboBox", "activeCheckBox"}
      BY <1>2, <2>1, <2>2 DEF ItemIsAt
    <2>3. CASE name \in ManifestNames \ {"activeComboBox", "activeCheckBox"} \/ name = Flow
      BY <1>4, <1>5, <1>7, <2>3
    <2>4. CASE name = "additionalComboBox" /\ a = 1
      BY <1>2, <2>1, <2>4 DEF ItemIsAt
    <2>5. CASE name = "additionalCheckBox" /\ b = 1
      BY <1>2, <2>1, <2>5 DEF ItemIsAt
    <2> QED
      BY <2>2, <2>3, <2>4, <2>5 DEF NamesOf
  <1> HIDE DEF I, n
  <1> QED
    BY <1>1, <1>6, <1>8 DEF Range, I

(* deduplicateArrayByPropertyName() leaves such items as they are.         *)
LEMMA NothingDeduplicated ==
  ASSUME NEW a \in {0, 1}, NEW b \in {0, 1}
  PROVE  Deduplicated(ItemsOf(a, b)) = ItemsOf(a, b)
  <1> DEFINE I == ItemsOf(a, b)
             n == Len(FreshItems) + a + b
             kept == {i \in DOMAIN I : \A j \in 1..i - 1 : I[j] = I[i] => I[i] = Flow}
  <1>1. n \in Nat /\ DOMAIN I = 1..n /\ I = [i \in 1..n |-> I[i]]
    BY ItemsAre, RestIs DEF ItemsOf
  <1>2. \A i, j \in 1..n : I[i] = I[j] => i = j \/ I[i] = Flow
    BY NoneTwice
  <1> HIDE DEF I, n
  <1>3. kept = 1..n
    <2>1. ASSUME NEW i \in 1..n, NEW j \in 1..i - 1, I[j] = I[i] PROVE I[i] = Flow
      <3>1. j \in 1..n /\ j # i
        BY <1>1
      <3> QED
        BY <1>2, <2>1, <3>1
    <2> QED
      BY <1>1, <2>1
  <1> HIDE DEF kept
  <1>4. ASSUME NEW k \in 0..n PROVE Cardinality(1..k) = k
    BY <1>1, <1>4, FS_Interval
  <1>5. Cardinality(kept) = n
    BY <1>1, <1>3, <1>4
  <1>6. ASSUME NEW k \in 1..n
        PROVE  I[CHOOSE i \in kept : Cardinality({j \in kept : j <= i}) = k] = I[k]
    <2>1. ASSUME NEW i \in kept PROVE Cardinality({j \in kept : j <= i}) = i
      <3>1. {j \in kept : j <= i} = 1..i
        BY <1>1, <1>3
      <3>2. Cardinality(1..i) = i
        BY <1>1, <1>3, <1>4
      <3> QED
        BY <3>1, <3>2, Zenon
    <2> DEFINE Count(i) == Cardinality({j \in kept : j <= i})
    <2>2. \A i \in kept : Count(i) = i
      BY <2>1
    <2> HIDE DEF Count
    <2>3. k \in kept
      BY <1>3
    <2>4. (CHOOSE i \in kept : Count(i) = k) = k
      BY <2>2, <2>3
    <2> QED
      BY <2>4 DEF Count
  <1>7. Deduplicated(I)
          = [k \in 1..Cardinality(kept) |->
               I[CHOOSE i \in kept : Cardinality({j \in kept : j <= i}) = k]]
    BY DEF Deduplicated, kept
  <1>8. Deduplicated(I) = [k \in 1..n |-> I[k]]
    BY <1>5, <1>6, <1>7
  <1> QED
    BY <1>1, <1>8 DEF I

----------------------------------------------------------------------------
(* What each rule makes of a section.                                      *)
SectionOf(a, b, buttons, set, top, bottom, values) ==
  [items |-> ItemsOf(a, b), radioButtons |-> buttons, valueSet |-> set,
   minTop |-> top, maxBottom |-> bottom, values |-> values]

IsFunction(f) == f = [x \in DOMAIN f |-> f[x]]

WithDefault(values, name) ==
  IF name \in DOMAIN values THEN values ELSE WithValue(values, name, DefaultOf(name))

Without(values, name) == Restrict(values, DOMAIN values \ {name})

(* A setting that is given the value it has.                               *)
LEMMA ValueKept ==
  ASSUME NEW values, IsFunction(values), NEW name \in DOMAIN values
  PROVE  WithValue(values, name, values[name]) = values
  BY DEF WithValue, IsFunction

(* A setting that has a value keeps it when its rule begins.               *)
LEMMA SectionKept ==
  ASSUME NEW a, NEW b, NEW buttons, NEW set, NEW top, NEW bottom, NEW values,
         IsFunction(values), NEW name \in DOMAIN values
  PROVE  [SectionOf(a, b, buttons, set, top, bottom, values) EXCEPT
            !.values = WithValue(@, name, values[name])]
           = SectionOf(a, b, buttons, set, top, bottom, values)
  BY ValueKept DEF SectionOf

(* The section after showAdditionalSetting() of the combo box.             *)
LEMMA ComboShownInSection ==
  ASSUME NEW b \in {0, 1}, NEW buttons, NEW set, NEW top, NEW bottom, NEW values
  PROVE  ShowItem(SectionOf(0, b, buttons, set, top, bottom, values),
                  "activeComboBox", "additionalComboBox")
           = SectionOf(1, b, buttons, set, top, bottom,
                       WithDefault(values, "additionalComboBox"))
  <1> DEFINE I == ItemsOf(0, b)
  <1>1. "activeComboBox" \in Range(I)
    BY RangeIs DEF NamesOf, ManifestNames
  <1>2. InsertAt(I, PlaceOf(I, "activeComboBox") + 1, "additionalComboBox") = ItemsOf(1, b)
    <2>1. PlaceOf(I, "activeComboBox") = 1
      BY PlaceIsFound
    <2>2. InsertAt(I, 1 + 1, "additionalComboBox") = ItemsOf(1, b)
      <3>1. 1 + 1 = 2
        OBVIOUS
      <3> QED
        BY <3>1, ComboShown
    <2> QED
      BY <2>1, <2>2, Zenon
  <1> HIDE DEF I
  <1> DEFINE s == [items |-> I, radioButtons |-> buttons, valueSet |-> set,
                   minTop |-> top, maxBottom |-> bottom, values |-> values]
             J == InsertAt(I, PlaceOf(I, "activeComboBox") + 1, "additionalComboBox")
  <1>3. ShowItem(s, "activeComboBox", "additionalComboBox")
          = [s EXCEPT !.items = IF "activeComboBox" \in Range(@) THEN
                                  InsertAt(@, PlaceOf(@, "activeComboBox") + 1,
                                           "additionalComboBox") ELSE @,
                      !.values = WithDefault(@, "additionalComboBox")]
    BY Zenon DEF ShowItem, WithDefault
  <1>4. ShowItem(s, "activeComboBox", "additionalComboBox")
          = [s EXCEPT !.items = J, !.values = WithDefault(values, "additionalComboBox")]
    BY <1>1, <1>3
  <1> QED
    BY <1>2, <1>4 DEF SectionOf, I

(* The section after showAdditionalSetting() of the check box.             *)
LEMMA CheckShownInSection ==
  ASSUME NEW a \in {0, 1}, NEW buttons, NEW set, NEW top, NEW bottom, NEW values
  PROVE  ShowItem(SectionOf(a, 0, buttons, set, top, bottom, values),
                  "activeCheckBox", "additionalCheckBox")
           = SectionOf(a, 1, buttons, set, top, bottom,
                       WithDefault(values, "additionalCheckBox"))
  <1> DEFINE I == ItemsOf(a, 0)
  <1>1. "activeCheckBox" \in Range(I)
    BY RangeIs DEF NamesOf, ManifestNames
  <1>2. InsertAt(I, PlaceOf(I, "activeCheckBox") + 1, "additionalCheckBox") = ItemsOf(a, 1)
    <2>1. PlaceOf(I, "activeCheckBox") = 2 + a
      BY PlaceIsFound
    <2>2. InsertAt(I, (2 + a) + 1, "additionalCheckBox") = ItemsOf(a, 1)
      <3>1. (2 + a) + 1 = 3 + a
        OBVIOUS
      <3>2. InsertAt(I, 3 + a, "additionalCheckBox") = ItemsOf(a, 1)
        BY CheckShown
      <3> QED
        BY <3>1, <3>2, Zenon
    <2> QED
      BY <2>1, <2>2, Zenon
  <1> HIDE DEF I
  <1> DEFINE s == [items |-> I, radioButtons |-> buttons, valueSet |-> set,
                   minTop |-> top, maxBottom |-> bottom, values |-> values]
             J == InsertAt(I, PlaceOf(I, "activeCheckBox") + 1, "additionalCheckBox")
  <1>3. ShowItem(s, "activeCheckBox", "additionalCheckBox")
          = [s EXCEPT !.items = IF "activeCheckBox" \in Range(@) THEN
                                  InsertAt(@, PlaceOf(@, "activeCheckBox") + 1,
                                           "additionalCheckBox") ELSE @,
                      !.values = WithDefault(@, "additionalCheckBox")]
    BY Zenon DEF ShowItem, WithDefault
  <1>4. ShowItem(s, "activeCheckBox", "additionalCheckBox")
          = [s EXCEPT !.items = J, !.values = WithDefault(values, "additionalCheckBox")]
    BY <1>1, <1>3
  <1> QED
    BY <1>2, <1>4 DEF SectionOf, I

(* The section after hideAdditionalSetting() of the combo box.             *)
LEMMA ComboHiddenInSection ==
  ASSUME NEW a \in {0, 1}, NEW b \in {0, 1},
         NEW buttons, NEW set, NEW top, NEW bottom, NEW values
  PROVE  HideItem(SectionOf(a, b, buttons, set, top, bottom, values), "additionalComboBox")
           = SectionOf(0, b, buttons, set, top, bottom, Without(values, "additionalComboBox"))
  <1> DEFINE I == ItemsOf(a, b)
             J == IF "additionalComboBox" \in Range(I)
                  THEN RemoveAt(I, PlaceOf(I, "additionalComboBox")) ELSE I
  <1>1. J = ItemsOf(0, b)
    <2>1. CASE a = 1
      <3>1. "additionalComboBox" \in Range(I)
        BY <2>1, RangeIs DEF NamesOf
      <3>2. PlaceOf(I, "additionalComboBox") = 2
        BY <2>1, PlaceIsFound
      <3>3. RemoveAt(I, 2) = ItemsOf(0, b)
        BY <2>1, ComboHidden
      <3> QED
        BY <3>1, <3>2, <3>3
    <2>2. CASE a = 0
      <3>1. Range(I) = NamesOf(a, b) \union {Flow}
        BY RangeIs
      <3>2. "additionalComboBox" \notin NamesOf(a, b) \union {Flow}
        BY <2>2 DEF NamesOf, ManifestNames, Flow
      <3>3. "additionalComboBox" \notin Range(I)
        BY <3>1, <3>2
      <3> QED
        BY <2>2, <3>3
    <2> QED
      BY <2>1, <2>2
  <1> HIDE DEF I
  <1> DEFINE s == [items |-> I, radioButtons |-> buttons, valueSet |-> set,
                   minTop |-> top, maxBottom |-> bottom, values |-> values]
  <1>3. HideItem(s, "additionalComboBox")
          = [s EXCEPT !.items = IF "additionalComboBox" \in Range(@)
                                THEN RemoveAt(@, PlaceOf(@, "additionalComboBox")) ELSE @,
                      !.values = Without(@, "additionalComboBox")]
    BY Zenon DEF HideItem, Without
  <1>4. HideItem(s, "additionalComboBox")
          = [s EXCEPT !.items = J, !.values = Without(values, "additionalComboBox")]
    BY <1>3
  <1> QED
    BY <1>1, <1>4 DEF SectionOf, I

(* The section after hideAdditionalSetting() of the check box.             *)
LEMMA CheckHiddenInSection ==
  ASSUME NEW a \in {0, 1}, NEW b \in {0, 1},
         NEW buttons, NEW set, NEW top, NEW bottom, NEW values
  PROVE  HideItem(SectionOf(a, b, buttons, set, top, bottom, values), "additionalCheckBox")
           = SectionOf(a, 0, buttons, set, top, bottom, Without(values, "additionalCheckBox"))
  <1> DEFINE I == ItemsOf(a, b)
             J == IF "additionalCheckBox" \in Range(I)
                  THEN RemoveAt(I, PlaceOf(I, "additionalCheckBox")) ELSE I
  <1>1. J = ItemsOf(a, 0)
    <2>1. CASE b = 1
      <3>1. "additionalCheckBox" \in Range(I)
        BY <2>1, RangeIs DEF NamesOf
      <3>2. PlaceOf(I, "additionalCheckBox") = 3 + a
        BY <2>1, PlaceIsFound
      <3>3. RemoveAt(I, 3 + a) = ItemsOf(a, 0)
        BY <2>1, CheckHidden
      <3> QED
        BY <3>1, <3>2, <3>3
    <2>2. CASE b = 0
      <3>1. Range(I) = NamesOf(a, b) \union {Flow}
        BY RangeIs
      <3>2. "additionalCheckBox" \notin NamesOf(a, b) \union {Flow}
        BY <2>2 DEF NamesOf, ManifestNames, Flow
      <3>3. "additionalCheckBox" \notin Range(I)
        BY <3>1, <3>2
      <3> QED
        BY <2>2, <3>3
    <2> QED
      BY <2>1, <2>2
  <1> HIDE DEF I
  <1> DEFINE s == [items |-> I, radioButtons |-> buttons, valueSet |-> set,
                   minTop |-> top, maxBottom |-> bottom, values |-> values]
  <1>3. HideItem(s, "additionalCheckBox")
          = [s EXCEPT !.items = IF "additionalCheckBox" \in Range(@)
                                THEN RemoveAt(@, PlaceOf(@, "additionalCheckBox")) ELSE @,
                      !.values = Without(@, "additionalCheckBox")]
    BY Zenon DEF HideItem, Without
  <1>4. HideItem(s, "additionalCheckBox")
          = [s EXCEPT !.items = J, !.values = Without(values, "additionalCheckBox")]
    BY <1>3
  <1> QED
    BY <1>1, <1>4 DEF SectionOf, I

(* What the values ask for.                                                *)
AsksForCombo(values) == values["activeComboBox"] = "Show additional ComboBox"
AsksForCheck(values) == values["activeCheckBox"] = "true"

(* The rules, each for the section of an item that has a value.            *)
Given(values, name) == IsFunction(values) /\ name \in DOMAIN values

(* showAdditionalComboBox, hideAdditionalComboBox.                         *)
LEMMA RuleOfComboBox ==
  ASSUME NEW a \in {0, 1}, NEW b \in {0, 1},
         NEW buttons, NEW set, NEW top, NEW bottom, NEW values,
         Given(values, "activeComboBox"), AsksForCombo(values) => a = 0
  PROVE  UpdateSettings(SectionOf(a, b, buttons, set, top, bottom, values), "activeComboBox")
           = IF AsksForCombo(values)
             THEN SectionOf(1, b, buttons, set, top, bottom,
                            WithDefault(values, "additionalComboBox"))
             ELSE SectionOf(0, b, buttons, set, top, bottom,
                            Without(values, "additionalComboBox"))
  <1> DEFINE s == SectionOf(a, b, buttons, set, top, bottom, values)
  <1>1. s.values = values
    BY DEF SectionOf
  <1>2. [s EXCEPT !.values = WithValue(@, "activeComboBox", values["activeComboBox"])] = s
    BY SectionKept DEF Given
  <1>3. AsksForCombo(values) =>
          ShowItem(s, "activeComboBox", "additionalComboBox")
            = SectionOf(1, b, buttons, set, top, bottom,
                        WithDefault(values, "additionalComboBox"))
    BY ComboShownInSection
  <1>4. HideItem(s, "additionalComboBox")
          = SectionOf(0, b, buttons, set, top, bottom, Without(values, "additionalComboBox"))
    BY ComboHiddenInSection
  <1> HIDE DEF s
  <1>5. UpdateSettings(s, "activeComboBox")
          = IF AsksForCombo(values)
            THEN ShowItem(s, "activeComboBox", "additionalComboBox")
            ELSE HideItem(s, "additionalComboBox")
    BY <1>1, <1>2 DEF UpdateSettings, Given, AsksForCombo
  <1> QED
    BY <1>3, <1>4, <1>5 DEF s

(* showAdditionalCheckBox, hideAdditionalCheckBox.                         *)
LEMMA RuleOfCheckBox ==
  ASSUME NEW a \in {0, 1}, NEW b \in {0, 1},
         NEW buttons, NEW set, NEW top, NEW bottom, NEW values,
         Given(values, "activeCheckBox"), AsksForCheck(values) => b = 0
  PROVE  UpdateSettings(SectionOf(a, b, buttons, set, top, bottom, values), "activeCheckBox")
           = IF AsksForCheck(values)
             THEN SectionOf(a, 1, buttons, set, top, bottom,
                            WithDefault(values, "additionalCheckBox"))
             ELSE SectionOf(a, 0, buttons, set, top, bottom,
                            Without(values, "additionalCheckBox"))
  <1> DEFINE s == SectionOf(a, b, buttons, set, top, bottom, values)
  <1>1. s.values = values
    BY DEF SectionOf
  <1>2. [s EXCEPT !.values = WithValue(@, "activeCheckBox", values["activeCheckBox"])] = s
    BY SectionKept DEF Given
  <1>3. AsksForCheck(values) =>
          ShowItem(s, "activeCheckBox", "additionalCheckBox")
            = SectionOf(a, 1, buttons, set, top, bottom,
                        WithDefault(values, "additionalCheckBox"))
    BY CheckShownInSection
  <1>4. HideItem(s, "additionalCheckBox")
          = SectionOf(a, 0, buttons, set, top, bottom, Without(values, "additionalCheckBox"))
    BY CheckHiddenInSection
  <1> HIDE DEF s
  <1>5. UpdateSettings(s, "activeCheckBox")
          = IF AsksForCheck(values)
            THEN ShowItem(s, "activeCheckBox", "additionalCheckBox")
            ELSE HideItem(s, "additionalCheckBox")
    BY <1>1, <1>2 DEF UpdateSettings, Given, AsksForCheck
  <1> QED
    BY <1>3, <1>4, <1>5 DEF s

WithHideMe(buttons) == buttons \union {"Hide me"}
WithoutHideMe(buttons) == buttons \ {"Hide me"}

ChosenButton(values) == values["activeRadioButtonGroup"]

(* showAdditionalRadioButton, hideAdditionalRadioButton.                   *)
LEMMA RuleOfButtons ==
  ASSUME NEW a, NEW b, NEW buttons, NEW set, NEW top, NEW bottom, NEW values,
         Given(values, "activeRadioButtonGroup")
  PROVE  UpdateSettings(SectionOf(a, b, buttons, set, top, bottom, values),
                        "activeRadioButtonGroup")
           = IF ChosenButton(values) = "Show something"
             THEN SectionOf(a, b, WithHideMe(buttons), set, top, bottom, values)
             ELSE IF ChosenButton(values) = "Hide me"
             THEN SectionOf(a, b, WithoutHideMe(buttons), set, top, bottom,
                            WithValue(values, "activeRadioButtonGroup", "Some value"))
             ELSE SectionOf(a, b, buttons, set, top, bottom, values)
  <1> DEFINE s == SectionOf(a, b, buttons, set, top, bottom, values)
             v == values["activeRadioButtonGroup"]
  <1>1. s.values = values
    BY DEF SectionOf
  <1>2. [s EXCEPT !.values = WithValue(@, "activeRadioButtonGroup",
                                       values["activeRadioButtonGroup"])] = s
    BY SectionKept DEF Given
  <1>3. [s EXCEPT !.radioButtons = @ \union {"Hide me"}]
          = SectionOf(a, b, buttons \union {"Hide me"}, set, top, bottom, values)
    <2> DEFINE x == buttons \union {"Hide me"}
    <2>1. s.radioButtons = buttons
      BY DEF SectionOf
    <2> HIDE DEF x
    <2>2. [s EXCEPT !.radioButtons = x] = SectionOf(a, b, x, set, top, bottom, values)
      BY DEF SectionOf
    <2> QED
      BY <2>1, <2>2 DEF x
  <1>5. HideButton(s) = SectionOf(a, b, buttons \ {"Hide me"}, set, top, bottom,
                              WithValue(values, "activeRadioButtonGroup", "Some value"))
    <2> DEFINE x == buttons \ {"Hide me"}
               y == WithValue(values, "activeRadioButtonGroup", "Some value")
    <2>1. s.radioButtons = buttons
      BY DEF SectionOf
    <2>2. HideButton(s) = [s EXCEPT !.radioButtons = x, !.values = y]
      <3> HIDE DEF s
      <3> QED
        BY <1>1, <2>1 DEF HideButton
    <2> HIDE DEF x, y
    <2>3. [s EXCEPT !.radioButtons = x, !.values = y]
            = SectionOf(a, b, x, set, top, bottom, y)
      <3> DEFINE t == [s EXCEPT !.radioButtons = x]
      <3>1. t = SectionOf(a, b, x, set, top, bottom, values)
        BY DEF SectionOf
      <3>2. [s EXCEPT !.radioButtons = x, !.values = y] = [t EXCEPT !.values = y]
        OBVIOUS
      <3> HIDE DEF t
      <3>3. [t EXCEPT !.values = y] = SectionOf(a, b, x, set, top, bottom, y)
        BY <3>1 DEF SectionOf
      <3> QED
        BY <3>2, <3>3
    <2> QED
      BY <2>2, <2>3 DEF x, y
  <1> HIDE DEF s
  <1>4. UpdateSettings(s, "activeRadioButtonGroup")
          = CASE v = "Show something" -> [s EXCEPT !.radioButtons = @ \union {"Hide me"}]
              [] v = "Hide me" -> HideButton(s)
              [] OTHER -> s
    BY <1>1, <1>2 DEF UpdateSettings, Given
  <1> QED
    BY <1>3, <1>4, <1>5 DEF s, ChosenButton, WithHideMe, WithoutHideMe

(* The rules of "activeCheckBoxForValueSetChange".                         *)
LEMMA RuleOfValueSet ==
  ASSUME NEW a, NEW b, NEW buttons, NEW set, NEW top, NEW bottom, NEW values,
         Given(values, "activeCheckBoxForValueSetChange")
  PROVE  UpdateSettings(SectionOf(a, b, buttons, set, top, bottom, values),
                        "activeCheckBoxForValueSetChange")
           = IF values["activeCheckBoxForValueSetChange"] = "true"
             THEN SectionOf(a, b, buttons, {"Permanent", "Optional"}, top, bottom, values)
             ELSE IF values["activeCheckBoxForValueSetChange"] = "false"
             THEN SectionOf(a, b, buttons, {"Permanent"}, top, bottom,
                            WithValue(values, "comboBoxForValueSetChange", "Permanent"))
             ELSE SectionOf(a, b, buttons, set, top, bottom, values)
  <1> DEFINE s == SectionOf(a, b, buttons, set, top, bottom, values)
             v == values["activeCheckBoxForValueSetChange"]
  <1>1. s.values = values
    BY DEF SectionOf
  <1>2. [s EXCEPT !.values = WithValue(@, "activeCheckBoxForValueSetChange",
                                       values["activeCheckBoxForValueSetChange"])] = s
    BY SectionKept DEF Given
  <1>3. [s EXCEPT !.valueSet = {"Permanent", "Optional"}]
          = SectionOf(a, b, buttons, {"Permanent", "Optional"}, top, bottom, values)
    BY DEF SectionOf
  <1>5. RemoveOptional(s)
          = SectionOf(a, b, buttons, {"Permanent"}, top, bottom,
                      WithValue(values, "comboBoxForValueSetChange", "Permanent"))
    <2> DEFINE y == WithValue(values, "comboBoxForValueSetChange", "Permanent")
    <2>1. RemoveOptional(s) = [s EXCEPT !.valueSet = {"Permanent"}, !.values = y]
      <3> HIDE DEF s
      <3> QED
        BY <1>1 DEF RemoveOptional
    <2> HIDE DEF y
    <2>2. [s EXCEPT !.valueSet = {"Permanent"}, !.values = y]
            = SectionOf(a, b, buttons, {"Permanent"}, top, bottom, y)
      <3> DEFINE t == [s EXCEPT !.valueSet = {"Permanent"}]
      <3>1. t = SectionOf(a, b, buttons, {"Permanent"}, top, bottom, values)
        BY DEF SectionOf
      <3>2. [s EXCEPT !.valueSet = {"Permanent"}, !.values = y] = [t EXCEPT !.values = y]
        OBVIOUS
      <3> HIDE DEF t
      <3>3. [t EXCEPT !.values = y] = SectionOf(a, b, buttons, {"Permanent"}, top, bottom, y)
        BY <3>1 DEF SectionOf
      <3> QED
        BY <3>2, <3>3
    <2> QED
      BY <2>1, <2>2 DEF y
  <1> HIDE DEF s
  <1>4. UpdateSettings(s, "activeCheckBoxForValueSetChange")
          = CASE v = "true" -> [s EXCEPT !.valueSet = {"Permanent", "Optional"}]
              [] v = "false" -> RemoveOptional(s)
              [] OTHER -> s
    BY <1>1, <1>2 DEF UpdateSettings, Given
  <1> QED
    BY <1>3, <1>4, <1>5 DEF s

(* updateMinMaxSpinBoxes().                                                *)
LEMMA RuleOfLimits ==
  ASSUME NEW a, NEW b, NEW buttons, NEW set, NEW top, NEW bottom, NEW values,
         NEW name \in {"activeMinValue", "activeMaxValue"}, Given(values, name)
  PROVE  UpdateSettings(SectionOf(a, b, buttons, set, top, bottom, values), name)
           = SectionOf(a, b, buttons, set, values["activeMaxValue"],
                       values["activeMinValue"], values)
  <1> DEFINE s == SectionOf(a, b, buttons, set, top, bottom, values)
  <1>1. s.values = values
    BY DEF SectionOf
  <1>2. [s EXCEPT !.values = WithValue(@, name, values[name])] = s
    BY SectionKept DEF Given
  <1>3. UpdateMinMaxSpinBoxes(s)
          = SectionOf(a, b, buttons, set, values["activeMaxValue"],
                      values["activeMinValue"], values)
    <2> DEFINE x == values["activeMaxValue"]
               y == values["activeMinValue"]
    <2>1. UpdateMinMaxSpinBoxes(s) = [s EXCEPT !.minTop = x, !.maxBottom = y]
      <3> HIDE DEF s
      <3> QED
        BY <1>1 DEF UpdateMinMaxSpinBoxes
    <2> HIDE DEF x, y
    <2>2. [s EXCEPT !.minTop = x, !.maxBottom = y]
            = SectionOf(a, b, buttons, set, x, y, values)
      <3> DEFINE t == [s EXCEPT !.minTop = x]
      <3>1. t = SectionOf(a, b, buttons, set, x, bottom, values)
        BY DEF SectionOf
      <3>2. [s EXCEPT !.minTop = x, !.maxBottom = y] = [t EXCEPT !.maxBottom = y]
        OBVIOUS
      <3> HIDE DEF t
      <3>3. [t EXCEPT !.maxBottom = y] = SectionOf(a, b, buttons, set, x, y, values)
        BY <3>1 DEF SectionOf
      <3> QED
        BY <3>2, <3>3
    <2> QED
      BY <2>1, <2>2 DEF x, y
  <1> HIDE DEF s
  <1>4. UpdateSettings(s, name) = UpdateMinMaxSpinBoxes(s)
    BY <1>1, <1>2 DEF UpdateSettings, Given
  <1> QED
    BY <1>3, <1>4 DEF s

(* An Engine gives Flow an empty value, or lets it have the value it has.  *)
WithFlow(values) ==
  WithValue(values, Flow, IF Flow \in DOMAIN values THEN values[Flow] ELSE "")

(* No rule, but an empty value: what updateSettings() does for Flow.       *)
LEMMA RuleOfFlow ==
  ASSUME NEW a, NEW b, NEW buttons, NEW set, NEW top, NEW bottom, NEW values
  PROVE  UpdateSettings(SectionOf(a, b, buttons, set, top, bottom, values), Flow)
           = SectionOf(a, b, buttons, set, top, bottom, WithFlow(values))
  <1> DEFINE s == SectionOf(a, b, buttons, set, top, bottom, values)
  <1>1. s.values = values
    BY DEF SectionOf
  <1>2. [s EXCEPT !.values = WithFlow(values)]
          = SectionOf(a, b, buttons, set, top, bottom, WithFlow(values))
    BY DEF SectionOf
  <1> HIDE DEF s
  <1>3. UpdateSettings(s, Flow) = [s EXCEPT !.values = WithFlow(values)]
    BY <1>1 DEF UpdateSettings, WithFlow, Flow
  <1> QED
    BY <1>2, <1>3 DEF s

----------------------------------------------------------------------------
(* The dialog made anew.  What the values lead to:                         *)
BaseButtons == {"Some value", "Show something"}

ButtonsFor(values) ==
  IF ChosenButton(values) = "Show something" THEN BaseButtons \union {"Hide me"}
                                                         ELSE BaseButtons

ValueSetFor(values) ==
  IF holder = "deviceAgent" /\ values["activeCheckBoxForValueSetChange"] # "true"
  THEN {"Permanent"} ELSE {"Permanent", "Optional"}

(* The choices of the boxes and buttons are there for the items shown.     *)
ChoicesAreSound(a, b, values) ==
  /\ AsksForCombo(values) <=> a = 1
  /\ AsksForCheck(values) <=> b = 1
  /\ values["activeComboBox"] \in {"Some value", "Show additional ComboBox"}
  /\ values["activeCheckBox"] \in {"true", "false"}
  /\ values["activeRadioButtonGroup"] \in BaseButtons
  /\ a = 1 => values["additionalComboBox"] \in {"Value 1", "Value 2"}
  /\ b = 1 => values["additionalCheckBox"] \in {"true", "false"}
  /\ holder = "deviceAgent" =>
       /\ values["activeCheckBoxForValueSetChange"] \in {"true", "false"}
       /\ values["comboBoxForValueSetChange"] \in ValueSetFor(values)

(* The minimum is not above the maximum.                                   *)
LimitsAreSound(values) ==
  /\ values["activeMinValue"] \in Lowest..Highest
  /\ values["activeMaxValue"] \in values["activeMinValue"]..Highest

ValuesAreSound(a, b, values) ==
  /\ IsFunction(values) /\ DOMAIN values \ {Flow} = NamesOf(a, b)
  /\ ChoicesAreSound(a, b, values) /\ LimitsAreSound(values)

(* The section after the rules of the first i items of the manifest.       *)
Stage(i, a, b, values) ==
  SectionOf(IF i >= 1 THEN a ELSE 0, IF i >= 2 THEN b ELSE 0,
            IF i >= 3 THEN ButtonsFor(values) ELSE BaseButtons,
            IF i >= 8 THEN ValueSetFor(values) ELSE {"Permanent", "Optional"},
            IF i >= 4 THEN values["activeMaxValue"] ELSE Middle,
            IF i >= 4 THEN values["activeMinValue"] ELSE Middle,
            IF i >= 6 /\ holder = "engine" THEN WithFlow(values) ELSE values)

IsUpdated(name) == holder = "engine" \/ name \in ActiveItems

NextStage(stage, name) == IF IsUpdated(name) THEN UpdateSettings(stage, name) ELSE stage

(* Before the rules the section is that of the manifest.                   *)
LEMMA FirstStage ==
  ASSUME NEW a \in {0, 1}, NEW b \in {0, 1}, NEW values
  PROVE  FreshSection(values) = Stage(0, a, b, values)
  <1>1. Stage(0, a, b, values)
          = SectionOf(0, 0, BaseButtons, {"Permanent", "Optional"}, Middle, Middle, values)
    BY DEF Stage
  <1> QED
    BY <1>1, NoneAdded DEF FreshSection, SectionOf, BaseButtons

(* Names that have values.                                                 *)
LEMMA NamesGiven ==
  ASSUME NEW a \in {0, 1}, NEW b \in {0, 1}, NEW values, ValuesAreSound(a, b, values)
  PROVE  /\ \A name \in NamesOf(a, b) : Given(values, name)
         /\ "activeComboBox" \in NamesOf(a, b) /\ "activeCheckBox" \in NamesOf(a, b)
         /\ "activeRadioButtonGroup" \in NamesOf(a, b)
         /\ "activeMinValue" \in NamesOf(a, b) /\ "activeMaxValue" \in NamesOf(a, b)
         /\ "additionalComboBox" \in DOMAIN values <=> a = 1
         /\ "additionalCheckBox" \in DOMAIN values <=> b = 1
         /\ holder = "deviceAgent" => "activeCheckBoxForValueSetChange" \in NamesOf(a, b)
                                      /\ "comboBoxForValueSetChange" \in NamesOf(a, b)
  <1>1. IsFunction(values) /\ DOMAIN values \ {Flow} = NamesOf(a, b)
    BY DEF ValuesAreSound
  <1> DEFINE D == DOMAIN values
  <1> HIDE DEF D
  <1>2. \A name \in NamesOf(a, b) : name \in D
    BY <1>1 DEF D
  <1>3. "additionalComboBox" \in NamesOf(a, b) <=> a = 1
    BY DEF NamesOf, ManifestNames
  <1>4. "additionalCheckBox" \in NamesOf(a, b) <=> b = 1
    BY DEF NamesOf, ManifestNames
  <1>5. D \ {Flow} = NamesOf(a, b)
    BY <1>1 DEF D
  <1>6. "additionalComboBox" \in D <=> a = 1
    BY <1>3, <1>5 DEF Flow
  <1>7. "additionalCheckBox" \in D <=> b = 1
    BY <1>4, <1>5 DEF Flow
  <1>8. /\ "activeComboBox" \in NamesOf(a, b) /\ "activeCheckBox" \in NamesOf(a, b)
        /\ "activeRadioButtonGroup" \in NamesOf(a, b)
        /\ "activeMinValue" \in NamesOf(a, b) /\ "activeMaxValue" \in NamesOf(a, b)
        /\ holder = "deviceAgent" => "activeCheckBoxForValueSetChange" \in NamesOf(a, b)
                                     /\ "comboBoxForValueSetChange" \in NamesOf(a, b)
    BY DEF NamesOf, ManifestNames
  <1> QED
    BY <1>1, <1>2, <1>6, <1>7, <1>8 DEF Given, D

(* What is not there need not be taken away, and what is there need not be *)
(* given its default.                                                      *)
LEMMA ValuesKept ==
  ASSUME NEW a \in {0, 1}, NEW b \in {0, 1}, NEW values, ValuesAreSound(a, b, values)
  PROVE  /\ a = 1 => WithDefault(values, "additionalComboBox") = values
         /\ a = 0 => Without(values, "additionalComboBox") = values
         /\ b = 1 => WithDefault(values, "additionalCheckBox") = values
         /\ b = 0 => Without(values, "additionalCheckBox") = values
  <1>1. IsFunction(values)
    BY DEF ValuesAreSound
  <1>2. ASSUME NEW name, name \notin DOMAIN values PROVE Without(values, name) = values
    <2>1. DOMAIN values \ {name} = DOMAIN values
      BY <1>2
    <2> QED
      BY <1>1, <2>1 DEF Without, Restrict, IsFunction
  <1>3. ASSUME NEW name, name \in DOMAIN values PROVE WithDefault(values, name) = values
    BY <1>3 DEF WithDefault
  <1>4. /\ "additionalComboBox" \in DOMAIN values <=> a = 1
        /\ "additionalCheckBox" \in DOMAIN values <=> b = 1
    BY NamesGiven
  <1> QED
    BY <1>2, <1>3, <1>4

(* The second Flow item changes nothing more.                              *)
LEMMA FlowTwice ==
  ASSUME NEW values
  PROVE  WithFlow(WithFlow(values)) = WithFlow(values)
  BY DEF WithFlow, WithValue

(* The stages follow one another.                                          *)
LEMMA StageOfCombo ==
  ASSUME NEW a \in {0, 1}, NEW b \in {0, 1}, NEW values, ValuesAreSound(a, b, values)
  PROVE  NextStage(Stage(0, a, b, values), "activeComboBox") = Stage(1, a, b, values)
  <1> DEFINE P == {"Permanent", "Optional"}
             Combo(x) == SectionOf(x, 0, BaseButtons, P, Middle, Middle, values)
  <1>1. Stage(0, a, b, values) = Combo(0) /\ Stage(1, a, b, values) = Combo(a)
    BY DEF Stage
  <1>2. Given(values, "activeComboBox") /\ (AsksForCombo(values) <=> a = 1)
    BY NamesGiven DEF ValuesAreSound, ChoicesAreSound
  <1>3. UpdateSettings(Combo(0), "activeComboBox")
          = IF AsksForCombo(values)
            THEN SectionOf(1, 0, BaseButtons, P, Middle, Middle,
                           WithDefault(values, "additionalComboBox"))
            ELSE SectionOf(0, 0, BaseButtons, P, Middle, Middle,
                           Without(values, "additionalComboBox"))
    <2> HIDE DEF P
    <2> QED
      BY <1>2, RuleOfComboBox
  <1>4. UpdateSettings(Combo(0), "activeComboBox") = Combo(a)
    <2> HIDE DEF P
    <2>1. CASE a = 1
      BY <1>2, <1>3, <2>1, ValuesKept
    <2>2. CASE a = 0
      BY <1>2, <1>3, <2>2, ValuesKept
    <2> QED
      BY <2>1, <2>2
  <1>5. IsUpdated("activeComboBox")
    BY DEF IsUpdated, ActiveItems
  <1> QED
    BY <1>1, <1>4, <1>5 DEF NextStage

(* The second item of the manifest is "activeCheckBox".                    *)
LEMMA StageOfCheck ==
  ASSUME NEW a \in {0, 1}, NEW b \in {0, 1}, NEW values, ValuesAreSound(a, b, values)
  PROVE  NextStage(Stage(1, a, b, values), "activeCheckBox") = Stage(2, a, b, values)
  <1> DEFINE P == {"Permanent", "Optional"}
             Check(x) == SectionOf(a, x, BaseButtons, P, Middle, Middle, values)
  <1>1. Stage(1, a, b, values) = Check(0) /\ Stage(2, a, b, values) = Check(b)
    BY DEF Stage
  <1>2. Given(values, "activeCheckBox") /\ (AsksForCheck(values) <=> b = 1)
    BY NamesGiven DEF ValuesAreSound, ChoicesAreSound
  <1>3. UpdateSettings(Check(0), "activeCheckBox")
          = IF AsksForCheck(values)
            THEN SectionOf(a, 1, BaseButtons, P, Middle, Middle,
                           WithDefault(values, "additionalCheckBox"))
            ELSE SectionOf(a, 0, BaseButtons, P, Middle, Middle,
                           Without(values, "additionalCheckBox"))
    <2> HIDE DEF P
    <2> QED
      BY <1>2, RuleOfCheckBox
  <1>4. UpdateSettings(Check(0), "activeCheckBox") = Check(b)
    <2> HIDE DEF P
    <2>1. CASE b = 1
      BY <1>2, <1>3, <2>1, ValuesKept
    <2>2. CASE b = 0
      BY <1>2, <1>3, <2>2, ValuesKept
    <2> QED
      BY <2>1, <2>2
  <1>5. IsUpdated("activeCheckBox")
    BY DEF IsUpdated, ActiveItems
  <1> QED
    BY <1>1, <1>4, <1>5 DEF NextStage

(* The third item of the manifest is the group of radio buttons.           *)
LEMMA StageOfButtons ==
  ASSUME NEW a \in {0, 1}, NEW b \in {0, 1}, NEW values, ValuesAreSound(a, b, values)
  PROVE  NextStage(Stage(2, a, b, values), "activeRadioButtonGroup") = Stage(3, a, b, values)
  <1> DEFINE P == {"Permanent", "Optional"}
             Radio(x) == SectionOf(a, b, x, P, Middle, Middle, values)
  <1>1. Stage(2, a, b, values) = Radio(BaseButtons)
        /\ Stage(3, a, b, values) = Radio(ButtonsFor(values))
    BY DEF Stage
  <1>2. Given(values, "activeRadioButtonGroup")
    BY NamesGiven
  <1>3. ASSUME NEW x, NEW y
        PROVE  UpdateSettings(SectionOf(x, y, BaseButtons, P, Middle, Middle, values),
                              "activeRadioButtonGroup")
          = IF ChosenButton(values) = "Show something"
            THEN SectionOf(x, y, WithHideMe(BaseButtons), P, Middle, Middle, values)
            ELSE IF ChosenButton(values) = "Hide me"
            THEN SectionOf(x, y, WithoutHideMe(BaseButtons), P, Middle, Middle,
                           WithValue(values, "activeRadioButtonGroup", "Some value"))
            ELSE SectionOf(x, y, BaseButtons, P, Middle, Middle, values)
    <2> HIDE DEF P
    <2> QED
      BY <1>2, RuleOfButtons
  <1>4. ChosenButton(values) # "Hide me"
    BY DEF ChosenButton, BaseButtons, ValuesAreSound, ChoicesAreSound
  <1>5. IsUpdated("activeRadioButtonGroup")
    BY DEF IsUpdated, ActiveItems
  <1>6. UpdateSettings(Radio(BaseButtons), "activeRadioButtonGroup")
          = IF ChosenButton(values) = "Show something"
            THEN Radio(WithHideMe(BaseButtons)) ELSE Radio(BaseButtons)
    <2> HIDE DEF P
    <2> QED
      BY <1>3, <1>4
  <1> HIDE DEF Radio
  <1> QED
    BY <1>1, <1>6, <1>4, <1>5 DEF NextStage, ButtonsFor, WithHideMe

(* The fourth and the fifth are the spin boxes.                            *)
LEMMA StageOfLimits ==
  ASSUME NEW a \in {0, 1}, NEW b \in {0, 1}, NEW values, ValuesAreSound(a, b, values)
  PROVE  /\ NextStage(Stage(3, a, b, values), "activeMinValue") = Stage(4, a, b, values)
         /\ NextStage(Stage(4, a, b, values), "activeMaxValue") = Stage(5, a, b, values)
  <1> DEFINE P == {"Permanent", "Optional"}
             B == ButtonsFor(values)
             Limits(x, y) == SectionOf(a, b, B, P, x, y, values)
             Limited == Limits(values["activeMaxValue"], values["activeMinValue"])
  <1>1. /\ Stage(3, a, b, values) = Limits(Middle, Middle)
        /\ Stage(4, a, b, values) = Limited /\ Stage(5, a, b, values) = Limited
    BY DEF Stage
  <1>2. Given(values, "activeMinValue") /\ Given(values, "activeMaxValue")
    BY NamesGiven
  <1>3. ASSUME NEW x, NEW y
        PROVE  /\ UpdateSettings(Limits(x, y), "activeMinValue") = Limited
               /\ UpdateSettings(Limits(x, y), "activeMaxValue") = Limited
    <2> HIDE DEF P, B
    <2> QED
      BY <1>2, RuleOfLimits
  <1>4. IsUpdated("activeMinValue") /\ IsUpdated("activeMaxValue")
    BY DEF IsUpdated, ActiveItems
  <1>5. /\ UpdateSettings(Limits(Middle, Middle), "activeMinValue") = Limited
        /\ UpdateSettings(Limited, "activeMaxValue") = Limited
    BY <1>3
  <1> HIDE DEF Limits, Limited
  <1> QED
    BY <1>1, <1>4, <1>5 DEF NextStage

(* The sixth and the seventh are Flow items.                               *)
LEMMA StageOfFlow ==
  ASSUME NEW a \in {0, 1}, NEW b \in {0, 1}, NEW values,
         holder \in {"deviceAgent", "engine"}
  PROVE  /\ NextStage(Stage(5, a, b, values), Flow) = Stage(6, a, b, values)
         /\ NextStage(Stage(6, a, b, values), Flow) = Stage(7, a, b, values)
  <1> DEFINE P == {"Permanent", "Optional"}
             B == ButtonsFor(values)
             Flowed(x) == SectionOf(a, b, B, P, values["activeMaxValue"],
                                    values["activeMinValue"], x)
  <1>1. /\ Stage(5, a, b, values) = Flowed(values)
        /\ Stage(6, a, b, values)
             = Flowed(IF holder = "engine" THEN WithFlow(values) ELSE values)
        /\ Stage(7, a, b, values)
             = Flowed(IF holder = "engine" THEN WithFlow(values) ELSE values)
    BY DEF Stage
  <1>2. ASSUME NEW x PROVE UpdateSettings(Flowed(x), Flow) = Flowed(WithFlow(x))
    <2> DEFINE top == values["activeMaxValue"]
               bottom == values["activeMinValue"]
    <2> HIDE DEF P, B, top, bottom
    <2>1. UpdateSettings(SectionOf(a, b, B, P, top, bottom, x), Flow)
            = SectionOf(a, b, B, P, top, bottom, WithFlow(x))
      BY RuleOfFlow
    <2> QED
      BY <2>1 DEF top, bottom
  <1>3. IsUpdated(Flow) <=> holder = "engine"
    BY DEF IsUpdated, ActiveItems, Flow
  <1>4. /\ UpdateSettings(Flowed(values), Flow) = Flowed(WithFlow(values))
        /\ UpdateSettings(Flowed(WithFlow(values)), Flow) = Flowed(WithFlow(values))
    BY <1>2, FlowTwice
  <1> HIDE DEF Flowed
  <1> QED
    BY <1>1, <1>3, <1>4 DEF NextStage

(* The last two are of a Device Agent only.                                *)
LEMMA StageOfValueSet ==
  ASSUME NEW a \in {0, 1}, NEW b \in {0, 1}, NEW values, ValuesAreSound(a, b, values),
         holder = "deviceAgent"
  PROVE  /\ NextStage(Stage(7, a, b, values), "activeCheckBoxForValueSetChange")
              = Stage(8, a, b, values)
         /\ NextStage(Stage(8, a, b, values), "comboBoxForValueSetChange")
              = Stage(9, a, b, values)
  <1> DEFINE box == values["activeCheckBoxForValueSetChange"]
             top == values["activeMaxValue"]
             bottom == values["activeMinValue"]
             B == ButtonsFor(values)
             Offers(x) == SectionOf(a, b, B, x, top, bottom, values)
  <1>1. /\ Stage(7, a, b, values) = Offers({"Permanent", "Optional"})
        /\ Stage(8, a, b, values) = Offers(ValueSetFor(values))
        /\ Stage(9, a, b, values) = Offers(ValueSetFor(values))
    BY DEF Stage
  <1>2. /\ Given(values, "activeCheckBoxForValueSetChange")
        /\ Given(values, "comboBoxForValueSetChange")
        /\ box \in {"true", "false"} /\ values["comboBoxForValueSetChange"] \in ValueSetFor(values)
    BY NamesGiven DEF ValuesAreSound, ChoicesAreSound
  <1>3. UpdateSettings(Offers({"Permanent", "Optional"}), "activeCheckBoxForValueSetChange")
          = IF box = "true" THEN Offers({"Permanent", "Optional"})
            ELSE IF box = "false"
            THEN SectionOf(a, b, B, {"Permanent"}, top, bottom,
                           WithValue(values, "comboBoxForValueSetChange", "Permanent"))
            ELSE Offers({"Permanent", "Optional"})
    <2> DEFINE P == {"Permanent", "Optional"}
    <2> HIDE DEF P, B, top, bottom
    <2> QED
      BY <1>2, RuleOfValueSet DEF P
  <1>4. box = "false" =>
          WithValue(values, "comboBoxForValueSetChange", "Permanent") = values
    <2> SUFFICES ASSUME box = "false"
                 PROVE  WithValue(values, "comboBoxForValueSetChange", "Permanent") = values
      OBVIOUS
    <2>1. values["comboBoxForValueSetChange"] = "Permanent"
      BY <1>2 DEF ValueSetFor
    <2>2. WithValue(values, "comboBoxForValueSetChange", values["comboBoxForValueSetChange"])
            = values
      BY <1>2, ValueKept DEF Given
    <2> QED
      BY <2>1, <2>2
  <1>5. /\ IsUpdated("activeCheckBoxForValueSetChange")
        /\ ~IsUpdated("comboBoxForValueSetChange")
    BY DEF IsUpdated, ActiveItems
  <1>6. UpdateSettings(Offers({"Permanent", "Optional"}), "activeCheckBoxForValueSetChange")
          = Offers(ValueSetFor(values))
    BY <1>2, <1>3, <1>4 DEF ValueSetFor
  <1> HIDE DEF Offers
  <1> QED
    BY <1>1, <1>5, <1>6 DEF NextStage

(* The items of the manifest in turn.                                      *)
LEMMA StagesFollow ==
  ASSUME NEW a \in {0, 1}, NEW b \in {0, 1}, NEW values, ValuesAreSound(a, b, values),
         holder \in {"deviceAgent", "engine"}, NEW i \in 1..Len(FreshItems)
  PROVE  NextStage(Stage(i - 1, a, b, values), FreshItems[i]) = Stage(i, a, b, values)
  <1> DEFINE S(j) == Stage(j, a, b, values)
             F == FreshItems
  <1>1. /\ NextStage(S(0), F[1]) = S(1) /\ NextStage(S(1), F[2]) = S(2)
        /\ NextStage(S(2), F[3]) = S(3) /\ NextStage(S(3), F[4]) = S(4)
        /\ NextStage(S(4), F[5]) = S(5)
    <2> HIDE DEF S
    <2>1. /\ F[1] = "activeComboBox" /\ F[2] = "activeCheckBox"
          /\ F[3] = "activeRadioButtonGroup"
          /\ F[4] = "activeMinValue" /\ F[5] = "activeMaxValue"
      BY FreshIs
    <2> HIDE DEF F
    <2>2. NextStage(S(0), "activeComboBox") = S(1)
      BY StageOfCombo DEF S
    <2>3. NextStage(S(1), "activeCheckBox") = S(2)
      BY StageOfCheck DEF S
    <2>4. NextStage(S(2), "activeRadioButtonGroup") = S(3)
      BY StageOfButtons DEF S
    <2>5. NextStage(S(3), "activeMinValue") = S(4) /\ NextStage(S(4), "activeMaxValue") = S(5)
      BY StageOfLimits DEF S
    <2> QED
      BY <2>1, <2>2, <2>3, <2>4, <2>5
  <1>2. NextStage(S(5), F[6]) = S(6) /\ NextStage(S(6), F[7]) = S(7)
    <2>1. F[6] = Flow /\ F[7] = Flow
      BY FreshIs
    <2> HIDE DEF F
    <2>2. NextStage(S(5), Flow) = S(6) /\ NextStage(S(6), Flow) = S(7)
      BY StageOfFlow
    <2> QED
      BY <2>1, <2>2
  <1>3. holder = "deviceAgent" => NextStage(S(7), F[8]) = S(8) /\ NextStage(S(8), F[9]) = S(9)
    <2> SUFFICES ASSUME holder = "deviceAgent"
                 PROVE  NextStage(S(7), F[8]) = S(8) /\ NextStage(S(8), F[9]) = S(9)
      OBVIOUS
    <2>1. F[8] = "activeCheckBoxForValueSetChange" /\ F[9] = "comboBoxForValueSetChange"
      BY FreshIs
    <2> HIDE DEF F
    <2>2. /\ NextStage(S(7), "activeCheckBoxForValueSetChange") = S(8)
          /\ NextStage(S(8), "comboBoxForValueSetChange") = S(9)
      BY StageOfValueSet
    <2> QED
      BY <2>1, <2>2
  <1>4. \/ i = 1 \/ i = 2 \/ i = 3 \/ i = 4 \/ i = 5 \/ i = 6 \/ i = 7
        \/ holder = "deviceAgent" /\ (i = 8 \/ i = 9)
    BY FreshIs
  <1> HIDE DEF S, F
  <1>5. NextStage(S(i - 1), F[i]) = S(i)
    <2>1. /\ 1 - 1 = 0 /\ 2 - 1 = 1 /\ 3 - 1 = 2 /\ 4 - 1 = 3 /\ 5 - 1 = 4
          /\ 6 - 1 = 5 /\ 7 - 1 = 6 /\ 8 - 1 = 7 /\ 9 - 1 = 8
      OBVIOUS
    <2> QED
      BY <1>1, <1>2, <1>3, <1>4, <2>1
  <1> QED
    BY <1>5 DEF S, F

(* processActiveSettings() of sound values.                                *)
Remade(a, b, values) ==
  SectionOf(a, b, ButtonsFor(values), ValueSetFor(values), values["activeMaxValue"],
            values["activeMinValue"],
            IF holder = "engine" THEN WithFlow(values) ELSE values)

(* The rules applied in turn to the manifest make what the values ask for. *)
LEMMA RebuiltIs ==
  ASSUME NEW a \in {0, 1}, NEW b \in {0, 1}, NEW values, ValuesAreSound(a, b, values),
         holder \in {"deviceAgent", "engine"}
  PROVE  Rebuilt(values) = Remade(a, b, values)
  <1> DEFINE n == Len(FreshItems)
             S == [i \in 0..n |-> Stage(i, a, b, values)]
             Solves(f) == f = [i \in 0..n |-> IF i = 0 THEN FreshSection(values)
                                              ELSE NextStage(f[i - 1], FreshItems[i])]
             f == CHOOSE g : Solves(g)
  <1>1. n \in {7, 9} /\ n = IF holder = "deviceAgent" THEN 9 ELSE 7
    BY FreshIs
  <1>2. Rebuilt(values) = f[n]
    BY DEF Rebuilt, NextStage, IsUpdated
  <1>3. Solves(S)
    <2>1. S[0] = FreshSection(values)
      BY <1>1, FirstStage
    <2>2. ASSUME NEW i \in 0..n, i # 0
          PROVE  S[i] = NextStage(S[i - 1], FreshItems[i])
      <3>1. i \in 1..n /\ i - 1 \in 0..n
        BY <1>1, <2>2
      <3>2. NextStage(Stage(i - 1, a, b, values), FreshItems[i]) = Stage(i, a, b, values)
        BY <3>1, StagesFollow
      <3> QED
        BY <3>1, <3>2
    <2> QED
      BY <2>1, <2>2
  <1>4. Solves(f)
    <2> HIDE DEF Solves, S
    <2> QED
      BY <1>3
  <1>5. f[0] = Stage(0, a, b, values)
    <2>1. 0 \in 0..n
      BY <1>1
    <2>2. f[0] = FreshSection(values)
      <3> HIDE DEF f
      <3> QED
        BY <1>4, <2>1
    <2> QED
      BY <2>2, FirstStage
  <1>6. ASSUME NEW i \in 1..n, f[i - 1] = Stage(i - 1, a, b, values)
        PROVE  f[i] = Stage(i, a, b, values)
    <2>1. i \in 0..n /\ i # 0
      BY <1>1
    <2>2. f[i] = NextStage(f[i - 1], FreshItems[i])
      <3> HIDE DEF f
      <3> QED
        BY <1>4, <2>1
    <2>3. NextStage(Stage(i - 1, a, b, values), FreshItems[i]) = Stage(i, a, b, values)
      BY StagesFollow
    <2> QED
      BY <1>6, <2>2, <2>3
  <1> DEFINE Reached(i) == f[i] = Stage(i, a, b, values)
  <1>7. Reached(0) /\ \A i \in 1..n : Reached(i - 1) => Reached(i)
    BY <1>5, <1>6
  <1> HIDE DEF f, Reached, n
  <1>8. /\ Reached(1 - 1) => Reached(1)
        /\ Reached(2 - 1) => Reached(2)
        /\ Reached(3 - 1) => Reached(3)
        /\ Reached(4 - 1) => Reached(4)
        /\ Reached(5 - 1) => Reached(5)
        /\ Reached(6 - 1) => Reached(6)
        /\ Reached(7 - 1) => Reached(7)
        /\ n = 9 => (Reached(8 - 1) => Reached(8)) /\ (Reached(9 - 1) => Reached(9))
    <2>1. /\ 1 \in 1..n /\ 2 \in 1..n /\ 3 \in 1..n /\ 4 \in 1..n /\ 5 \in 1..n
          /\ 6 \in 1..n /\ 7 \in 1..n /\ (n = 9 => 8 \in 1..n /\ 9 \in 1..n)
      BY <1>1
    <2> QED
      BY <1>7, <2>1
  <1>9. Reached(7) /\ (n = 9 => Reached(9))
    <2>1. /\ 1 - 1 = 0 /\ 2 - 1 = 1 /\ 3 - 1 = 2 /\ 4 - 1 = 3 /\ 5 - 1 = 4
          /\ 6 - 1 = 5 /\ 7 - 1 = 6 /\ 8 - 1 = 7 /\ 9 - 1 = 8
      OBVIOUS
    <2> QED
      BY <1>7, <1>8, <2>1
  <1>10. f[n] = Stage(n, a, b, values)
    BY <1>1, <1>9 DEF Reached
  <1>11. Stage(n, a, b, values) = Remade(a, b, values)
    <2>1. holder = "engine" => ValueSetFor(values) = {"Permanent", "Optional"}
      BY DEF ValueSetFor
    <2>2. CASE holder = "deviceAgent"
      <3>1. n = 9
        BY <1>1, <2>2
      <3> QED
        BY <2>2, <3>1 DEF Stage, Remade
    <2>3. CASE holder = "engine"
      <3>1. n = 7
        BY <1>1, <2>3
      <3> QED
        BY <2>1, <2>3, <3>1 DEF Stage, Remade
    <2> QED
      BY <2>2, <2>3
  <1> QED
    BY <1>2, <1>10, <1>11

----------------------------------------------------------------------------
(* The inductive invariant of the dialog: it is the one that its values    *)
(* lead to, but for a button that waits to be hidden.                      *)
SoundSection(a, b, buttons, values) ==
  SectionOf(a, b, buttons, ValueSetFor(values), values["activeMaxValue"],
            values["activeMinValue"], values)

SoundButtons == {BaseButtons, BaseButtons \union {"Hide me"}}

IsSound(section) ==
  \E a \in {0, 1}, b \in {0, 1}, buttons \in SoundButtons :
    /\ ValuesAreSound(a, b, section.values)
    /\ section = SoundSection(a, b, buttons, section.values)

ActiveIInv == holder \in {"deviceAgent", "engine"} /\ IsSound(dialog)

(* A section of sound values, with either set of buttons, is sound.        *)
LEMMA SoundIs ==
  ASSUME NEW a \in {0, 1}, NEW b \in {0, 1}, NEW buttons \in SoundButtons, NEW values,
         ValuesAreSound(a, b, values)
  PROVE  IsSound(SoundSection(a, b, buttons, values))
  <1>1. SoundSection(a, b, buttons, values).values = values
    BY DEF SoundSection, SectionOf
  <1> QED
    BY <1>1 DEF IsSound

(* Values that are edited, as a user does it and as the rules do.          *)
Edited(values, name, v) == [values EXCEPT ![name] = v]

(* What editing leaves as it is.                                           *)
LEMMA EditedIs ==
  ASSUME NEW values, IsFunction(values), NEW name \in DOMAIN values, NEW v
  PROVE  /\ IsFunction(Edited(values, name, v))
         /\ DOMAIN Edited(values, name, v) = DOMAIN values
         /\ Edited(values, name, v)[name] = v
         /\ \A n \in DOMAIN values : n # name => Edited(values, name, v)[n] = values[n]
  BY DEF Edited, IsFunction

IsGivenValue(other, values, name, v) ==
  /\ IsFunction(other) /\ DOMAIN other = DOMAIN values \union {name} /\ other[name] = v
  /\ \A n \in DOMAIN values : n # name => other[n] = values[n]

(* WithValue() adds or replaces one value.                                 *)
LEMMA WithValueIs ==
  ASSUME NEW values, IsFunction(values), NEW name, NEW v
  PROVE  IsGivenValue(WithValue(values, name, v), values, name, v)
  BY DEF WithValue, IsFunction, IsGivenValue

(* Without() takes away one value.                                         *)
LEMMA WithoutIs ==
  ASSUME NEW values, NEW name
  PROVE  /\ IsFunction(Without(values, name))
         /\ DOMAIN Without(values, name) = DOMAIN values \ {name}
         /\ \A n \in DOMAIN values : n # name => Without(values, name)[n] = values[n]
  BY DEF Without, Restrict, IsFunction

(* Values that differ in one setting only.                                 *)
SameBut(other, values, a, b, name) ==
  \A n \in NamesOf(a, b) : n # name => other[n] = values[n]

(* The items that have no rule, and what may be chosen in them.            *)
PlainNames == {"comboBoxForValueSetChange", "additionalComboBox", "additionalCheckBox"}

PlainChoices(name, values) ==
  IF name = "comboBoxForValueSetChange" THEN ValueSetFor(values)
  ELSE IF name = "additionalComboBox" THEN {"Value 1", "Value 2"} ELSE {"true", "false"}

(* The choices and limits depend on the values of the names shown.         *)
LEMMA SoundnessKept ==
  ASSUME NEW a \in {0, 1}, NEW b \in {0, 1}, NEW values, ValuesAreSound(a, b, values),
         NEW other, NEW name \in PlainNames, name \in NamesOf(a, b),
         SameBut(other, values, a, b, name), IsFunction(other), DOMAIN other = DOMAIN values,
         other[name] \in PlainChoices(name, values)
  PROVE  ValuesAreSound(a, b, other) /\ ValueSetFor(other) = ValueSetFor(values)
  <1>1. /\ "activeComboBox" \in NamesOf(a, b) /\ "activeCheckBox" \in NamesOf(a, b)
        /\ "activeRadioButtonGroup" \in NamesOf(a, b)
        /\ "activeMinValue" \in NamesOf(a, b) /\ "activeMaxValue" \in NamesOf(a, b)
        /\ holder = "deviceAgent" => "activeCheckBoxForValueSetChange" \in NamesOf(a, b)
                                     /\ "comboBoxForValueSetChange" \in NamesOf(a, b)
        /\ a = 1 => "additionalComboBox" \in NamesOf(a, b)
        /\ b = 1 => "additionalCheckBox" \in NamesOf(a, b)
    BY DEF NamesOf, ManifestNames
  <1>2. /\ other["activeComboBox"] = values["activeComboBox"]
        /\ other["activeCheckBox"] = values["activeCheckBox"]
        /\ other["activeRadioButtonGroup"] = values["activeRadioButtonGroup"]
        /\ other["activeMinValue"] = values["activeMinValue"]
        /\ other["activeMaxValue"] = values["activeMaxValue"]
        /\ holder = "deviceAgent" => other["activeCheckBoxForValueSetChange"]
                                       = values["activeCheckBoxForValueSetChange"]
    BY <1>1 DEF SameBut, PlainNames
  <1>3. /\ name # "comboBoxForValueSetChange" /\ holder = "deviceAgent" =>
             other["comboBoxForValueSetChange"] = values["comboBoxForValueSetChange"]
        /\ name # "additionalComboBox" /\ a = 1 =>
             other["additionalComboBox"] = values["additionalComboBox"]
        /\ name # "additionalCheckBox" /\ b = 1 =>
             other["additionalCheckBox"] = values["additionalCheckBox"]
    BY <1>1 DEF SameBut
  <1>4. ValueSetFor(other) = ValueSetFor(values)
    BY <1>2 DEF ValueSetFor
  <1>5. ChoicesAreSound(a, b, values) /\ LimitsAreSound(values)
        /\ DOMAIN values \ {Flow} = NamesOf(a, b)
    BY DEF ValuesAreSound
  <1>6. LimitsAreSound(other)
    BY <1>2, <1>5 DEF LimitsAreSound
  <1>7. ChoicesAreSound(a, b, other)
    <2>1. /\ AsksForCombo(other) <=> a = 1
          /\ AsksForCheck(other) <=> b = 1
          /\ other["activeComboBox"] \in {"Some value", "Show additional ComboBox"}
          /\ other["activeCheckBox"] \in {"true", "false"}
          /\ other["activeRadioButtonGroup"] \in BaseButtons
      BY <1>2, <1>5 DEF ChoicesAreSound, AsksForCombo, AsksForCheck
    <2>2. a = 1 => other["additionalComboBox"] \in {"Value 1", "Value 2"}
      BY <1>3, <1>5 DEF ChoicesAreSound, PlainChoices, PlainNames
    <2>3. b = 1 => other["additionalCheckBox"] \in {"true", "false"}
      BY <1>3, <1>5 DEF ChoicesAreSound, PlainChoices, PlainNames
    <2>4. holder = "deviceAgent" =>
            /\ other["activeCheckBoxForValueSetChange"] \in {"true", "false"}
            /\ other["comboBoxForValueSetChange"] \in ValueSetFor(other)
      BY <1>2, <1>3, <1>4, <1>5 DEF ChoicesAreSound, PlainChoices, PlainNames
    <2> QED
      BY <2>1, <2>2, <2>3, <2>4 DEF ChoicesAreSound
  <1> QED
    BY <1>4, <1>5, <1>6, <1>7 DEF ValuesAreSound

(* The names whose values the choices and limits are about.                *)
LEMMA NamesShown ==
  ASSUME NEW a \in {0, 1}, NEW b \in {0, 1}
  PROVE  /\ "activeComboBox" \in NamesOf(a, b) /\ "activeCheckBox" \in NamesOf(a, b)
         /\ "activeRadioButtonGroup" \in NamesOf(a, b)
         /\ "activeMinValue" \in NamesOf(a, b) /\ "activeMaxValue" \in NamesOf(a, b)
         /\ holder = "deviceAgent" => "activeCheckBoxForValueSetChange" \in NamesOf(a, b)
                                      /\ "comboBoxForValueSetChange" \in NamesOf(a, b)
         /\ a = 1 => "additionalComboBox" \in NamesOf(a, b)
         /\ b = 1 => "additionalCheckBox" \in NamesOf(a, b)
         /\ Flow \notin NamesOf(a, b)
  BY DEF NamesOf, ManifestNames, Flow

(* The rules keep the choices for the other items.                         *)
SameLimits(other, values) ==
  /\ ValueSetFor(other) = ValueSetFor(values)
  /\ other["activeMinValue"] = values["activeMinValue"]
  /\ other["activeMaxValue"] = values["activeMaxValue"]

(* Values are sound after a change of "activeComboBox" and its rule.       *)
LEMMA ComboIsSound ==
  ASSUME NEW a \in {0, 1}, NEW b \in {0, 1}, NEW c \in {0, 1}, NEW values,
         ValuesAreSound(a, b, values), NEW other, IsFunction(other),
         DOMAIN other \ {Flow} = NamesOf(c, b),
         SameBut(other, values, 0, b, "activeComboBox"),
         other["activeComboBox"]
           = IF c = 1 THEN "Show additional ComboBox" ELSE "Some value",
         c = 1 => other["additionalComboBox"] \in {"Value 1", "Value 2"}
  PROVE  ValuesAreSound(c, b, other) /\ SameLimits(other, values)
  <1>2. /\ other["activeCheckBox"] = values["activeCheckBox"]
        /\ other["activeRadioButtonGroup"] = values["activeRadioButtonGroup"]
        /\ other["activeMinValue"] = values["activeMinValue"]
        /\ other["activeMaxValue"] = values["activeMaxValue"]
        /\ holder = "deviceAgent" =>
             /\ other["activeCheckBoxForValueSetChange"]
                  = values["activeCheckBoxForValueSetChange"]
             /\ other["comboBoxForValueSetChange"] = values["comboBoxForValueSetChange"]
        /\ b = 1 => other["additionalCheckBox"] = values["additionalCheckBox"]
    BY NamesShown DEF SameBut
  <1>4. ValueSetFor(other) = ValueSetFor(values)
    BY <1>2 DEF ValueSetFor
  <1>5. ChoicesAreSound(a, b, values) /\ LimitsAreSound(values)
    BY DEF ValuesAreSound
  <1>6. LimitsAreSound(other)
    BY <1>2, <1>5 DEF LimitsAreSound
  <1>7. ChoicesAreSound(c, b, other)
    <2>1. /\ AsksForCheck(other) <=> b = 1
          /\ other["activeCheckBox"] \in {"true", "false"}
          /\ other["activeRadioButtonGroup"] \in BaseButtons
      BY <1>2, <1>5 DEF ChoicesAreSound, AsksForCheck
    <2>2. /\ AsksForCombo(other) <=> c = 1
          /\ other["activeComboBox"] \in {"Some value", "Show additional ComboBox"}
      BY DEF AsksForCombo
    <2>3. b = 1 => other["additionalCheckBox"] \in {"true", "false"}
      BY <1>2, <1>5 DEF ChoicesAreSound
    <2>4. holder = "deviceAgent" =>
            /\ other["activeCheckBoxForValueSetChange"] \in {"true", "false"}
            /\ other["comboBoxForValueSetChange"] \in ValueSetFor(other)
      BY <1>2, <1>4, <1>5 DEF ChoicesAreSound
    <2> QED
      BY <2>1, <2>2, <2>3, <2>4 DEF ChoicesAreSound
  <1> QED
    BY <1>2, <1>4, <1>6, <1>7 DEF ValuesAreSound, SameLimits

(* Values are sound after a change of "activeCheckBox" and its rule.       *)
LEMMA CheckIsSound ==
  ASSUME NEW a \in {0, 1}, NEW b \in {0, 1}, NEW c \in {0, 1}, NEW values,
         ValuesAreSound(a, b, values), NEW other, IsFunction(other),
         DOMAIN other \ {Flow} = NamesOf(a, c),
         SameBut(other, values, a, 0, "activeCheckBox"),
         other["activeCheckBox"] = IF c = 1 THEN "true" ELSE "false",
         c = 1 => other["additionalCheckBox"] \in {"true", "false"}
  PROVE  ValuesAreSound(a, c, other) /\ SameLimits(other, values)
  <1>2. /\ other["activeComboBox"] = values["activeComboBox"]
        /\ other["activeRadioButtonGroup"] = values["activeRadioButtonGroup"]
        /\ other["activeMinValue"] = values["activeMinValue"]
        /\ other["activeMaxValue"] = values["activeMaxValue"]
        /\ holder = "deviceAgent" =>
             /\ other["activeCheckBoxForValueSetChange"]
                  = values["activeCheckBoxForValueSetChange"]
             /\ other["comboBoxForValueSetChange"] = values["comboBoxForValueSetChange"]
        /\ a = 1 => other["additionalComboBox"] = values["additionalComboBox"]
    BY NamesShown DEF SameBut
  <1>4. ValueSetFor(other) = ValueSetFor(values)
    BY <1>2 DEF ValueSetFor
  <1>5. ChoicesAreSound(a, b, values) /\ LimitsAreSound(values)
    BY DEF ValuesAreSound
  <1>6. LimitsAreSound(other)
    BY <1>2, <1>5 DEF LimitsAreSound
  <1>7. ChoicesAreSound(a, c, other)
    <2>1. /\ AsksForCombo(other) <=> a = 1
          /\ other["activeComboBox"] \in {"Some value", "Show additional ComboBox"}
          /\ other["activeRadioButtonGroup"] \in BaseButtons
      BY <1>2, <1>5 DEF ChoicesAreSound, AsksForCombo
    <2>2. /\ AsksForCheck(other) <=> c = 1
          /\ other["activeCheckBox"] \in {"true", "false"}
      BY DEF AsksForCheck
    <2>3. a = 1 => other["additionalComboBox"] \in {"Value 1", "Value 2"}
      BY <1>2, <1>5 DEF ChoicesAreSound
    <2>4. holder = "deviceAgent" =>
            /\ other["activeCheckBoxForValueSetChange"] \in {"true", "false"}
            /\ other["comboBoxForValueSetChange"] \in ValueSetFor(other)
      BY <1>2, <1>4, <1>5 DEF ChoicesAreSound
    <2> QED
      BY <2>1, <2>2, <2>3, <2>4 DEF ChoicesAreSound
  <1> QED
    BY <1>2, <1>4, <1>6, <1>7 DEF ValuesAreSound, SameLimits

(* Values are sound after a change of the radio button.                    *)
LEMMA ButtonIsSound ==
  ASSUME NEW a \in {0, 1}, NEW b \in {0, 1}, NEW values,
         ValuesAreSound(a, b, values), NEW other, IsFunction(other),
         DOMAIN other = DOMAIN values,
         SameBut(other, values, a, b, "activeRadioButtonGroup"),
         ChosenButton(other) \in BaseButtons
  PROVE  ValuesAreSound(a, b, other) /\ SameLimits(other, values)
  <1>2. /\ other["activeComboBox"] = values["activeComboBox"]
        /\ other["activeCheckBox"] = values["activeCheckBox"]
        /\ other["activeMinValue"] = values["activeMinValue"]
        /\ other["activeMaxValue"] = values["activeMaxValue"]
        /\ holder = "deviceAgent" =>
             /\ other["activeCheckBoxForValueSetChange"]
                  = values["activeCheckBoxForValueSetChange"]
             /\ other["comboBoxForValueSetChange"] = values["comboBoxForValueSetChange"]
        /\ a = 1 => other["additionalComboBox"] = values["additionalComboBox"]
        /\ b = 1 => other["additionalCheckBox"] = values["additionalCheckBox"]
    BY NamesShown DEF SameBut
  <1>4. ValueSetFor(other) = ValueSetFor(values)
    BY <1>2 DEF ValueSetFor
  <1>5. ChoicesAreSound(a, b, values) /\ LimitsAreSound(values)
        /\ DOMAIN values \ {Flow} = NamesOf(a, b)
    BY DEF ValuesAreSound
  <1>6. LimitsAreSound(other)
    BY <1>2, <1>5 DEF LimitsAreSound
  <1>7. ChoicesAreSound(a, b, other)
    <2>1. /\ AsksForCombo(other) <=> a = 1
          /\ other["activeComboBox"] \in {"Some value", "Show additional ComboBox"}
      BY <1>2, <1>5 DEF ChoicesAreSound, AsksForCombo
    <2>2. /\ AsksForCheck(other) <=> b = 1
          /\ other["activeCheckBox"] \in {"true", "false"}
      BY <1>2, <1>5 DEF ChoicesAreSound, AsksForCheck
    <2>3. /\ a = 1 => other["additionalComboBox"] \in {"Value 1", "Value 2"}
          /\ b = 1 => other["additionalCheckBox"] \in {"true", "false"}
      BY <1>2, <1>5 DEF ChoicesAreSound
    <2>4. holder = "deviceAgent" =>
            /\ other["activeCheckBoxForValueSetChange"] \in {"true", "false"}
            /\ other["comboBoxForValueSetChange"] \in ValueSetFor(other)
      BY <1>2, <1>4, <1>5 DEF ChoicesAreSound
    <2> QED
      BY <2>1, <2>2, <2>3, <2>4 DEF ChoicesAreSound, ChosenButton
  <1> QED
    BY <1>2, <1>4, <1>5, <1>6, <1>7 DEF ValuesAreSound, SameLimits

(* Values are sound after a change of a limit within the other one.        *)
LEMMA LimitIsSound ==
  ASSUME NEW a \in {0, 1}, NEW b \in {0, 1}, NEW values,
         ValuesAreSound(a, b, values), NEW other, IsFunction(other),
         DOMAIN other = DOMAIN values, NEW name \in {"activeMinValue", "activeMaxValue"},
         SameBut(other, values, a, b, name), LimitsAreSound(other)
  PROVE  ValuesAreSound(a, b, other) /\ ValueSetFor(other) = ValueSetFor(values)
  <1>2. /\ other["activeComboBox"] = values["activeComboBox"]
        /\ other["activeCheckBox"] = values["activeCheckBox"]
        /\ other["activeRadioButtonGroup"] = values["activeRadioButtonGroup"]
        /\ holder = "deviceAgent" =>
             /\ other["activeCheckBoxForValueSetChange"]
                  = values["activeCheckBoxForValueSetChange"]
             /\ other["comboBoxForValueSetChange"] = values["comboBoxForValueSetChange"]
        /\ a = 1 => other["additionalComboBox"] = values["additionalComboBox"]
        /\ b = 1 => other["additionalCheckBox"] = values["additionalCheckBox"]
    BY NamesShown DEF SameBut
  <1>4. ValueSetFor(other) = ValueSetFor(values)
    BY <1>2 DEF ValueSetFor
  <1>5. ChoicesAreSound(a, b, values) /\ DOMAIN values \ {Flow} = NamesOf(a, b)
    BY DEF ValuesAreSound
  <1>7. ChoicesAreSound(a, b, other)
    <2>1. /\ AsksForCombo(other) <=> a = 1
          /\ other["activeComboBox"] \in {"Some value", "Show additional ComboBox"}
      BY <1>2, <1>5 DEF ChoicesAreSound, AsksForCombo
    <2>2. /\ AsksForCheck(other) <=> b = 1
          /\ other["activeCheckBox"] \in {"true", "false"}
      BY <1>2, <1>5 DEF ChoicesAreSound, AsksForCheck
    <2>3. /\ a = 1 => other["additionalComboBox"] \in {"Value 1", "Value 2"}
          /\ b = 1 => other["additionalCheckBox"] \in {"true", "false"}
          /\ other["activeRadioButtonGroup"] \in BaseButtons
      BY <1>2, <1>5 DEF ChoicesAreSound
    <2>4. holder = "deviceAgent" =>
            /\ other["activeCheckBoxForValueSetChange"] \in {"true", "false"}
            /\ other["comboBoxForValueSetChange"] \in ValueSetFor(other)
      BY <1>2, <1>4, <1>5 DEF ChoicesAreSound
    <2> QED
      BY <2>1, <2>2, <2>3, <2>4 DEF ChoicesAreSound
  <1> QED
    BY <1>4, <1>5, <1>7 DEF ValuesAreSound

(* The check box for the value set, with its combo box.                    *)
LEMMA ValueSetIsSound ==
  ASSUME NEW a \in {0, 1}, NEW b \in {0, 1}, NEW values,
         ValuesAreSound(a, b, values), NEW other, IsFunction(other),
         DOMAIN other = DOMAIN values, holder = "deviceAgent",
         \A n \in NamesOf(a, b) :
           n \notin {"activeCheckBoxForValueSetChange", "comboBoxForValueSetChange"} =>
             other[n] = values[n],
         other["activeCheckBoxForValueSetChange"] \in {"true", "false"},
         other["comboBoxForValueSetChange"] \in ValueSetFor(other)
  PROVE  /\ ValuesAreSound(a, b, other)
         /\ other["activeMinValue"] = values["activeMinValue"]
         /\ other["activeMaxValue"] = values["activeMaxValue"]
  <1>2. /\ other["activeComboBox"] = values["activeComboBox"]
        /\ other["activeCheckBox"] = values["activeCheckBox"]
        /\ other["activeRadioButtonGroup"] = values["activeRadioButtonGroup"]
        /\ other["activeMinValue"] = values["activeMinValue"]
        /\ other["activeMaxValue"] = values["activeMaxValue"]
        /\ a = 1 => other["additionalComboBox"] = values["additionalComboBox"]
        /\ b = 1 => other["additionalCheckBox"] = values["additionalCheckBox"]
    BY NamesShown
  <1>5. ChoicesAreSound(a, b, values) /\ LimitsAreSound(values)
        /\ DOMAIN values \ {Flow} = NamesOf(a, b)
    BY DEF ValuesAreSound
  <1>6. LimitsAreSound(other)
    BY <1>2, <1>5 DEF LimitsAreSound
  <1>7. ChoicesAreSound(a, b, other)
    <2>1. /\ AsksForCombo(other) <=> a = 1
          /\ other["activeComboBox"] \in {"Some value", "Show additional ComboBox"}
      BY <1>2, <1>5 DEF ChoicesAreSound, AsksForCombo
    <2>2. /\ AsksForCheck(other) <=> b = 1
          /\ other["activeCheckBox"] \in {"true", "false"}
      BY <1>2, <1>5 DEF ChoicesAreSound, AsksForCheck
    <2>3. /\ a = 1 => other["additionalComboBox"] \in {"Value 1", "Value 2"}
          /\ b = 1 => other["additionalCheckBox"] \in {"true", "false"}
          /\ other["activeRadioButtonGroup"] \in BaseButtons
      BY <1>2, <1>5 DEF ChoicesAreSound
    <2> QED
      BY <2>1, <2>2, <2>3 DEF ChoicesAreSound
  <1> QED
    BY <1>2, <1>5, <1>6, <1>7 DEF ValuesAreSound

(* The section of the dialog when a value in it has been edited.           *)
EditedSection(a, b, buttons, values, edited) ==
  SectionOf(a, b, buttons, ValueSetFor(values), values["activeMaxValue"],
            values["activeMinValue"], edited)

(* An edited section is sound when the edited values keep its limits.      *)
LEMMA EditedIsSound ==
  ASSUME NEW a \in {0, 1}, NEW b \in {0, 1}, NEW buttons \in SoundButtons, NEW values,
         NEW other, ValuesAreSound(a, b, other), SameLimits(other, values)
  PROVE  IsSound(EditedSection(a, b, buttons, values, other))
  <1>1. EditedSection(a, b, buttons, values, other) = SoundSection(a, b, buttons, other)
    BY DEF EditedSection, SoundSection, SameLimits
  <1> QED
    BY <1>1, SoundIs

(* What the user's editing of one setting changes and keeps.               *)
LEMMA EditedValues ==
  ASSUME NEW a \in {0, 1}, NEW b \in {0, 1}, NEW values, ValuesAreSound(a, b, values),
         NEW name \in NamesOf(a, b), NEW v
  PROVE  LET W == Edited(values, name, v)
         IN /\ IsFunction(W) /\ DOMAIN W = DOMAIN values /\ W[name] = v /\ Given(W, name)
            /\ SameBut(W, values, a, b, name)
            /\ \A n \in NamesOf(a, b) : n \in DOMAIN W
            /\ DOMAIN W \ {Flow} = NamesOf(a, b)
            /\ "additionalComboBox" \in DOMAIN W <=> a = 1
            /\ "additionalCheckBox" \in DOMAIN W <=> b = 1
  <1> DEFINE W == Edited(values, name, v)
  <1>1. \A n \in NamesOf(a, b) : Given(values, n)
    BY NamesGiven
  <1>2. IsFunction(values) /\ \A n \in NamesOf(a, b) : n \in DOMAIN values
    BY <1>1 DEF Given, ValuesAreSound
  <1>3. /\ IsFunction(W) /\ DOMAIN W = DOMAIN values /\ W[name] = v
        /\ \A n \in DOMAIN values : n # name => W[n] = values[n]
    BY <1>2, EditedIs
  <1>4. /\ "additionalComboBox" \in DOMAIN values <=> a = 1
        /\ "additionalCheckBox" \in DOMAIN values <=> b = 1
    BY NamesGiven
  <1>5. DOMAIN values \ {Flow} = NamesOf(a, b)
    BY DEF ValuesAreSound
  <1> HIDE DEF W
  <1>6. SameBut(W, values, a, b, name) /\ Given(W, name)
    BY <1>2, <1>3 DEF SameBut, Given
  <1> QED
    BY <1>2, <1>3, <1>4, <1>5, <1>6 DEF W

(* What the additional items add to the names.                             *)
LEMMA NamesAdded ==
  /\ \A b \in {0, 1} : /\ "additionalComboBox" \notin NamesOf(0, b)
                       /\ NamesOf(1, b) = NamesOf(0, b) \union {"additionalComboBox"}
  /\ \A a \in {0, 1} : /\ "additionalCheckBox" \notin NamesOf(a, 0)
                       /\ NamesOf(a, 1) = NamesOf(a, 0) \union {"additionalCheckBox"}
  <1>1. /\ "additionalComboBox" \notin ManifestNames
        /\ "additionalCheckBox" \notin ManifestNames
    BY DEF ManifestNames
  <1> DEFINE M == ManifestNames
             P == {"additionalComboBox"}
             Q == {"additionalCheckBox"}
  <1>2. \A x : x \in P => x \notin Q
    OBVIOUS
  <1>3. \A a \in {0, 1}, b \in {0, 1} :
          NamesOf(a, b) = M \union (IF a = 1 THEN P ELSE {}) \union (IF b = 1 THEN Q ELSE {})
    BY DEF NamesOf
  <1>4. /\ NamesOf(0, 0) = M /\ NamesOf(1, 0) = M \union P
        /\ NamesOf(0, 1) = M \union Q /\ NamesOf(1, 1) = (M \union P) \union Q
    <2> HIDE DEF M, P, Q
    <2> QED
      BY <1>3
  <1> QED
    BY <1>1, <1>2, <1>4

ComboChoices == {"Some value", "Show additional ComboBox"}
CheckChoices == {"true", "false"}

(* The answer to a change of "activeComboBox" is a sound section.          *)
LEMMA ComboChange ==
  ASSUME NEW a \in {0, 1}, NEW b \in {0, 1}, NEW buttons \in SoundButtons, NEW values,
         ValuesAreSound(a, b, values),
         NEW v \in ComboChoices, v # values["activeComboBox"]
  PROVE  IsSound(UpdateSettings(
           EditedSection(a, b, buttons, values, Edited(values, "activeComboBox", v)),
           "activeComboBox"))
  <1> DEFINE W == Edited(values, "activeComboBox", v)
             set == ValueSetFor(values)
             top == values["activeMaxValue"]
             bottom == values["activeMinValue"]
             s == UpdateSettings(EditedSection(a, b, buttons, values, W), "activeComboBox")
  <1>1. /\ IsFunction(W) /\ W["activeComboBox"] = v /\ Given(W, "activeComboBox")
        /\ SameBut(W, values, a, b, "activeComboBox") /\ DOMAIN W \ {Flow} = NamesOf(a, b)
        /\ "additionalComboBox" \in DOMAIN W <=> a = 1
    BY NamesShown, EditedValues
  <1>8. IsFunction(W)
    BY <1>1
  <1>2. AsksForCombo(W) <=> v = "Show additional ComboBox"
    BY <1>1 DEF AsksForCombo
  <1>3. a = 1 <=> v = "Some value"
    BY DEF ValuesAreSound, ChoicesAreSound, AsksForCombo, ComboChoices
  <1> HIDE DEF W, set, top, bottom
  <1>4. s = IF AsksForCombo(W)
            THEN SectionOf(1, b, buttons, set, top, bottom,
                           WithDefault(W, "additionalComboBox"))
            ELSE SectionOf(0, b, buttons, set, top, bottom,
                           Without(W, "additionalComboBox"))
    <2>1. AsksForCombo(W) => a = 0
      BY <1>2, <1>3
    <2>2. UpdateSettings(SectionOf(a, b, buttons, set, top, bottom, W), "activeComboBox")
            = IF AsksForCombo(W)
              THEN SectionOf(1, b, buttons, set, top, bottom,
                             WithDefault(W, "additionalComboBox"))
              ELSE SectionOf(0, b, buttons, set, top, bottom,
                             Without(W, "additionalComboBox"))
      BY <1>1, <2>1, RuleOfComboBox
    <2> QED
      BY <2>2 DEF EditedSection, set, top, bottom
  <1> HIDE DEF s
  <1>6. CASE v = "Show additional ComboBox"
    <2> DEFINE d == DefaultOf("additionalComboBox")
               V == WithValue(W, "additionalComboBox", d)
    <2>1. a = 0 /\ "additionalComboBox" \notin DOMAIN W
      BY <1>1, <1>3, <1>6
    <2>2. WithDefault(W, "additionalComboBox") = V
      BY <2>1 DEF WithDefault
    <2> HIDE DEF d
    <2>3. /\ IsFunction(V) /\ DOMAIN V = DOMAIN W \union {"additionalComboBox"}
          /\ V["additionalComboBox"] = d
          /\ \A n \in DOMAIN W : n # "additionalComboBox" => V[n] = W[n]
      <3> DEFINE name == "additionalComboBox"
      <3>1. V = WithValue(W, name, d)
        OBVIOUS
      <3> HIDE DEF name, V
      <3>2. IsGivenValue(WithValue(W, name, d), W, name, d)
        BY <1>8, WithValueIs
      <3> QED
        BY <3>1, <3>2 DEF name, IsGivenValue
    <2> HIDE DEF V
    <2>4. V["additionalComboBox"] = "Value 1"
      BY <2>3 DEF d, DefaultOf
    <2>5. DOMAIN V \ {Flow} = NamesOf(1, b)
      <3>1. NamesOf(1, b) = NamesOf(0, b) \union {"additionalComboBox"}
        BY NamesAdded
      <3>2. DOMAIN W \ {Flow} = NamesOf(0, b)
        BY <1>1, <2>1
      <3> QED
        BY <2>3, <3>1, <3>2 DEF Flow
    <2>6. /\ \A n \in NamesOf(0, b) : n \in DOMAIN W /\ n # "additionalComboBox"
          /\ "activeComboBox" \in NamesOf(0, b)
      <3>1. "additionalComboBox" \notin NamesOf(0, b) /\ "activeComboBox" \in NamesOf(0, b)
        BY NamesAdded, NamesShown
      <3>2. DOMAIN W \ {Flow} = NamesOf(0, b)
        BY <1>1, <2>1
      <3> QED
        BY <3>1, <3>2
    <2>7. SameBut(V, values, 0, b, "activeComboBox")
      BY <1>1, <2>1, <2>3, <2>6 DEF SameBut
    <2>8. V["activeComboBox"] = "Show additional ComboBox"
      BY <1>1, <1>6, <2>3, <2>6
    <2>9. ValuesAreSound(1, b, V) /\ SameLimits(V, values)
      BY <2>3, <2>4, <2>5, <2>7, <2>8, ComboIsSound
    <2>10. s = EditedSection(1, b, buttons, values, V)
      BY <1>2, <1>4, <1>6, <2>2 DEF EditedSection, set, top, bottom
    <2> QED
      <3>1. IsSound(EditedSection(1, b, buttons, values, V))
        BY <2>9, EditedIsSound
      <3> QED
        BY <2>10, <3>1 DEF s, W
  <1>7. CASE v = "Some value"
    <2> DEFINE V == Without(W, "additionalComboBox")
    <2>1. a = 1
      BY <1>3, <1>7
    <2>3. /\ IsFunction(V) /\ DOMAIN V = DOMAIN W \ {"additionalComboBox"}
          /\ \A n \in DOMAIN W : n # "additionalComboBox" => V[n] = W[n]
      BY <1>1, WithoutIs
    <2> HIDE DEF V
    <2>4. NamesOf(0, b) = NamesOf(1, b) \ {"additionalComboBox"}
      BY NamesAdded
    <2>5. DOMAIN V \ {Flow} = NamesOf(0, b)
      <3>2. DOMAIN W \ {Flow} = NamesOf(1, b)
        BY <1>1, <2>1
      <3> QED
        BY <2>3, <2>4, <3>2
    <2>6. /\ \A n \in NamesOf(0, b) : n \in DOMAIN W /\ n # "additionalComboBox"
          /\ \A n \in NamesOf(0, b) : n \in NamesOf(a, b)
          /\ "activeComboBox" \in NamesOf(0, b)
      BY <1>1, <2>1, <2>4, NamesShown
    <2>7. SameBut(V, values, 0, b, "activeComboBox")
      BY <1>1, <2>3, <2>6 DEF SameBut
    <2>8. V["activeComboBox"] = "Some value"
      BY <1>1, <1>7, <2>3, <2>6
    <2>9. ValuesAreSound(0, b, V) /\ SameLimits(V, values)
      <3> DEFINE c == 0
      <3>1. c \in {0, 1} /\ DOMAIN V \ {Flow} = NamesOf(c, b)
        BY <2>5
      <3>5. c # 1
        OBVIOUS
      <3> HIDE DEF c
      <3>3. V["activeComboBox"] = IF c = 1 THEN "Show additional ComboBox" ELSE "Some value"
        BY <2>8, <3>5
      <3>4. c = 1 => V["additionalComboBox"] \in {"Value 1", "Value 2"}
        BY <3>5
      <3>2. ValuesAreSound(c, b, V) /\ SameLimits(V, values)
        BY <2>3, <2>7, <3>1, <3>3, <3>4, ComboIsSound
      <3> QED
        BY <3>2 DEF c
    <2>10. s = EditedSection(0, b, buttons, values, V)
      BY <1>2, <1>4, <1>7 DEF V, EditedSection, set, top, bottom
    <2> QED
      <3>1. IsSound(EditedSection(0, b, buttons, values, V))
        BY <2>9, EditedIsSound
      <3> QED
        BY <2>10, <3>1 DEF s, W
  <1> QED
    BY <1>6, <1>7 DEF s, W, ComboChoices

(* The answer to a change of "activeCheckBox" is a sound section.          *)
LEMMA CheckChange ==
  ASSUME NEW a \in {0, 1}, NEW b \in {0, 1}, NEW buttons \in SoundButtons, NEW values,
         ValuesAreSound(a, b, values),
         NEW v \in CheckChoices, v # values["activeCheckBox"]
  PROVE  IsSound(UpdateSettings(
           EditedSection(a, b, buttons, values, Edited(values, "activeCheckBox", v)),
           "activeCheckBox"))
  <1> DEFINE W == Edited(values, "activeCheckBox", v)
             set == ValueSetFor(values)
             top == values["activeMaxValue"]
             bottom == values["activeMinValue"]
             s == UpdateSettings(EditedSection(a, b, buttons, values, W), "activeCheckBox")
  <1>1. /\ IsFunction(W) /\ W["activeCheckBox"] = v /\ Given(W, "activeCheckBox")
        /\ SameBut(W, values, a, b, "activeCheckBox") /\ DOMAIN W \ {Flow} = NamesOf(a, b)
        /\ "additionalCheckBox" \in DOMAIN W <=> b = 1
    BY NamesShown, EditedValues
  <1>8. IsFunction(W)
    BY <1>1
  <1>2. AsksForCheck(W) <=> v = "true"
    BY <1>1 DEF AsksForCheck
  <1>3. b = 1 <=> v = "false"
    BY DEF ValuesAreSound, ChoicesAreSound, AsksForCheck, CheckChoices
  <1> HIDE DEF W, set, top, bottom
  <1>4. s = IF AsksForCheck(W)
            THEN SectionOf(a, 1, buttons, set, top, bottom,
                           WithDefault(W, "additionalCheckBox"))
            ELSE SectionOf(a, 0, buttons, set, top, bottom,
                           Without(W, "additionalCheckBox"))
    <2>1. AsksForCheck(W) => b = 0
      BY <1>2, <1>3
    <2>2. UpdateSettings(SectionOf(a, b, buttons, set, top, bottom, W), "activeCheckBox")
            = IF AsksForCheck(W)
              THEN SectionOf(a, 1, buttons, set, top, bottom,
                             WithDefault(W, "additionalCheckBox"))
              ELSE SectionOf(a, 0, buttons, set, top, bottom,
                             Without(W, "additionalCheckBox"))
      BY <1>1, <2>1, RuleOfCheckBox
    <2> QED
      BY <2>2 DEF EditedSection, set, top, bottom
  <1> HIDE DEF s
  <1>6. CASE v = "true"
    <2> DEFINE d == DefaultOf("additionalCheckBox")
               V == WithValue(W, "additionalCheckBox", d)
    <2>1. b = 0 /\ "additionalCheckBox" \notin DOMAIN W
      BY <1>1, <1>3, <1>6
    <2>2. WithDefault(W, "additionalCheckBox") = V
      BY <2>1 DEF WithDefault
    <2> HIDE DEF d
    <2>3. /\ IsFunction(V) /\ DOMAIN V = DOMAIN W \union {"additionalCheckBox"}
          /\ V["additionalCheckBox"] = d
          /\ \A n \in DOMAIN W : n # "additionalCheckBox" => V[n] = W[n]
      <3> DEFINE name == "additionalCheckBox"
      <3>1. V = WithValue(W, name, d)
        OBVIOUS
      <3> HIDE DEF name, V
      <3>2. IsGivenValue(WithValue(W, name, d), W, name, d)
        BY <1>8, WithValueIs
      <3> QED
        BY <3>1, <3>2 DEF name, IsGivenValue
    <2> HIDE DEF V
    <2>4. V["additionalCheckBox"] = "false"
      BY <2>3 DEF d, DefaultOf
    <2>5. DOMAIN V \ {Flow} = NamesOf(a, 1)
      <3>1. NamesOf(a, 1) = NamesOf(a, 0) \union {"additionalCheckBox"}
        BY NamesAdded
      <3>2. DOMAIN W \ {Flow} = NamesOf(a, 0)
        BY <1>1, <2>1
      <3> QED
        BY <2>3, <3>1, <3>2 DEF Flow
    <2>6. /\ \A n \in NamesOf(a, 0) : n \in DOMAIN W /\ n # "additionalCheckBox"
          /\ "activeCheckBox" \in NamesOf(a, 0)
      <3>1. "additionalCheckBox" \notin NamesOf(a, 0) /\ "activeCheckBox" \in NamesOf(a, 0)
        BY NamesAdded, NamesShown
      <3>2. DOMAIN W \ {Flow} = NamesOf(a, 0)
        BY <1>1, <2>1
      <3> QED
        BY <3>1, <3>2
    <2>7. SameBut(V, values, a, 0, "activeCheckBox")
      BY <1>1, <2>1, <2>3, <2>6 DEF SameBut
    <2>8. V["activeCheckBox"] = "true"
      BY <1>1, <1>6, <2>3, <2>6
    <2>9. ValuesAreSound(a, 1, V) /\ SameLimits(V, values)
      BY <2>3, <2>4, <2>5, <2>7, <2>8, CheckIsSound
    <2>10. s = EditedSection(a, 1, buttons, values, V)
      BY <1>2, <1>4, <1>6, <2>2 DEF EditedSection, set, top, bottom
    <2> QED
      <3>1. IsSound(EditedSection(a, 1, buttons, values, V))
        BY <2>9, EditedIsSound
      <3> QED
        BY <2>10, <3>1 DEF s, W
  <1>7. CASE v = "false"
    <2> DEFINE V == Without(W, "additionalCheckBox")
    <2>1. b = 1
      BY <1>3, <1>7
    <2>3. /\ IsFunction(V) /\ DOMAIN V = DOMAIN W \ {"additionalCheckBox"}
          /\ \A n \in DOMAIN W : n # "additionalCheckBox" => V[n] = W[n]
      BY <1>1, WithoutIs
    <2> HIDE DEF V
    <2>4. NamesOf(a, 0) = NamesOf(a, 1) \ {"additionalCheckBox"}
      BY NamesAdded
    <2>5. DOMAIN V \ {Flow} = NamesOf(a, 0)
      <3>2. DOMAIN W \ {Flow} = NamesOf(a, 1)
        BY <1>1, <2>1
      <3> QED
        BY <2>3, <2>4, <3>2
    <2>6. /\ \A n \in NamesOf(a, 0) : n \in DOMAIN W /\ n # "additionalCheckBox"
          /\ \A n \in NamesOf(a, 0) : n \in NamesOf(a, b)
          /\ "activeCheckBox" \in NamesOf(a, 0)
      BY <1>1, <2>1, <2>4, NamesShown
    <2>7. SameBut(V, values, a, 0, "activeCheckBox")
      BY <1>1, <2>3, <2>6 DEF SameBut
    <2>8. V["activeCheckBox"] = "false"
      BY <1>1, <1>7, <2>3, <2>6
    <2>9. ValuesAreSound(a, 0, V) /\ SameLimits(V, values)
      <3> DEFINE c == 0
      <3>1. /\ c \in {0, 1} /\ DOMAIN V \ {Flow} = NamesOf(a, c)
            /\ V["activeCheckBox"] = IF c = 1 THEN "true" ELSE "false"
            /\ c = 1 => V["additionalCheckBox"] \in {"true", "false"}
        <4>1. c = 0
          OBVIOUS
        <4> HIDE DEF c
        <4> QED
          BY <2>5, <2>8, <4>1
      <3> HIDE DEF c
      <3>2. ValuesAreSound(a, c, V) /\ SameLimits(V, values)
        BY <2>3, <2>7, <3>1, CheckIsSound
      <3> QED
        BY <3>2 DEF c
    <2>10. s = EditedSection(a, 0, buttons, values, V)
      BY <1>2, <1>4, <1>7 DEF V, EditedSection, set, top, bottom
    <2> QED
      <3>1. IsSound(EditedSection(a, 0, buttons, values, V))
        BY <2>9, EditedIsSound
      <3> QED
        BY <2>10, <3>1 DEF s, W
  <1> QED
    BY <1>6, <1>7 DEF s, W, CheckChoices

(* The answer to a change of the radio button is a sound section.          *)
LEMMA ButtonChange ==
  ASSUME NEW a \in {0, 1}, NEW b \in {0, 1}, NEW buttons \in SoundButtons, NEW values,
         ValuesAreSound(a, b, values), NEW v \in buttons
  PROVE  IsSound(UpdateSettings(
           EditedSection(a, b, buttons, values, Edited(values, "activeRadioButtonGroup", v)),
           "activeRadioButtonGroup"))
  <1> DEFINE W == Edited(values, "activeRadioButtonGroup", v)
             V == WithValue(W, "activeRadioButtonGroup", "Some value")
             s == UpdateSettings(EditedSection(a, b, buttons, values, W),
                                 "activeRadioButtonGroup")
  <1>1. /\ IsFunction(W) /\ DOMAIN W = DOMAIN values
        /\ Given(W, "activeRadioButtonGroup")
        /\ SameBut(W, values, a, b, "activeRadioButtonGroup")
        /\ \A n \in NamesOf(a, b) : n \in DOMAIN W
    BY NamesShown, EditedValues
  <1>2. ChosenButton(W) = v
    BY NamesShown, EditedValues DEF ChosenButton
  <1>3. Given(W, "activeRadioButtonGroup")
    BY <1>1
  <1>4. IsGivenValue(V, W, "activeRadioButtonGroup", "Some value")
    <2> DEFINE name == "activeRadioButtonGroup"
               x == "Some value"
    <2> HIDE DEF W, name, x
    <2>1. IsGivenValue(WithValue(W, name, x), W, name, x)
      BY <1>1, WithValueIs
    <2> QED
      BY <2>1 DEF name, x
  <1> HIDE DEF W, V
  <1>5. s = IF ChosenButton(W) = "Show something"
            THEN EditedSection(a, b, WithHideMe(buttons), values, W)
            ELSE IF ChosenButton(W) = "Hide me"
            THEN EditedSection(a, b, WithoutHideMe(buttons), values, V)
            ELSE EditedSection(a, b, buttons, values, W)
    <2>1. ASSUME NEW x, NEW y, NEW set, NEW top, NEW bottom
          PROVE  UpdateSettings(SectionOf(x, y, buttons, set, top, bottom, W),
                                "activeRadioButtonGroup")
                   = IF ChosenButton(W) = "Show something"
                     THEN SectionOf(x, y, WithHideMe(buttons), set, top, bottom, W)
                     ELSE IF ChosenButton(W) = "Hide me"
                     THEN SectionOf(x, y, WithoutHideMe(buttons), set, top, bottom,
                                    WithValue(W, "activeRadioButtonGroup", "Some value"))
                     ELSE SectionOf(x, y, buttons, set, top, bottom, W)
      BY <1>3, RuleOfButtons
    <2> QED
      BY <2>1 DEF EditedSection, V
  <1>6. /\ WithHideMe(buttons) \in SoundButtons
        /\ WithoutHideMe(buttons) \in SoundButtons
    <2>1. buttons = BaseButtons \/ buttons = BaseButtons \union {"Hide me"}
      BY DEF SoundButtons
    <2>2. WithHideMe(buttons) = BaseButtons \union {"Hide me"}
      BY <2>1 DEF WithHideMe
    <2>3. "Hide me" \notin BaseButtons
      BY DEF BaseButtons
    <2>4. WithoutHideMe(buttons) = BaseButtons
      <3> HIDE DEF BaseButtons
      <3> QED
        BY <2>1, <2>3 DEF WithoutHideMe
    <2> QED
      BY <2>2, <2>4 DEF SoundButtons
  <1>7. v # "Hide me" => ValuesAreSound(a, b, W) /\ SameLimits(W, values)
    <2> SUFFICES ASSUME v # "Hide me"
                 PROVE  ValuesAreSound(a, b, W) /\ SameLimits(W, values)
      OBVIOUS
    <2>1. ChosenButton(W) \in BaseButtons
      BY <1>2 DEF SoundButtons
    <2> QED
      BY <1>1, <2>1, ButtonIsSound
  <1>8. ValuesAreSound(a, b, V) /\ SameLimits(V, values)
    <2>1. IsFunction(V) /\ DOMAIN V = DOMAIN values /\ ChosenButton(V) \in BaseButtons
      <3>1. DOMAIN V = DOMAIN W \union {"activeRadioButtonGroup"}
            /\ V["activeRadioButtonGroup"] = "Some value" /\ IsFunction(V)
        BY <1>4 DEF IsGivenValue
      <3>2. "activeRadioButtonGroup" \in DOMAIN W
        BY <1>3 DEF Given
      <3>3. ChosenButton(V) \in BaseButtons
        BY <3>1 DEF ChosenButton, BaseButtons
      <3> QED
        BY <1>1, <3>1, <3>2, <3>3
    <2>2. SameBut(V, values, a, b, "activeRadioButtonGroup")
      BY <1>1, <1>4 DEF SameBut, IsGivenValue
    <2> QED
      BY <2>1, <2>2, ButtonIsSound
  <1>9. CASE v = "Show something"
    <2>1. s = EditedSection(a, b, WithHideMe(buttons), values, W)
      BY <1>2, <1>5, <1>9
    <2>2. ValuesAreSound(a, b, W) /\ SameLimits(W, values)
      BY <1>7, <1>9
    <2>3. IsSound(EditedSection(a, b, WithHideMe(buttons), values, W))
      BY <1>6, <2>2, EditedIsSound
    <2> QED
      BY <2>1, <2>3 DEF s, W
  <1>10. CASE v = "Hide me"
    <2>1. s = EditedSection(a, b, WithoutHideMe(buttons), values, V)
      BY <1>2, <1>5, <1>10
    <2>3. IsSound(EditedSection(a, b, WithoutHideMe(buttons), values, V))
      BY <1>6, <1>8, EditedIsSound
    <2> QED
      BY <2>1, <2>3 DEF s, W
  <1>11. CASE v # "Show something" /\ v # "Hide me"
    <2>1. s = EditedSection(a, b, buttons, values, W)
      BY <1>2, <1>5, <1>11
    <2>2. ValuesAreSound(a, b, W) /\ SameLimits(W, values)
      BY <1>7, <1>11
    <2>3. IsSound(EditedSection(a, b, buttons, values, W))
      BY <2>2, EditedIsSound
    <2> QED
      BY <2>1, <2>3 DEF s, W
  <1> QED
    BY <1>9, <1>10, <1>11

(* The answer to a change of a spin box is a sound section.                *)
LEMMA LimitChange ==
  ASSUME NEW a \in {0, 1}, NEW b \in {0, 1}, NEW buttons \in SoundButtons, NEW values,
         ValuesAreSound(a, b, values), NEW name \in {"activeMinValue", "activeMaxValue"},
         NEW v \in IF name = "activeMinValue" THEN Lowest..values["activeMaxValue"]
                                              ELSE values["activeMinValue"]..Highest
  PROVE  IsSound(UpdateSettings(
           EditedSection(a, b, buttons, values, Edited(values, name, v)), name))
  <1> DEFINE W == Edited(values, name, v)
             s == UpdateSettings(EditedSection(a, b, buttons, values, W), name)
  <1>1. name \in NamesOf(a, b) /\ "activeMinValue" \in NamesOf(a, b)
        /\ "activeMaxValue" \in NamesOf(a, b)
    BY NamesShown
  <1>2. /\ IsFunction(W) /\ DOMAIN W = DOMAIN values /\ W[name] = v
        /\ Given(W, name) /\ SameBut(W, values, a, b, name)
    <2> DEFINE n == name
               x == v
    <2> HIDE DEF n, x
    <2>1. n \in NamesOf(a, b)
      BY <1>1 DEF n
    <2>2. LET Y == Edited(values, n, x)
          IN /\ IsFunction(Y) /\ DOMAIN Y = DOMAIN values /\ Y[n] = x /\ Given(Y, n)
             /\ SameBut(Y, values, a, b, n)
      BY <2>1, EditedValues
    <2> QED
      BY <2>2 DEF n, x
  <1>3. Given(W, name)
    BY <1>2
  <1> HIDE DEF W
  <1>4. s = SectionOf(a, b, buttons, ValueSetFor(values), W["activeMaxValue"],
                      W["activeMinValue"], W)
    <2>1. ASSUME NEW x, NEW y, NEW set, NEW top, NEW bottom
          PROVE  UpdateSettings(SectionOf(x, y, buttons, set, top, bottom, W), name)
                   = SectionOf(x, y, buttons, set, W["activeMaxValue"],
                               W["activeMinValue"], W)
      BY <1>3, RuleOfLimits
    <2> QED
      BY <2>1 DEF EditedSection
  <1>5. LimitsAreSound(W)
    <2>1. LimitsAreSound(values)
      BY DEF ValuesAreSound
    <2> DEFINE low == values["activeMinValue"]
               high == values["activeMaxValue"]
    <2>2. low \in Lowest..Highest /\ high \in low..Highest
      BY <2>1 DEF LimitsAreSound
    <2>3. CASE name = "activeMinValue"
      <3>1. v \in Lowest..high
        BY <2>3
      <3>2. W["activeMinValue"] = v /\ W["activeMaxValue"] = high
        BY <1>1, <1>2, <2>3 DEF SameBut
      <3> HIDE DEF low, high
      <3>3. v \in Lowest..Highest /\ high \in v..Highest
        BY <2>2, <3>1, SpinAssumption
      <3> QED
        BY <3>2, <3>3 DEF LimitsAreSound
    <2>4. CASE name = "activeMaxValue"
      <3>1. v \in low..Highest
        BY <2>4
      <3>2. W["activeMaxValue"] = v /\ W["activeMinValue"] = low
        BY <1>1, <1>2, <2>4 DEF SameBut
      <3> HIDE DEF low, high
      <3> QED
        BY <2>2, <3>1, <3>2 DEF LimitsAreSound
    <2> QED
      BY <2>3, <2>4
  <1>6. ValuesAreSound(a, b, W) /\ ValueSetFor(W) = ValueSetFor(values)
    BY <1>2, <1>5, LimitIsSound
  <1>7. s = SoundSection(a, b, buttons, W)
    BY <1>4, <1>6 DEF SoundSection
  <1> QED
    BY <1>6, <1>7, SoundIs DEF s, W

(* The answer to "activeCheckBoxForValueSetChange" is a sound section.     *)
LEMMA ValueSetChange ==
  ASSUME NEW a \in {0, 1}, NEW b \in {0, 1}, NEW buttons \in SoundButtons, NEW values,
         ValuesAreSound(a, b, values), holder = "deviceAgent", NEW v \in CheckChoices
  PROVE  IsSound(UpdateSettings(
           EditedSection(a, b, buttons, values,
                         Edited(values, "activeCheckBoxForValueSetChange", v)),
           "activeCheckBoxForValueSetChange"))
  <1> DEFINE W == Edited(values, "activeCheckBoxForValueSetChange", v)
             V == WithValue(W, "comboBoxForValueSetChange", "Permanent")
             s == UpdateSettings(EditedSection(a, b, buttons, values, W),
                                 "activeCheckBoxForValueSetChange")
             top == values["activeMaxValue"]
             bottom == values["activeMinValue"]
  <1>1. /\ IsFunction(W) /\ DOMAIN W = DOMAIN values
        /\ Given(W, "activeCheckBoxForValueSetChange")
        /\ W["activeCheckBoxForValueSetChange"] = v
        /\ SameBut(W, values, a, b, "activeCheckBoxForValueSetChange")
        /\ \A n \in NamesOf(a, b) : n \in DOMAIN W
    BY NamesShown, EditedValues
  <1>2. IsGivenValue(V, W, "comboBoxForValueSetChange", "Permanent")
    <2> DEFINE name == "comboBoxForValueSetChange"
               x == "Permanent"
    <2> HIDE DEF W, name, x
    <2>1. IsGivenValue(WithValue(W, name, x), W, name, x)
      BY <1>1, WithValueIs
    <2> QED
      BY <2>1 DEF name, x
  <1>3. Given(W, "activeCheckBoxForValueSetChange")
    BY <1>1
  <1> HIDE DEF W
  <1>4. s = IF W["activeCheckBoxForValueSetChange"] = "true"
            THEN SectionOf(a, b, buttons, {"Permanent", "Optional"}, top, bottom, W)
            ELSE IF W["activeCheckBoxForValueSetChange"] = "false"
            THEN SectionOf(a, b, buttons, {"Permanent"}, top, bottom, V)
            ELSE SectionOf(a, b, buttons, ValueSetFor(values), top, bottom, W)
    <2>1. ASSUME NEW x, NEW y, NEW set, NEW t, NEW u
          PROVE  UpdateSettings(SectionOf(x, y, buttons, set, t, u, W),
                                "activeCheckBoxForValueSetChange")
                   = IF W["activeCheckBoxForValueSetChange"] = "true"
                     THEN SectionOf(x, y, buttons, {"Permanent", "Optional"}, t, u, W)
                     ELSE IF W["activeCheckBoxForValueSetChange"] = "false"
                     THEN SectionOf(x, y, buttons, {"Permanent"}, t, u,
                                    WithValue(W, "comboBoxForValueSetChange", "Permanent"))
                     ELSE SectionOf(x, y, buttons, set, t, u, W)
      BY <1>3, RuleOfValueSet
    <2> HIDE DEF top, bottom
    <2> QED
      BY <2>1 DEF EditedSection, top, bottom
  <1> HIDE DEF V
  <1>5. CASE v = "true"
    <2>1. W["activeCheckBoxForValueSetChange"] = "true"
      BY <1>1, <1>5
    <2>2. ValueSetFor(W) = {"Permanent", "Optional"}
      BY <2>1 DEF ValueSetFor
    <2>3. W["comboBoxForValueSetChange"] \in ValueSetFor(W)
      <3>1. W["comboBoxForValueSetChange"] = values["comboBoxForValueSetChange"]
        BY <1>1, NamesShown DEF SameBut
      <3>2. values["comboBoxForValueSetChange"] \in {"Permanent", "Optional"}
        BY DEF ValuesAreSound, ChoicesAreSound, ValueSetFor
      <3> QED
        BY <2>2, <3>1, <3>2
    <2>4. /\ ValuesAreSound(a, b, W)
          /\ W["activeMinValue"] = values["activeMinValue"]
          /\ W["activeMaxValue"] = values["activeMaxValue"]
      BY <1>1, <2>1, <2>3, ValueSetIsSound DEF SameBut
    <2>5. s = SoundSection(a, b, buttons, W)
      BY <1>4, <2>1, <2>2, <2>4 DEF SoundSection
    <2> QED
      BY <2>4, <2>5, SoundIs DEF s, W
  <1>6. CASE v = "false"
    <2>1. W["activeCheckBoxForValueSetChange"] = "false"
      BY <1>1, <1>6
    <2>2. /\ V["activeCheckBoxForValueSetChange"] = "false"
          /\ V["comboBoxForValueSetChange"] = "Permanent"
      BY <1>1, <1>2, <2>1, NamesShown DEF IsGivenValue
    <2>3. ValueSetFor(V) = {"Permanent"}
      BY <2>2 DEF ValueSetFor
    <2>4. IsFunction(V) /\ DOMAIN V = DOMAIN values
      <3>1. "comboBoxForValueSetChange" \in DOMAIN W
        BY <1>1, NamesShown
      <3> QED
        BY <1>1, <1>2, <3>1 DEF IsGivenValue
    <2>5. \A n \in NamesOf(a, b) :
            n \notin {"activeCheckBoxForValueSetChange", "comboBoxForValueSetChange"} =>
              V[n] = values[n]
      BY <1>1, <1>2 DEF SameBut, IsGivenValue
    <2>6. /\ ValuesAreSound(a, b, V)
          /\ V["activeMinValue"] = values["activeMinValue"]
          /\ V["activeMaxValue"] = values["activeMaxValue"]
      BY <2>2, <2>3, <2>4, <2>5, ValueSetIsSound
    <2>7. s = SoundSection(a, b, buttons, V)
      BY <1>4, <2>1, <2>3, <2>6 DEF SoundSection
    <2> QED
      BY <2>6, <2>7, SoundIs DEF s, W
  <1> QED
    BY <1>5, <1>6 DEF CheckChoices

(* A change of a setting without a rule leaves the section sound.          *)
LEMMA PlainChange ==
  ASSUME NEW a \in {0, 1}, NEW b \in {0, 1}, NEW buttons \in SoundButtons, NEW values,
         ValuesAreSound(a, b, values),
         NEW name \in PlainNames, name \in NamesOf(a, b),
         NEW v \in PlainChoices(name, values)
  PROVE  IsSound(EditedSection(a, b, buttons, values, Edited(values, name, v)))
  <1> DEFINE W == Edited(values, name, v)
  <1>2. /\ IsFunction(W) /\ DOMAIN W = DOMAIN values /\ W[name] = v
        /\ SameBut(W, values, a, b, name)
    BY EditedValues
  <1> HIDE DEF W
  <1>3. ValuesAreSound(a, b, W) /\ ValueSetFor(W) = ValueSetFor(values)
    BY <1>2, SoundnessKept
  <1>4. SameLimits(W, values)
    <2>1. /\ "activeMinValue" \in NamesOf(a, b) /\ "activeMinValue" # name
          /\ "activeMaxValue" \in NamesOf(a, b) /\ "activeMaxValue" # name
      BY NamesShown DEF PlainNames
    <2> QED
      BY <1>2, <1>3, <2>1 DEF SameLimits, SameBut
  <1> QED
    BY <1>3, <1>4, EditedIsSound DEF W

----------------------------------------------------------------------------
(* The dialog that is shown first.                                         *)
LEMMA FirstIsSound ==
  ASSUME ActiveInit
  PROVE  ActiveIInv
  <1> DEFINE F == FreshItems
             values == [n \in Range(F) \ {Flow} |-> DefaultOf(n)]
  <1>1. holder \in {"deviceAgent", "engine"} /\ dialog = FreshSection(values)
    BY DEF ActiveInit
  <1>2. DOMAIN values = NamesOf(0, 0) /\ IsFunction(values)
    <2>1. Range(F) \ {Flow} = NamesOf(0, 0)
      BY NoneAdded, RangeIs, NamesShown
    <2> HIDE DEF F
    <2> QED
      BY <2>1 DEF IsFunction
  <1>3. \A n \in NamesOf(0, 0) : values[n] = DefaultOf(n)
    BY <1>2
  <1> HIDE DEF values
  <1>4. /\ values["activeMinValue"] = Middle /\ values["activeMaxValue"] = Middle
        /\ values["activeComboBox"] = "Some value" /\ values["activeCheckBox"] = "false"
        /\ values["activeRadioButtonGroup"] = "Some value"
        /\ holder = "deviceAgent" =>
             /\ values["activeCheckBoxForValueSetChange"] = "true"
             /\ values["comboBoxForValueSetChange"] = "Permanent"
    BY <1>3, NamesShown DEF DefaultOf
  <1>5. LimitsAreSound(values)
    <2>1. values["activeMinValue"] = Middle /\ values["activeMaxValue"] = Middle
      BY <1>4
    <2>2. Middle \in Lowest..Highest /\ Middle \in Middle..Highest
      BY SpinAssumption
    <2> QED
      BY <2>1, <2>2, Zenon DEF LimitsAreSound
  <1>6. ValueSetFor(values) = {"Permanent", "Optional"}
    BY <1>4 DEF ValueSetFor
  <1>7. ChoicesAreSound(0, 0, values)
    <2>1. ~AsksForCombo(values)
      BY <1>4 DEF AsksForCombo
    <2>2. ~AsksForCheck(values)
      BY <1>4 DEF AsksForCheck
    <2>3. /\ values["activeComboBox"] \in {"Some value", "Show additional ComboBox"}
          /\ values["activeCheckBox"] \in {"true", "false"}
          /\ values["activeRadioButtonGroup"] \in BaseButtons
      BY <1>4 DEF BaseButtons
    <2>4. holder = "deviceAgent" =>
            /\ values["activeCheckBoxForValueSetChange"] \in {"true", "false"}
            /\ values["comboBoxForValueSetChange"] \in ValueSetFor(values)
      BY <1>4, <1>6
    <2> QED
      <3> DEFINE none == 0
      <3>1. none # 1
        OBVIOUS
      <3> HIDE DEF none
      <3>2. ChoicesAreSound(none, none, values)
        BY <2>1, <2>2, <2>3, <2>4, <3>1 DEF ChoicesAreSound
      <3> QED
        BY <3>2 DEF none
  <1>8. ValuesAreSound(0, 0, values)
    BY <1>2, <1>5, <1>7, NamesShown DEF ValuesAreSound
  <1>9. FreshSection(values) = SoundSection(0, 0, BaseButtons, values)
    BY <1>4, <1>6, NoneAdded DEF FreshSection, SoundSection, SectionOf, BaseButtons
  <1>10. BaseButtons \in SoundButtons
    BY DEF SoundButtons
  <1> QED
    BY <1>1, <1>8, <1>9, <1>10, SoundIs DEF ActiveIInv

(* The user changes a setting.                                             *)
ChoicesOf(name, buttons, values) ==
  CASE name = "activeComboBox" -> ComboChoices
    [] name = "activeCheckBox" -> CheckChoices
    [] name = "activeCheckBoxForValueSetChange" -> CheckChoices
    [] name = "activeRadioButtonGroup" -> buttons
    [] name = "activeMinValue" -> Lowest..values["activeMaxValue"]
    [] name = "activeMaxValue" -> values["activeMinValue"]..Highest
    [] OTHER -> PlainChoices(name, values)

(* In a sound dialog the user may choose these.                            *)
LEMMA AllowedIs ==
  ASSUME NEW a \in {0, 1}, NEW b \in {0, 1}, NEW buttons \in SoundButtons,
         dialog = SoundSection(a, b, buttons, dialog.values),
         NEW name \in NamesOf(a, b)
  PROVE  Allowed(name) = ChoicesOf(name, buttons, dialog.values)
  <1> DEFINE values == dialog.values
             top == values["activeMaxValue"]
             bottom == values["activeMinValue"]
             set == ValueSetFor(values)
  <1>1. /\ dialog.radioButtons = buttons /\ dialog.valueSet = set
        /\ dialog.minTop = top /\ dialog.maxBottom = bottom
    <2> HIDE DEF values
    <2>1. dialog = SoundSection(a, b, buttons, values)
      BY DEF values
    <2> QED
      BY <2>1 DEF SoundSection, SectionOf
  <1> HIDE DEF values, top, bottom, set
  <1>2. name \in AllNames
    BY DEF NamesOf, ManifestNames, AllNames
  <1>3. name # Flow
    BY NamesShown
  <1>4. PlainChoices(name, values) = IF name = "comboBoxForValueSetChange" THEN set
          ELSE IF name = "additionalComboBox" THEN {"Value 1", "Value 2"}
          ELSE {"true", "false"}
    BY DEF PlainChoices, set
  <1>5. ChoicesOf(name, buttons, values) = Allowed(name)
    BY <1>1, <1>2, <1>3, <1>4
       DEF ChoicesOf, Allowed, ComboChoices, CheckChoices, AllNames, top, bottom
  <1> QED
    BY <1>5 DEF values

(* What a change of any setting leads to.                                  *)
LEMMA ChangeIsSound ==
  ASSUME NEW a \in {0, 1}, NEW b \in {0, 1}, NEW buttons \in SoundButtons, NEW values,
         ValuesAreSound(a, b, values), NEW name \in NamesOf(a, b),
         NEW v \in ChoicesOf(name, buttons, values), v # values[name]
  PROVE  LET edited == EditedSection(a, b, buttons, values, Edited(values, name, v))
         IN IsSound(IF name \in ActiveItems THEN UpdateSettings(edited, name) ELSE edited)
  <1> DEFINE edited == EditedSection(a, b, buttons, values, Edited(values, name, v))
             updated == UpdateSettings(edited, name)
  <1>1. name \in ActiveItems \/ name \in PlainNames
    BY DEF NamesOf, ManifestNames, ActiveItems, PlainNames
  <1>2. name \in PlainNames => name \notin ActiveItems
    BY DEF PlainNames, ActiveItems
  <1>3. name \in ActiveItems => IsSound(updated)
    <2>1. CASE name = "activeComboBox"
      BY <2>1, ComboChange DEF ChoicesOf
    <2>2. CASE name = "activeCheckBox"
      BY <2>2, CheckChange DEF ChoicesOf
    <2>3. CASE name = "activeRadioButtonGroup"
      BY <2>3, ButtonChange DEF ChoicesOf
    <2>4. CASE name = "activeCheckBoxForValueSetChange"
      <3>1. holder = "deviceAgent"
        BY <2>4 DEF NamesOf, ManifestNames
      <3> QED
        BY <2>4, <3>1, ValueSetChange DEF ChoicesOf
    <2>5. CASE name \in {"activeMinValue", "activeMaxValue"}
      <3>1. v \in IF name = "activeMinValue" THEN Lowest..values["activeMaxValue"]
                                             ELSE values["activeMinValue"]..Highest
        BY <2>5 DEF ChoicesOf
      <3> QED
        BY <2>5, <3>1, LimitChange
    <2> QED
      BY <2>1, <2>2, <2>3, <2>4, <2>5 DEF ActiveItems
  <1>4. name \in PlainNames => IsSound(edited)
    <2> SUFFICES ASSUME name \in PlainNames PROVE IsSound(edited)
      OBVIOUS
    <2>1. v \in PlainChoices(name, values)
      BY DEF ChoicesOf, PlainNames
    <2> QED
      BY <2>1, PlainChange
  <1> QED
    BY <1>1, <1>2, <1>3, <1>4

(* An Engine's answer is not deduplicated, an agent's is, to no effect.    *)
LEMMA DeduplicatedIs ==
  ASSUME NEW section, IsSound(section)
  PROVE  [section EXCEPT !.items = Deduplicated(@)] = section
  <1>1. PICK a \in {0, 1}, b \in {0, 1}, buttons \in SoundButtons :
          section = SoundSection(a, b, buttons, section.values)
    BY DEF IsSound
  <1>2. Deduplicated(ItemsOf(a, b)) = ItemsOf(a, b)
    BY NothingDeduplicated
  <1> DEFINE values == section.values
             set == ValueSetFor(values)
             top == values["activeMaxValue"]
             bottom == values["activeMinValue"]
             s == SectionOf(a, b, buttons, set, top, bottom, values)
  <1>3. section = s
    BY <1>1 DEF SoundSection
  <1>4. [s EXCEPT !.items = Deduplicated(@)] = s
    <2> HIDE DEF values, set, top, bottom
    <2> QED
      BY <1>2 DEF SectionOf
  <1> HIDE DEF s
  <1> QED
    BY <1>3, <1>4

(* The dialog that the user has edited.                                    *)
LEMMA EditedDialogIs ==
  ASSUME NEW a, NEW b, NEW buttons, NEW values, NEW name, NEW v
  PROVE  [SoundSection(a, b, buttons, values) EXCEPT !.values[name] = v]
           = EditedSection(a, b, buttons, values, Edited(values, name, v))
  BY DEF SoundSection, EditedSection, SectionOf, Edited

(* doGetSettingsOnActiveSettingChange() leads from sound to sound dialogs. *)
LEMMA DialogIsChanged ==
  ASSUME IsSound(dialog), NEW name \in SettingNames, NEW v \in Allowed(name),
         ChangeSetting(name, v)
  PROVE  holder' = holder /\ IsSound(dialog')
  <1> DEFINE values == dialog.values
  <1>1. PICK a \in {0, 1}, b \in {0, 1}, buttons \in SoundButtons :
          /\ ValuesAreSound(a, b, values)
          /\ dialog = SoundSection(a, b, buttons, values)
    BY DEF IsSound
  <1>2. name \in NamesOf(a, b)
    <2>1. dialog.items = ItemsOf(a, b)
      BY <1>1 DEF SoundSection, SectionOf
    <2>2. SettingNames = Range(ItemsOf(a, b)) \ {Flow}
      BY <2>1 DEF SettingNames
    <2> QED
      BY <2>2, RangeIs
  <1>3. v \in ChoicesOf(name, buttons, values)
    BY <1>1, <1>2, AllowedIs
  <1> DEFINE edited == EditedSection(a, b, buttons, values, Edited(values, name, v))
             updated == UpdateSettings(edited, name)
  <1>4. [dialog EXCEPT !.values[name] = v] = edited
    <2> DEFINE s == SoundSection(a, b, buttons, values)
    <2>1. dialog = s
      BY <1>1
    <2>2. [s EXCEPT !.values[name] = v] = edited
      BY EditedDialogIs
    <2> HIDE DEF s, edited
    <2> QED
      BY <2>1, <2>2
  <1>5. /\ v # values[name] /\ holder' = holder
        /\ dialog' = IF name \notin ActiveItems THEN edited
                     ELSE IF holder = "engine" THEN updated
                     ELSE [updated EXCEPT !.items = Deduplicated(@)]
    BY <1>4 DEF ChangeSetting
  <1>6. IsSound(IF name \in ActiveItems THEN updated ELSE edited)
    <2> HIDE DEF values
    <2> QED
      BY <1>1, <1>2, <1>3, <1>5, ChangeIsSound
  <1> HIDE DEF updated, edited
  <1>7. name \in ActiveItems => [updated EXCEPT !.items = Deduplicated(@)] = updated
    BY <1>6, DeduplicatedIs
  <1> QED
    BY <1>5, <1>6, <1>7

(* The user applies the values.                                            *)
LEMMA FlowIsSound ==
  ASSUME NEW a \in {0, 1}, NEW b \in {0, 1}, NEW values, ValuesAreSound(a, b, values)
  PROVE  /\ ValuesAreSound(a, b, WithFlow(values))
         /\ SameLimits(WithFlow(values), values)
         /\ ChosenButton(WithFlow(values)) = ChosenButton(values)
  <1> DEFINE V == WithFlow(values)
  <1>1. /\ IsFunction(values) /\ DOMAIN values \ {Flow} = NamesOf(a, b)
        /\ ChoicesAreSound(a, b, values) /\ LimitsAreSound(values)
    BY DEF ValuesAreSound
  <1>2. /\ IsFunction(V) /\ DOMAIN V = DOMAIN values \union {Flow}
        /\ \A n \in DOMAIN values : n # Flow => V[n] = values[n]
    <2> DEFINE x == IF Flow \in DOMAIN values THEN values[Flow] ELSE ""
    <2>1. V = WithValue(values, Flow, x)
      BY DEF WithFlow
    <2> HIDE DEF V, x
    <2>2. IsGivenValue(WithValue(values, Flow, x), values, Flow, x)
      BY <1>1, WithValueIs
    <2> QED
      BY <2>1, <2>2 DEF IsGivenValue
  <1> HIDE DEF V
  <1>3. \A n \in NamesOf(a, b) : V[n] = values[n]
    BY <1>1, <1>2
  <1>4. /\ V["activeComboBox"] = values["activeComboBox"]
        /\ V["activeCheckBox"] = values["activeCheckBox"]
        /\ V["activeRadioButtonGroup"] = values["activeRadioButtonGroup"]
        /\ V["activeMinValue"] = values["activeMinValue"]
        /\ V["activeMaxValue"] = values["activeMaxValue"]
        /\ holder = "deviceAgent" =>
             /\ V["activeCheckBoxForValueSetChange"]
                  = values["activeCheckBoxForValueSetChange"]
             /\ V["comboBoxForValueSetChange"] = values["comboBoxForValueSetChange"]
        /\ a = 1 => V["additionalComboBox"] = values["additionalComboBox"]
        /\ b = 1 => V["additionalCheckBox"] = values["additionalCheckBox"]
    BY <1>3, NamesShown
  <1>5. ValueSetFor(V) = ValueSetFor(values)
    BY <1>4 DEF ValueSetFor
  <1>6. LimitsAreSound(V)
    BY <1>1, <1>4 DEF LimitsAreSound
  <1>7. ChoicesAreSound(a, b, V)
    <2>1. AsksForCombo(V) <=> AsksForCombo(values)
      BY <1>4 DEF AsksForCombo
    <2>2. AsksForCheck(V) <=> AsksForCheck(values)
      BY <1>4 DEF AsksForCheck
    <2> QED
      BY <1>1, <1>4, <1>5, <2>1, <2>2, Zenon DEF ChoicesAreSound
  <1>8. DOMAIN V \ {Flow} = NamesOf(a, b)
    BY <1>1, <1>2
  <1> QED
    BY <1>2, <1>4, <1>5, <1>6, <1>7, <1>8 DEF ValuesAreSound, SameLimits, ChosenButton, V

(* settingsReceived() leads from sound to sound dialogs.                   *)
LEMMA RebuiltIsSound ==
  ASSUME NEW a \in {0, 1}, NEW b \in {0, 1}, NEW values, ValuesAreSound(a, b, values),
         holder \in {"deviceAgent", "engine"}
  PROVE  IsSound(Rebuilt(values))
  <1>1. Rebuilt(values) = Remade(a, b, values)
    BY RebuiltIs
  <1>2. ButtonsFor(values) \in SoundButtons
    BY DEF ButtonsFor, SoundButtons
  <1> DEFINE V == IF holder = "engine" THEN WithFlow(values) ELSE values
  <1>3. ValuesAreSound(a, b, V) /\ SameLimits(V, values)
    BY FlowIsSound DEF SameLimits
  <1>4. Remade(a, b, values) = EditedSection(a, b, ButtonsFor(values), values, V)
    BY DEF Remade, EditedSection
  <1> HIDE DEF V
  <1> QED
    BY <1>1, <1>2, <1>3, <1>4, EditedIsSound

(* What makes a dialog sound depends on its holder only.                   *)
LEMMA SoundnessIsOfHolder ==
  ASSUME holder' = holder, NEW section, IsSound(section)
  PROVE  IsSound(section)'
  <1>1. FreshItems' = FreshItems
    BY DEF FreshItems
  <1>2. ManifestNames' = ManifestNames
    BY DEF ManifestNames
  <1>3. ASSUME NEW a, NEW b
        PROVE  ItemsOf(a, b)' = ItemsOf(a, b)
    BY <1>1 DEF ItemsOf
  <1>4. ASSUME NEW a, NEW b
        PROVE  NamesOf(a, b)' = NamesOf(a, b)
    BY <1>2 DEF NamesOf
  <1>5. ASSUME NEW values
        PROVE  ValueSetFor(values)' = ValueSetFor(values)
    BY DEF ValueSetFor
  <1>6. ASSUME NEW a, NEW b, NEW values
        PROVE  ChoicesAreSound(a, b, values)' <=> ChoicesAreSound(a, b, values)
    <2>1. ValueSetFor(values)' = ValueSetFor(values)
      BY <1>5
    <2> QED
      BY <2>1 DEF ChoicesAreSound
  <1>7. ASSUME NEW a, NEW b, NEW values
        PROVE  ValuesAreSound(a, b, values)' <=> ValuesAreSound(a, b, values)
    BY <1>4, <1>6 DEF ValuesAreSound
  <1>8. ASSUME NEW a, NEW b, NEW buttons, NEW values
        PROVE  SoundSection(a, b, buttons, values)' = SoundSection(a, b, buttons, values)
    BY <1>3, <1>5 DEF SoundSection, SectionOf
  <1> QED
    BY <1>7, <1>8 DEF IsSound

(* The dialog is sound in all states.                                      *)
THEOREM DialogsStaySound == ActiveSpec => []ActiveIInv
  <1>1. ActiveInit => ActiveIInv
    BY FirstIsSound
  <1>2. ActiveIInv /\ [ActiveNext]_activeVars => ActiveIInv'
    <2> SUFFICES ASSUME ActiveIInv, [ActiveNext]_activeVars
                 PROVE  ActiveIInv'
      OBVIOUS
    <2>1. holder \in {"deviceAgent", "engine"} /\ IsSound(dialog)
      BY DEF ActiveIInv
    <2>2. holder' = holder /\ IsSound(dialog')
      <3>1. ASSUME NEW name \in SettingNames, NEW v \in Allowed(name),
                   ChangeSetting(name, v)
            PROVE  holder' = holder /\ IsSound(dialog')
        BY <2>1, <3>1, DialogIsChanged
      <3>2. CASE ApplySettings
        <4>1. PICK a \in {0, 1}, b \in {0, 1} : ValuesAreSound(a, b, dialog.values)
          BY <2>1 DEF IsSound
        <4>2. IsSound(Rebuilt(dialog.values))
          BY <2>1, <4>1, RebuiltIsSound
        <4> QED
          BY <3>2, <4>2 DEF ApplySettings
      <3>3. CASE UNCHANGED activeVars
        BY <2>1, <3>3 DEF activeVars
      <3> QED
        BY <3>1, <3>2, <3>3 DEF ActiveNext
    <2>3. \A section : IsSound(section) => IsSound(section)'
      BY <2>2, SoundnessIsOfHolder
    <2>4. IsSound(dialog)'
      BY <2>2, <2>3 DEF IsSound
    <2> QED
      BY <2>1, <2>2, <2>4 DEF ActiveIInv
  <1> QED
    BY <1>1, <1>2, PTL DEF ActiveSpec

(* Sound dialogs have the values that fit, and are as if made anew.        *)
LEMMA SoundDialogsFit ==
  ASSUME ActiveIInv
  PROVE  ValuesFit
  <1> DEFINE values == dialog.values
  <1>1. PICK a \in {0, 1}, b \in {0, 1}, buttons \in SoundButtons :
          /\ ValuesAreSound(a, b, values)
          /\ dialog = SoundSection(a, b, buttons, values)
    BY DEF ActiveIInv, IsSound
  <1>2. dialog.items = ItemsOf(a, b)
    BY <1>1 DEF SoundSection, SectionOf
  <1>3. SettingNames = NamesOf(a, b)
    BY <1>2, RangeIs, NamesShown DEF SettingNames
  <1>4. \A i, j \in DOMAIN dialog.items :
          dialog.items[i] = dialog.items[j] => i = j \/ dialog.items[i] = Flow
    <2> DEFINE I == ItemsOf(a, b)
    <2>1. \A i, j \in DOMAIN I : I[i] = I[j] => i = j \/ I[i] = Flow
      <3>1. DOMAIN I = 1..Len(FreshItems) + a + b
        BY ItemsAre
      <3>2. ASSUME NEW i \in 1..Len(FreshItems) + a + b, NEW j \in 1..Len(FreshItems) + a + b,
                   I[i] = I[j]
            PROVE  i = j \/ I[i] = Flow
        BY <3>2, NoneTwice
      <3> HIDE DEF I
      <3> QED
        BY <3>1, <3>2
    <2> HIDE DEF I
    <2>2. dialog.items = I
      BY <1>2 DEF I
    <2> QED
      BY <2>1, <2>2
  <1>5. DOMAIN values \ {Flow} = SettingNames
    BY <1>1, <1>3 DEF ValuesAreSound
  <1>6. ASSUME NEW name \in NamesOf(a, b)
        PROVE  values[name] \in Allowed(name)
    <2>1. Allowed(name) = ChoicesOf(name, buttons, values)
      BY <1>1, AllowedIs
    <2>2. ChoicesAreSound(a, b, values) /\ LimitsAreSound(values)
      BY <1>1 DEF ValuesAreSound
    <2> HIDE DEF values
    <2> SUFFICES values[name] \in ChoicesOf(name, buttons, values)
      BY <2>1
    <2>3. CASE name = "activeComboBox"
      BY <2>2, <2>3 DEF ChoicesOf, ChoicesAreSound, ComboChoices
    <2>4. CASE name \in {"activeCheckBox", "activeCheckBoxForValueSetChange"}
      BY <2>2, <2>4 DEF ChoicesOf, ChoicesAreSound, CheckChoices, NamesOf, ManifestNames
    <2>5. CASE name = "activeRadioButtonGroup"
      BY <2>2, <2>5 DEF ChoicesOf, ChoicesAreSound, SoundButtons
    <2>6. CASE name \in {"activeMinValue", "activeMaxValue"}
      <3>1. /\ values["activeMinValue"] \in Lowest..values["activeMaxValue"]
            /\ values["activeMaxValue"] \in values["activeMinValue"]..Highest
        BY <2>2, SpinAssumption DEF LimitsAreSound
      <3> QED
        BY <2>6, <3>1 DEF ChoicesOf
    <2>7. CASE name \in PlainNames
      BY <2>2, <2>7 DEF ChoicesOf, ChoicesAreSound, PlainNames, PlainChoices, NamesOf,
                        ManifestNames
    <2> QED
      BY <2>1, <2>3, <2>4, <2>5, <2>6, <2>7 DEF NamesOf, ManifestNames, PlainNames
  <1> QED
    BY <1>3, <1>4, <1>5, <1>6 DEF ValuesFit

(* The dialog made anew of sound values is the same.                       *)
LEMMA SoundDialogsAreAsRebuilt ==
  ASSUME ActiveIInv
  PROVE  IsAsRebuilt
  <1> DEFINE values == dialog.values
             rebuilt == Rebuilt(values)
             V == IF holder = "engine" THEN WithFlow(values) ELSE values
  <1>1. PICK a \in {0, 1}, b \in {0, 1}, buttons \in SoundButtons :
          /\ ValuesAreSound(a, b, values)
          /\ dialog = SoundSection(a, b, buttons, values)
    BY DEF ActiveIInv, IsSound
  <1>2. rebuilt = Remade(a, b, values)
    BY <1>1, RebuiltIs DEF ActiveIInv
  <1>3. SettingNames = NamesOf(a, b)
    <2>1. dialog.items = ItemsOf(a, b)
      BY <1>1 DEF SoundSection, SectionOf
    <2> QED
      BY <2>1, RangeIs, NamesShown DEF SettingNames
  <1>4. rebuilt.values = V
    BY <1>2 DEF Remade, SectionOf
  <1>5. \A name \in NamesOf(a, b) : name \in DOMAIN V /\ V[name] = values[name]
    <2>1. \A name \in NamesOf(a, b) : name \in DOMAIN values /\ name # Flow
      BY <1>1, NamesShown DEF ValuesAreSound
    <2> HIDE DEF values
    <2> QED
      BY <2>1 DEF WithFlow, WithValue
  <1>6. /\ rebuilt.items = dialog.items /\ rebuilt.valueSet = dialog.valueSet
        /\ rebuilt.minTop = dialog.minTop /\ rebuilt.maxBottom = dialog.maxBottom
        /\ rebuilt.radioButtons = ButtonsFor(values) /\ dialog.radioButtons = buttons
    <2> DEFINE set == ValueSetFor(values)
               top == values["activeMaxValue"]
               bottom == values["activeMinValue"]
    <2> HIDE DEF rebuilt, values
    <2>1. /\ dialog = SectionOf(a, b, buttons, set, top, bottom, values)
          /\ rebuilt = SectionOf(a, b, ButtonsFor(values), set, top, bottom, V)
      BY <1>1, <1>2 DEF SoundSection, Remade
    <2> HIDE DEF set, top, bottom, V
    <2> QED
      BY <2>1 DEF SectionOf
  <1>7. ButtonsFor(values) \union {"Hide me"} = buttons \union {"Hide me"}
    BY DEF ButtonsFor, SoundButtons
  <1> HIDE DEF rebuilt, V
  <1> QED
    BY <1>3, <1>4, <1>5, <1>6, <1>7 DEF IsAsRebuilt, rebuilt

(* Whatever sequence of changes and answers leads to a dialog, and for any *)
(* limits of its spin boxes, no item of it is there twice, its values are  *)
(* those that its items allow, and the answers to single changes agree     *)
(* with the rules applied in turn to the manifest.                         *)
THEOREM DialogsAreSound == ActiveSpec => []DialogIsSound
  <1>1. ActiveIInv => DialogIsSound
    BY SoundDialogsFit, SoundDialogsAreAsRebuilt DEF DialogIsSound
  <1> QED
    BY <1>1, DialogsStaySound, PTL

----------------------------------------------------------------------------
(* StubSettings: what is read of the dialogs.                              *)

(* A value is read as it is shown; and so are those that can be chosen.    *)
IsReadWell(how, v) == \A old : Agrees(how, ReadAs(how, v, old), v)

ReadsWell(how, choices) == \A v \in choices : IsReadWell(how, v)

(* toBool(), fromString(), and the filter of object_streamer.              *)
LEMMA BooleansAreRead ==
  /\ ReadsWell("toBool", {"true", "false"})
  /\ ReadsWell("filter", {"true", "false"})
  /\ ReadsWell("bool", {"true", "false"})
  <1>1. ReadsWell("toBool", {"true", "false"})
    BY DEF ReadsWell, IsReadWell, Agrees, ReadAs
  <1>2. ReadsWell("filter", {"true", "false"})
    <2>1. ASSUME NEW v \in {"true", "false"}, NEW old
          PROVE  ReadAs("filter", v, old) = v
      BY DEF ReadAs
    <2>2. ASSUME NEW v PROVE Agrees("filter", v, v)
      BY DEF Agrees
    <2> QED
      BY <2>1, <2>2 DEF ReadsWell, IsReadWell
  <1>3. ReadsWell("bool", {"true", "false"})
    BY DEF ReadsWell, IsReadWell, Agrees, ReadAs
  <1> QED
    BY <1>1, <1>2, <1>3

(* std::stoi() and std::stof(): the limits of the items are whole numbers. *)
LEMMA NumbersAreRead ==
  ASSUME NEW choices \in SUBSET WholeNumbers
  PROVE  /\ ReadsWell("int", choices)
         /\ ReadsWell("seconds", choices)
         /\ ReadsWell("intSetting", choices)
         /\ ReadsWell("count", choices)
         /\ ReadsWell("float", choices)
  <1>1. ReadsWell("int", choices)
    BY DEF ReadsWell, IsReadWell, Agrees, ReadAs
  <1>2. ReadsWell("seconds", choices)
    BY DEF ReadsWell, IsReadWell, Agrees, ReadAs
  <1>3. ReadsWell("intSetting", choices)
    BY DEF ReadsWell, IsReadWell, Agrees, ReadAs
  <1>4. ReadsWell("count", choices)
    BY DEF ReadsWell, IsReadWell, Agrees, ReadAs
  <1>5. ReadsWell("float", choices)
    BY DEF ReadsWell, IsReadWell, Agrees, ReadAs
  <1> QED
    BY <1>1, <1>2, <1>3, <1>4, <1>5

(* std::stof() of what a DoubleSpinBox gives.                              *)
LEMMA FractionsAreRead ==
  ASSUME NEW choices \in SUBSET Fractions
  PROVE  ReadsWell("float", choices)
  <1>1. ReadsWell("float", choices)
    BY DEF ReadsWell, IsReadWell, Agrees, ReadAs
  <1> QED
    BY <1>1

(* Texts, that may be replaced or changed when they are read.              *)
LEMMA TextsAreRead ==
  ASSUME NEW choices
  PROVE  /\ ReadsWell("text", choices)
         /\ ReadsWell("title", choices)
         /\ ReadsWell("toUpper", choices)
         /\ ReadsWell("file", choices)
  <1>1. ReadsWell("text", choices)
    BY DEF ReadsWell, IsReadWell, Agrees, ReadAs
  <1>2. ReadsWell("title", choices)
    BY DEF ReadsWell, IsReadWell, Agrees, ReadAs
  <1>3. ReadsWell("toUpper", choices)
    BY DEF ReadsWell, IsReadWell, Agrees, ReadAs
  <1>4. ReadsWell("file", choices)
    <2>1. ASSUME NEW v, NEW old
          PROVE  Agrees("file", ReadAs("file", v, old), v)
      BY DEF Agrees, ReadAs
    <2> QED
      BY <2>1 DEF ReadsWell, IsReadWell
  <1> QED
    BY <1>1, <1>2, <1>3, <1>4

(* Names of a domain and of policies.                                      *)
LEMMA NamesAreRead ==
  /\ ReadsWell("domain", {"vms", "cloud"})
  /\ ReadsWell("bestShotPolicy",
       {"fixedBoundingBoxBestShotGenerationPolicy", "urlBestShotGenerationPolicy",
        "imageBestShotGenerationPolicy"})
  /\ ReadsWell("titlePolicy",
       {"fixedBoundingBoxTitleGenerationPolicy", "urlTitleGenerationPolicy",
        "imageTitleGenerationPolicy"})
  <1>1. ReadsWell("domain", {"vms", "cloud"})
    BY DEF ReadsWell, IsReadWell, Agrees, ReadAs
  <1>2. ReadsWell("bestShotPolicy",
       {"fixedBoundingBoxBestShotGenerationPolicy", "urlBestShotGenerationPolicy",
        "imageBestShotGenerationPolicy"})
    BY DEF ReadsWell, IsReadWell, Agrees, ReadAs
  <1>3. ReadsWell("titlePolicy",
       {"fixedBoundingBoxTitleGenerationPolicy", "urlTitleGenerationPolicy",
        "imageTitleGenerationPolicy"})
    BY DEF ReadsWell, IsReadWell, Agrees, ReadAs
  <1> QED
    BY <1>1, <1>2, <1>3


(* An item whose values are read by a plugin as they are shown.            *)
Suits(item, how) == item.default \in item.choices /\ ReadsWell(how, item.choices)

(* A setting that is read is in the dialog, and suits; or it is the filter *)
(* of a stream other than the default one.                                 *)
IsServed(items, m, reading) ==
  \/ reading.setting \in DOMAIN items /\ Suits(items[reading.setting], reading.how)
  \/ reading.how = "filter" /\ m \notin StreamTypeIds[DefaultPath]

(* Every setting that is read is there, and every one that is there is     *)
(* read.                                                                   *)
AreServed(items, reads) == \A m \in DOMAIN reads : IsServed(items, m, reads[m])
AreRead(items, reads) == \A n \in DOMAIN items : \E m \in DOMAIN reads : reads[m].setting = n

(* The same of a part of a dialog that has these settings and members.     *)
Fits(items, reads, settings, names) ==
  /\ AreServed(items, reads) /\ AreRead(items, reads)
  /\ DOMAIN items = settings /\ DOMAIN reads = names

(* One part after another, and values over others.                         *)
Joins(h, f, g) ==
  /\ DOMAIN h = DOMAIN f \union DOMAIN g
  /\ \A x \in DOMAIN f : h[x] = f[x]
  /\ \A x \in DOMAIN g : x \notin DOMAIN f => h[x] = g[x]

LEMMA JoinIs ==
  ASSUME NEW f, NEW g
  PROVE  Joins(f ++ g, f, g)
  <1> DEFINE F == DOMAIN f
             U == F \union DOMAIN g
             h == [x \in U |-> IF x \in F THEN f[x] ELSE g[x]]
  <1>1. f ++ g = h
    BY DEF ++
  <1>2. /\ \A x \in F : x \in U
        /\ \A x \in DOMAIN g : x \in U
    OBVIOUS
  <1> HIDE DEF F, U
  <1>3. DOMAIN h = U
    OBVIOUS
  <1>4. ASSUME NEW x \in F PROVE h[x] = f[x]
    BY <1>2, <1>4
  <1>5. ASSUME NEW x \in DOMAIN g, x \notin F PROVE h[x] = g[x]
    BY <1>2, <1>5
  <1> HIDE DEF h
  <1>6. Joins(h, f, g)
    BY <1>3, <1>4, <1>5 DEF Joins, F, U
  <1> QED
    BY <1>1, <1>6, Zenon

(* Parts that share neither settings nor members fit together.             *)
LEMMA JoinFits ==
  ASSUME NEW f, NEW g, NEW p, NEW q, NEW S, NEW T, NEW M, NEW N,
         Fits(f, p, S, M), Fits(g, q, T, N), S \intersect T = {}, M \intersect N = {}
  PROVE  Fits(f ++ g, p ++ q, S \union T, M \union N)
  <1> DEFINE D == f ++ g
             R == p ++ q
  <1>0. Joins(D, f, g) /\ Joins(R, p, q)
    BY JoinIs
  <1> HIDE DEF D, R
  <1>1. DOMAIN D = S \union T /\ DOMAIN R = M \union N
    BY <1>0 DEF Joins, Fits
  <1>2. /\ \A n \in DOMAIN f : D[n] = f[n]
        /\ \A m \in DOMAIN p : R[m] = p[m]
    BY <1>0 DEF Joins
  <1>3. \A n \in DOMAIN g : D[n] = g[n]
    <2>1. \A n \in DOMAIN g : n \notin DOMAIN f
      BY DEF Fits
    <2> QED
      BY <1>0, <2>1 DEF Joins
  <1>4. \A m \in DOMAIN q : R[m] = q[m]
    <2>1. \A m \in DOMAIN q : m \notin DOMAIN p
      BY DEF Fits
    <2> QED
      BY <1>0, <2>1 DEF Joins
  <1>5. AreServed(D, R)
    <2>1. ASSUME NEW m \in DOMAIN p PROVE IsServed(D, m, R[m])
      BY <1>1, <1>2, <2>1 DEF Fits, AreServed, IsServed
    <2>2. ASSUME NEW m \in DOMAIN q PROVE IsServed(D, m, R[m])
      BY <1>1, <1>3, <1>4, <2>2 DEF Fits, AreServed, IsServed
    <2> QED
      BY <1>1, <2>1, <2>2 DEF AreServed, Fits
  <1>6. AreRead(D, R)
    <2>1. ASSUME NEW n \in DOMAIN f PROVE \E m \in DOMAIN R : R[m].setting = n
      <3>1. PICK m \in DOMAIN p : p[m].setting = n
        BY <2>1 DEF Fits, AreRead
      <3>2. m \in DOMAIN R /\ R[m] = p[m]
        BY <1>1, <1>2, <3>1 DEF Fits
      <3> QED
        BY <3>1, <3>2
    <2>2. ASSUME NEW n \in DOMAIN g PROVE \E m \in DOMAIN R : R[m].setting = n
      <3>1. PICK m \in DOMAIN q : q[m].setting = n
        BY <2>2 DEF Fits, AreRead
      <3>2. m \in DOMAIN R /\ R[m] = q[m]
        BY <1>1, <1>4, <3>1 DEF Fits
      <3> QED
        BY <3>1, <3>2
    <2> QED
      BY <1>1, <2>1, <2>2 DEF AreRead, Fits
  <1> QED
    BY <1>1, <1>5, <1>6 DEF Fits, D, R

(* Settings that have items of one kind and members of the same names.     *)
LEMMA NamesFit ==
  ASSUME NEW names, NEW item, NEW how, NEW initial, Suits(item, how)
  PROVE  Fits(Each(names, item), EachRead(names, how, initial), names, names)
  BY DEF Fits, AreServed, AreRead, IsServed, Suits, Each, EachRead, Reading

(* A setting that is read into a member of another name.                   *)
LEMMA RenamedFits ==
  ASSUME NEW name, NEW member, NEW item, NEW how, NEW initial, Suits(item, how)
  PROVE  Fits(Each({name}, item), Each({member}, Reading(name, how, initial)), {name}, {member})
  BY DEF Fits, AreServed, AreRead, IsServed, Suits, Each, Reading

(* The kinds of items.                                                     *)
LEMMA CheckBoxesSuit ==
  /\ Suits(CheckBox("false"), "toBool") /\ Suits(CheckBox("true"), "toBool")
  /\ Suits(CheckBox("false"), "bool") /\ Suits(CheckBox("true"), "bool")
  /\ Suits(CheckBox("true"), "filter")
  <1>1. /\ CheckBox("false").choices = {"true", "false"}
        /\ CheckBox("true").choices = {"true", "false"}
        /\ CheckBox("false").default = "false" /\ CheckBox("true").default = "true"
    BY DEF CheckBox, DialogItem
  <1>2. /\ CheckBox("false").default \in CheckBox("false").choices
        /\ CheckBox("true").default \in CheckBox("true").choices
    BY <1>1
  <1>3. /\ ReadsWell("toBool", CheckBox("false").choices)
        /\ ReadsWell("toBool", CheckBox("true").choices)
        /\ ReadsWell("bool", CheckBox("false").choices)
        /\ ReadsWell("bool", CheckBox("true").choices)
        /\ ReadsWell("filter", CheckBox("true").choices)
    BY <1>1, BooleansAreRead
  <1> QED
    BY <1>2, <1>3 DEF Suits

(* Numbers in their limits.                                                *)
LEMMA SpinBoxesSuit ==
  ASSUME NEW lowest \in WholeNumbers, NEW d \in WholeNumbers, NEW highest \in WholeNumbers
  PROVE  /\ Suits(SpinBox(lowest, d, highest), "int")
         /\ Suits(SpinBox(lowest, d, highest), "seconds")
         /\ Suits(SpinBox(lowest, d, highest), "count")
         /\ Suits(SpinBox(lowest, d, highest), "intSetting")
  <1> HIDE DEF WholeNumbers
  <1>1. SpinBox(lowest, d, highest).choices \in SUBSET WholeNumbers
    BY DEF SpinBox, DialogItem
  <1>2. SpinBox(lowest, d, highest).default \in SpinBox(lowest, d, highest).choices
    BY DEF SpinBox, DialogItem
  <1> QED
    BY <1>1, <1>2, NumbersAreRead DEF Suits

(* Fractions.                                                              *)
LEMMA DoubleSpinBoxesSuit ==
  /\ Suits(DoubleSpinBox("0.0"), "float") /\ Suits(DoubleSpinBox("0.2"), "float")
  <1>1. /\ DoubleSpinBox("0.0").choices \in SUBSET Fractions
        /\ DoubleSpinBox("0.2").choices \in SUBSET Fractions
    BY DEF DoubleSpinBox, DialogItem, Fractions
  <1>2. /\ DoubleSpinBox("0.0").default \in DoubleSpinBox("0.0").choices
        /\ DoubleSpinBox("0.2").default \in DoubleSpinBox("0.2").choices
    BY DEF DoubleSpinBox, DialogItem
  <1>3. /\ ReadsWell("float", DoubleSpinBox("0.0").choices)
        /\ ReadsWell("float", DoubleSpinBox("0.2").choices)
    BY <1>1, FractionsAreRead
  <1> QED
    BY <1>2, <1>3 DEF Suits

(* Any text, and texts among a few.                                        *)
LEMMA TextsSuit ==
  ASSUME NEW d, NEW choices
  PROVE  /\ Suits(DialogItem(d, choices), "text") /\ Suits(DialogItem(d, choices), "title")
         /\ Suits(DialogItem(d, choices), "toUpper") /\ Suits(DialogItem(d, choices), "file")
  <1>1. DialogItem(d, choices).default \in DialogItem(d, choices).choices
    BY DEF DialogItem
  <1> QED
    BY <1>1, TextsAreRead DEF Suits

(* A text field.                                                           *)
LEMMA FieldsSuit ==
  ASSUME NEW d
  PROVE  /\ Suits(Field(d), "text") /\ Suits(Field(d), "title") /\ Suits(Field(d), "file")
  BY TextsSuit DEF Field

(* Domains and policies, where other names would be replaced.              *)
LEMMA NamesSuit ==
  /\ Suits(DialogItem("vms", {"cloud"}), "domain")
  /\ Suits(DialogItem("fixedBoundingBoxBestShotGenerationPolicy",
              {"urlBestShotGenerationPolicy", "imageBestShotGenerationPolicy"}),
            "bestShotPolicy")
  /\ Suits(DialogItem("fixedBoundingBoxTitleGenerationPolicy",
              {"urlTitleGenerationPolicy", "imageTitleGenerationPolicy"}),
            "titlePolicy")
  <1>1. /\ DialogItem("vms", {"cloud"}).choices = {"vms", "cloud"}
        /\ DialogItem("fixedBoundingBoxBestShotGenerationPolicy",
             {"urlBestShotGenerationPolicy", "imageBestShotGenerationPolicy"}).choices
             = {"fixedBoundingBoxBestShotGenerationPolicy", "urlBestShotGenerationPolicy",
                "imageBestShotGenerationPolicy"}
        /\ DialogItem("fixedBoundingBoxTitleGenerationPolicy",
             {"urlTitleGenerationPolicy", "imageTitleGenerationPolicy"}).choices
             = {"fixedBoundingBoxTitleGenerationPolicy", "urlTitleGenerationPolicy",
                "imageTitleGenerationPolicy"}
    BY DEF DialogItem
  <1>2. ASSUME NEW d, NEW choices
        PROVE  DialogItem(d, choices).default \in DialogItem(d, choices).choices
    BY DEF DialogItem
  <1>3. /\ ReadsWell("domain", DialogItem("vms", {"cloud"}).choices)
        /\ ReadsWell("bestShotPolicy",
             DialogItem("fixedBoundingBoxBestShotGenerationPolicy",
             {"urlBestShotGenerationPolicy", "imageBestShotGenerationPolicy"}).choices)
        /\ ReadsWell("titlePolicy",
             DialogItem("fixedBoundingBoxTitleGenerationPolicy",
             {"urlTitleGenerationPolicy", "imageTitleGenerationPolicy"}).choices)
    BY <1>1, NamesAreRead, Zenon
  <1> QED
    BY <1>2, <1>3, Zenon DEF Suits

(* The limits and defaults of the spin boxes.                              *)
LEMMA NumbersAre ==
  /\ {"0", "1", "5", "8", "10", "32", "100"} \subseteq WholeNumbers
  /\ {"3", "1000", "65432", "65535", "100000", "1000000000"} \subseteq WholeNumbers
  BY DEF WholeNumbers

----------------------------------------------------------------------------
(* All of the items that are read, but for those of types.                 *)
LEMMA ItemsSuit ==
  /\ Suits(CheckBox("false"), "toBool")
  /\ Suits(DialogItem("No special color", {"Magenta", "!invalid!"}), "text")
  /\ Suits(SpinBox("0", "0", "100000"), "int")
  /\ Suits(SpinBox("1", "1", "100000"), "int")
  /\ Suits(SpinBox("0", "0", "1000000000"), "int")
  /\ Suits(DoubleSpinBox("0.0"), "float")
  /\ Suits(CheckBox("true"), "bool")
  /\ Suits(DialogItem("fixedBoundingBoxBestShotGenerationPolicy",
             {"urlBestShotGenerationPolicy", "imageBestShotGenerationPolicy"}), "bestShotPolicy")
  /\ Suits(SpinBox("0", "1", "100"), "count")
  /\ Suits(SpinBox("0", "0", "100"), "int")
  /\ Suits(DoubleSpinBox("0.2"), "float")
  /\ Suits(Field(""), "text")
  /\ Suits(Field(""), "file")
  /\ Suits(DialogItem("fixedBoundingBoxTitleGenerationPolicy",
             {"urlTitleGenerationPolicy", "imageTitleGenerationPolicy"}), "titlePolicy")
  /\ Suits(Field(""), "title")
  /\ Suits(SpinBox("1", "8", "1000000000"), "int")
  /\ Suits(DialogItem("vms", {"cloud"}), "domain")
  /\ Suits(SpinBox("1", "1", "100"), "seconds")
  /\ Suits(Field("/rest/v4/site/settings"), "text")
  /\ Suits(DialogItem("GET", {"get", ""}), "toUpper")
  /\ Suits(Field("text/plain"), "text")
  /\ Suits(CheckBox("true"), "toBool")
  /\ Suits(SpinBox("5", "32", "100"), "intSetting")
  /\ Suits(SpinBox("1", "8", "100"), "intSetting")
  /\ Suits(SpinBox("3", "100", "1000"), "intSetting")
  /\ Suits(SpinBox("1", "10", "1000"), "intSetting")
  /\ Suits(SpinBox("1", "65432", "65535"), "intSetting")
  <1>1. Suits(SpinBox("0", "0", "100000"), "int")
    BY SpinBoxesSuit, NumbersAre
  <1>2. Suits(SpinBox("1", "1", "100000"), "int")
    BY SpinBoxesSuit, NumbersAre
  <1>3. Suits(SpinBox("0", "0", "1000000000"), "int")
    BY SpinBoxesSuit, NumbersAre
  <1>4. Suits(SpinBox("0", "1", "100"), "count")
    BY SpinBoxesSuit, NumbersAre
  <1>5. Suits(SpinBox("0", "0", "100"), "int")
    BY SpinBoxesSuit, NumbersAre
  <1>6. Suits(SpinBox("1", "8", "1000000000"), "int")
    BY SpinBoxesSuit, NumbersAre
  <1>7. Suits(SpinBox("1", "1", "100"), "seconds")
    BY SpinBoxesSuit, NumbersAre
  <1>8. Suits(SpinBox("5", "32", "100"), "intSetting")
    BY SpinBoxesSuit, NumbersAre
  <1>9. Suits(SpinBox("1", "8", "100"), "intSetting")
    BY SpinBoxesSuit, NumbersAre
  <1>10. Suits(SpinBox("3", "100", "1000"), "intSetting")
    BY SpinBoxesSuit, NumbersAre
  <1>11. Suits(SpinBox("1", "10", "1000"), "intSetting")
    BY SpinBoxesSuit, NumbersAre
  <1>12. Suits(SpinBox("1", "65432", "65535"), "intSetting")
    BY SpinBoxesSuit, NumbersAre
  <1>13. /\ Suits(CheckBox("false"), "toBool")
         /\ Suits(CheckBox("true"), "bool")
         /\ Suits(CheckBox("true"), "toBool")
    BY CheckBoxesSuit
  <1>14. /\ Suits(DoubleSpinBox("0.0"), "float")
         /\ Suits(DoubleSpinBox("0.2"), "float")
    BY DoubleSpinBoxesSuit
  <1>15. /\ Suits(Field(""), "text")
         /\ Suits(Field(""), "file")
         /\ Suits(Field(""), "title")
         /\ Suits(Field("/rest/v4/site/settings"), "text")
         /\ Suits(Field("text/plain"), "text")
    BY FieldsSuit
  <1>16. /\ Suits(DialogItem("No special color", {"Magenta", "!invalid!"}), "text")
         /\ Suits(DialogItem("GET", {"get", ""}), "toUpper")
    BY TextsSuit
  <1>17. /\ Suits(DialogItem("fixedBoundingBoxBestShotGenerationPolicy",
                    {"urlBestShotGenerationPolicy", "imageBestShotGenerationPolicy"}), "bestShotPolicy")
         /\ Suits(DialogItem("fixedBoundingBoxTitleGenerationPolicy",
                    {"urlTitleGenerationPolicy", "imageTitleGenerationPolicy"}), "titlePolicy")
         /\ Suits(DialogItem("vms", {"cloud"}), "domain")
    BY NamesSuit
  <1> QED
    BY <1>1, <1>2, <1>3, <1>4, <1>5, <1>6, <1>7, <1>8, <1>9, <1>10, <1>11, <1>12,
       <1>13, <1>14, <1>15, <1>16, <1>17

(* The settings and the members of both halves of best_shots_and_titles.   *)
BestShotSettings ==
  {"enableBestShotGeneration", "bestShotGenerationPolicy", "bestShotObjectCount",
   "frameNumberToGenerateBestShot", "bestShotTopLeftX", "bestShotTopLeftY",
   "bestShotWidth", "bestShotHeight", "bestShotUrl", "bestShotImage"}
BestShotMembers ==
  {"generateBestShot", "bestShotPolicy", "bestShotTracks",
   "frameNumberToGenerateBestShot", "bestShotX", "bestShotY", "bestShotWidth",
   "bestShotHeight", "bestShotUrl", "bestShotImageData"}
TitleSettings ==
  {"enableObjectTitleGeneration", "titleGenerationPolicy", "titleObjectCount",
   "frameNumberToGenerateTitle", "titleTopLeftX", "titleTopLeftY", "titleWidth",
   "titleHeight", "titleUrl", "titleImage", "titleText"}
TitleMembers ==
  {"generateTitle", "titlePolicy", "titleTracks", "frameNumberToGenerateTitle",
   "titleX", "titleY", "titleWidth", "titleHeight", "titleUrl", "titleImageData",
   "titleText"}

(* Settings of special_objects.                                            *)
LEMMA SpecialObjectsFits ==
  \E S, M : Fits(SpecialObjectsDialog, SpecialObjectsReads, S, M)
  <1> DEFINE S1 == {"generateFixedObject", "generateCounter", "generatePoint",
                    "generateEmptyNameObject", "blinkingObjectInDedicatedPacket"}
             D1 == Each(S1, CheckBox("false"))
             R1 == EachRead(S1, "toBool", "false")
             S2 == {"fixedObjectColor"}
             D2 == Each(S2, DialogItem("No special color", {"Magenta", "!invalid!"}))
             R2 == EachRead(S2, "text", "")
             S3 == {"blinkingObjectPeriodMs"}
             D3 == Each(S3, SpinBox("0", "0", "100000"))
             R3 == EachRead(S3, "int", "0")
             S4 == {"generateObjectsEveryNFrames"}
             D4 == Each(S4, SpinBox("1", "1", "100000"))
             R4 == EachRead(S4, "int", "1")
             S5 == {"overallMetadataDelayMs", "additionalFrameProcessingDelayMs"}
             D5 == Each(S5, SpinBox("0", "0", "1000000000"))
             R5 == EachRead(S5, "int", "0")
             S6 == {"counterBoundingBoxSideSize"}
             D6 == Each(S6, DoubleSpinBox("0.0"))
             R6 == EachRead(S6, "float", "0.0")
             S7 == {"counterXOffset"}
             M7 == {"counterBoundingBoxXOffset"}
             D7 == Each(S7, DoubleSpinBox("0.0"))
             R7 == Each(M7, Reading("counterXOffset", "float", "0.0"))
             S8 == {"counterYOffset"}
             M8 == {"counterBoundingBoxYOffset"}
             D8 == Each(S8, DoubleSpinBox("0.0"))
             R8 == Each(M8, Reading("counterYOffset", "float", "0.0"))
  (* The parts, one after another. *)
  <1> DEFINE F2 == D1 ++ D2
             Q2 == R1 ++ R2
             U2 == S1 \union S2
             F3 == F2 ++ D3
             Q3 == Q2 ++ R3
             U3 == U2 \union S3
             F4 == F3 ++ D4
             Q4 == Q3 ++ R4
             U4 == U3 \union S4
             F5 == F4 ++ D5
             Q5 == Q4 ++ R5
             U5 == U4 \union S5
             F6 == F5 ++ D6
             Q6 == Q5 ++ R6
             U6 == U5 \union S6
             F7 == F6 ++ D7
             Q7 == Q6 ++ R7
             U7 == U6 \union S7
             V7 == U6 \union M7
             F8 == F7 ++ D8
             Q8 == Q7 ++ R8
             U8 == U7 \union S8
             V8 == V7 \union M8
  <1>1. Fits(D1, R1, S1, S1)
    BY ItemsSuit, NamesFit
  <1>2. Fits(D2, R2, S2, S2)
    BY ItemsSuit, NamesFit
  <1>3. Fits(D3, R3, S3, S3)
    BY ItemsSuit, NamesFit
  <1>4. Fits(D4, R4, S4, S4)
    BY ItemsSuit, NamesFit
  <1>5. Fits(D5, R5, S5, S5)
    BY ItemsSuit, NamesFit
  <1>6. Fits(D6, R6, S6, S6)
    BY ItemsSuit, NamesFit
  <1>7. Fits(D7, R7, S7, M7)
    BY ItemsSuit, RenamedFits
  <1>8. Fits(D8, R8, S8, M8)
    BY ItemsSuit, RenamedFits
  <1>9. /\ S1 \intersect S2 = {}
        /\ U2 \intersect S3 = {}
        /\ U3 \intersect S4 = {}
        /\ U4 \intersect S5 = {}
        /\ U5 \intersect S6 = {}
        /\ U6 \intersect S7 = {}
        /\ U6 \intersect M7 = {}
        /\ U7 \intersect S8 = {}
        /\ V7 \intersect M8 = {}
    OBVIOUS
  <1> HIDE DEF D1, R1, S1, D2, R2, S2, D3, R3, S3, D4, R4, S4, D5, R5, S5, D6, R6,
               S6, D7, M7, R7, S7, D8, M8, R8, S8, F2, Q2, U2, F3, Q3, U3, F4, Q4,
               U4, F5, Q5, U5, F6, Q6, U6, F7, Q7, U7, V7, F8, Q8, U8, V8
  <1>10. Fits(F2, Q2, U2, U2)
    BY <1>1, <1>2, <1>9, JoinFits DEF F2, Q2, U2
  <1>11. Fits(F3, Q3, U3, U3)
    BY <1>10, <1>3, <1>9, JoinFits DEF F3, Q3, U3
  <1>12. Fits(F4, Q4, U4, U4)
    BY <1>11, <1>4, <1>9, JoinFits DEF F4, Q4, U4
  <1>13. Fits(F5, Q5, U5, U5)
    BY <1>12, <1>5, <1>9, JoinFits DEF F5, Q5, U5
  <1>14. Fits(F6, Q6, U6, U6)
    BY <1>13, <1>6, <1>9, JoinFits DEF F6, Q6, U6
  <1>15. Fits(F7, Q7, U7, V7)
    BY <1>14, <1>7, <1>9, JoinFits DEF F7, Q7, U7, V7
  <1>16. Fits(F8, Q8, U8, V8)
    BY <1>15, <1>8, <1>9, JoinFits DEF F8, Q8, U8, V8
  <1> QED
    BY <1>16
       DEF SpecialObjectsDialog, SpecialObjectsReads, D1, R1, S1, D2, R2, S2, D3,
           R3, S3, D4, R4, S4, D5, R5, S5, D6, R6, S6, D7, M7, R7, S7, D8, M8, R8,
           S8, F2, Q2, F3, Q3, F4, Q4, F5, Q5, F6, Q6, F7, Q7, F8, Q8

(* Settings of best shots.                                                 *)
LEMMA BestShotsFit ==
  Fits(BestShotItems, BestShotReads, BestShotSettings, BestShotMembers)
  <1> DEFINE S1 == {"enableBestShotGeneration"}
             M1 == {"generateBestShot"}
             D1 == Each(S1, CheckBox("true"))
             R1 == Each(M1, Reading("enableBestShotGeneration", "bool", "true"))
             S2 == {"bestShotGenerationPolicy"}
             M2 == {"bestShotPolicy"}
             D2 == Each(S2, DialogItem("fixedBoundingBoxBestShotGenerationPolicy",
                    {"urlBestShotGenerationPolicy",
                    "imageBestShotGenerationPolicy"}))
             R2 == Each(M2, Reading("bestShotGenerationPolicy", "bestShotPolicy",
                    "unset"))
             S3 == {"bestShotObjectCount"}
             M3 == {"bestShotTracks"}
             D3 == Each(S3, SpinBox("0", "1", "100"))
             R3 == Each(M3, Reading("bestShotObjectCount", "count", "0"))
             S4 == {"frameNumberToGenerateBestShot"}
             D4 == Each(S4, SpinBox("0", "0", "100"))
             R4 == EachRead(S4, "int", "0")
             S5 == {"bestShotTopLeftX"}
             M5 == {"bestShotX"}
             D5 == Each(S5, DoubleSpinBox("0.0"))
             R5 == Each(M5, Reading("bestShotTopLeftX", "float", "-1"))
             S6 == {"bestShotTopLeftY"}
             M6 == {"bestShotY"}
             D6 == Each(S6, DoubleSpinBox("0.0"))
             R6 == Each(M6, Reading("bestShotTopLeftY", "float", "-1"))
             S7 == {"bestShotWidth", "bestShotHeight"}
             D7 == Each(S7, DoubleSpinBox("0.2"))
             R7 == EachRead(S7, "float", "-1")
             S8 == {"bestShotUrl"}
             D8 == Each(S8, Field(""))
             R8 == EachRead(S8, "text", "")
             S9 == {"bestShotImage"}
             M9 == {"bestShotImageData"}
             D9 == Each(S9, Field(""))
             R9 == Each(M9, Reading("bestShotImage", "file", ""))
  (* The parts, one after another. *)
  <1> DEFINE F2 == D1 ++ D2
             Q2 == R1 ++ R2
             U2 == S1 \union S2
             V2 == M1 \union M2
             F3 == F2 ++ D3
             Q3 == Q2 ++ R3
             U3 == U2 \union S3
             V3 == V2 \union M3
             F4 == F3 ++ D4
             Q4 == Q3 ++ R4
             U4 == U3 \union S4
             V4 == V3 \union S4
             F5 == F4 ++ D5
             Q5 == Q4 ++ R5
             U5 == U4 \union S5
             V5 == V4 \union M5
             F6 == F5 ++ D6
             Q6 == Q5 ++ R6
             U6 == U5 \union S6
             V6 == V5 \union M6
             F7 == F6 ++ D7
             Q7 == Q6 ++ R7
             U7 == U6 \union S7
             V7 == V6 \union S7
             F8 == F7 ++ D8
             Q8 == Q7 ++ R8
             U8 == U7 \union S8
             V8 == V7 \union S8
             F9 == F8 ++ D9
             Q9 == Q8 ++ R9
             U9 == U8 \union S9
             V9 == V8 \union M9
  <1>1. Fits(D1, R1, S1, M1)
    BY ItemsSuit, RenamedFits
  <1>2. Fits(D2, R2, S2, M2)
    BY ItemsSuit, RenamedFits
  <1>3. Fits(D3, R3, S3, M3)
    BY ItemsSuit, RenamedFits
  <1>4. Fits(D4, R4, S4, S4)
    BY ItemsSuit, NamesFit
  <1>5. Fits(D5, R5, S5, M5)
    BY ItemsSuit, RenamedFits
  <1>6. Fits(D6, R6, S6, M6)
    BY ItemsSuit, RenamedFits
  <1>7. Fits(D7, R7, S7, S7)
    BY ItemsSuit, NamesFit
  <1>8. Fits(D8, R8, S8, S8)
    BY ItemsSuit, NamesFit
  <1>9. Fits(D9, R9, S9, M9)
    BY ItemsSuit, RenamedFits
  <1>10. /\ S1 \intersect S2 = {}
         /\ M1 \intersect M2 = {}
         /\ U2 \intersect S3 = {}
         /\ V2 \intersect M3 = {}
         /\ U3 \intersect S4 = {}
         /\ V3 \intersect S4 = {}
         /\ U4 \intersect S5 = {}
         /\ V4 \intersect M5 = {}
         /\ U5 \intersect S6 = {}
         /\ V5 \intersect M6 = {}
         /\ U6 \intersect S7 = {}
         /\ V6 \intersect S7 = {}
         /\ U7 \intersect S8 = {}
         /\ V7 \intersect S8 = {}
         /\ U8 \intersect S9 = {}
         /\ V8 \intersect M9 = {}
    OBVIOUS
  <1>11. U9 = BestShotSettings /\ V9 = BestShotMembers
    BY DEF BestShotSettings, BestShotMembers
  <1> HIDE DEF D1, M1, R1, S1, D2, M2, R2, S2, D3, M3, R3, S3, D4, R4, S4, D5, M5,
               R5, S5, D6, M6, R6, S6, D7, R7, S7, D8, R8, S8, D9, M9, R9, S9, F2,
               Q2, U2, V2, F3, Q3, U3, V3, F4, Q4, U4, V4, F5, Q5, U5, V5, F6, Q6,
               U6, V6, F7, Q7, U7, V7, F8, Q8, U8, V8, F9, Q9, U9, V9
  <1>12. Fits(F2, Q2, U2, V2)
    BY <1>1, <1>2, <1>10, JoinFits DEF F2, Q2, U2, V2
  <1>13. Fits(F3, Q3, U3, V3)
    BY <1>12, <1>3, <1>10, JoinFits DEF F3, Q3, U3, V3
  <1>14. Fits(F4, Q4, U4, V4)
    BY <1>13, <1>4, <1>10, JoinFits DEF F4, Q4, U4, V4
  <1>15. Fits(F5, Q5, U5, V5)
    BY <1>14, <1>5, <1>10, JoinFits DEF F5, Q5, U5, V5
  <1>16. Fits(F6, Q6, U6, V6)
    BY <1>15, <1>6, <1>10, JoinFits DEF F6, Q6, U6, V6
  <1>17. Fits(F7, Q7, U7, V7)
    BY <1>16, <1>7, <1>10, JoinFits DEF F7, Q7, U7, V7
  <1>18. Fits(F8, Q8, U8, V8)
    BY <1>17, <1>8, <1>10, JoinFits DEF F8, Q8, U8, V8
  <1>19. Fits(F9, Q9, U9, V9)
    BY <1>18, <1>9, <1>10, JoinFits DEF F9, Q9, U9, V9
  <1> QED
    BY <1>19, <1>11
       DEF BestShotItems, BestShotReads, D1, M1, R1, S1, D2, M2, R2, S2, D3, M3,
           R3, S3, D4, R4, S4, D5, M5, R5, S5, D6, M6, R6, S6, D7, R7, S7, D8, R8,
           S8, D9, M9, R9, S9, F2, Q2, F3, Q3, F4, Q4, F5, Q5, F6, Q6, F7, Q7, F8,
           Q8, F9, Q9

(* Settings of titles.                                                     *)
LEMMA TitlesFit ==
  Fits(TitleItems, TitleReads, TitleSettings, TitleMembers)
  <1> DEFINE S1 == {"enableObjectTitleGeneration"}
             M1 == {"generateTitle"}
             D1 == Each(S1, CheckBox("true"))
             R1 == Each(M1, Reading("enableObjectTitleGeneration", "bool", "true"))
             S2 == {"titleGenerationPolicy"}
             M2 == {"titlePolicy"}
             D2 == Each(S2, DialogItem("fixedBoundingBoxTitleGenerationPolicy",
                    {"urlTitleGenerationPolicy", "imageTitleGenerationPolicy"}))
             R2 == Each(M2, Reading("titleGenerationPolicy", "titlePolicy", "unset"))
             S3 == {"titleObjectCount"}
             M3 == {"titleTracks"}
             D3 == Each(S3, SpinBox("0", "1", "100"))
             R3 == Each(M3, Reading("titleObjectCount", "count", "0"))
             S4 == {"frameNumberToGenerateTitle"}
             D4 == Each(S4, SpinBox("0", "0", "100"))
             R4 == EachRead(S4, "int", "0")
             S5 == {"titleTopLeftX"}
             M5 == {"titleX"}
             D5 == Each(S5, DoubleSpinBox("0.0"))
             R5 == Each(M5, Reading("titleTopLeftX", "float", "-1"))
             S6 == {"titleTopLeftY"}
             M6 == {"titleY"}
             D6 == Each(S6, DoubleSpinBox("0.0"))
             R6 == Each(M6, Reading("titleTopLeftY", "float", "-1"))
             S7 == {"titleWidth", "titleHeight"}
             D7 == Each(S7, DoubleSpinBox("0.2"))
             R7 == EachRead(S7, "float", "-1")
             S8 == {"titleUrl"}
             D8 == Each(S8, Field(""))
             R8 == EachRead(S8, "text", "")
             S9 == {"titleImage"}
             M9 == {"titleImageData"}
             D9 == Each(S9, Field(""))
             R9 == Each(M9, Reading("titleImage", "file", ""))
             S10 == {"titleText"}
             D10 == Each(S10, Field(""))
             R10 == EachRead(S10, "title", "")
  (* The parts, one after another. *)
  <1> DEFINE F2 == D1 ++ D2
             Q2 == R1 ++ R2
             U2 == S1 \union S2
             V2 == M1 \union M2
             F3 == F2 ++ D3
             Q3 == Q2 ++ R3
             U3 == U2 \union S3
             V3 == V2 \union M3
             F4 == F3 ++ D4
             Q4 == Q3 ++ R4
             U4 == U3 \union S4
             V4 == V3 \union S4
             F5 == F4 ++ D5
             Q5 == Q4 ++ R5
             U5 == U4 \union S5
             V5 == V4 \union M5
             F6 == F5 ++ D6
             Q6 == Q5 ++ R6
             U6 == U5 \union S6
             V6 == V5 \union M6
             F7 == F6 ++ D7
             Q7 == Q6 ++ R7
             U7 == U6 \union S7
             V7 == V6 \union S7
             F8 == F7 ++ D8
             Q8 == Q7 ++ R8
             U8 == U7 \union S8
             V8 == V7 \union S8
             F9 == F8 ++ D9
             Q9 == Q8 ++ R9
             U9 == U8 \union S9
             V9 == V8 \union M9
             F10 == F9 ++ D10
             Q10 == Q9 ++ R10
             U10 == U9 \union S10
             V10 == V9 \union S10
  <1>1. Fits(D1, R1, S1, M1)
    BY ItemsSuit, RenamedFits
  <1>2. Fits(D2, R2, S2, M2)
    BY ItemsSuit, RenamedFits
  <1>3. Fits(D3, R3, S3, M3)
    BY ItemsSuit, RenamedFits
  <1>4. Fits(D4, R4, S4, S4)
    BY ItemsSuit, NamesFit
  <1>5. Fits(D5, R5, S5, M5)
    BY ItemsSuit, RenamedFits
  <1>6. Fits(D6, R6, S6, M6)
    BY ItemsSuit, RenamedFits
  <1>7. Fits(D7, R7, S7, S7)
    BY ItemsSuit, NamesFit
  <1>8. Fits(D8, R8, S8, S8)
    BY ItemsSuit, NamesFit
  <1>9. Fits(D9, R9, S9, M9)
    BY ItemsSuit, RenamedFits
  <1>10. Fits(D10, R10, S10, S10)
    BY ItemsSuit, NamesFit
  <1>11. /\ S1 \intersect S2 = {}
         /\ M1 \intersect M2 = {}
         /\ U2 \intersect S3 = {}
         /\ V2 \intersect M3 = {}
         /\ U3 \intersect S4 = {}
         /\ V3 \intersect S4 = {}
         /\ U4 \intersect S5 = {}
         /\ V4 \intersect M5 = {}
         /\ U5 \intersect S6 = {}
         /\ V5 \intersect M6 = {}
         /\ U6 \intersect S7 = {}
         /\ V6 \intersect S7 = {}
         /\ U7 \intersect S8 = {}
         /\ V7 \intersect S8 = {}
         /\ U8 \intersect S9 = {}
         /\ V8 \intersect M9 = {}
         /\ U9 \intersect S10 = {}
         /\ V9 \intersect S10 = {}
    OBVIOUS
  <1>12. U10 = TitleSettings /\ V10 = TitleMembers
    BY DEF TitleSettings, TitleMembers
  <1> HIDE DEF D1, M1, R1, S1, D2, M2, R2, S2, D3, M3, R3, S3, D4, R4, S4, D5, M5,
               R5, S5, D6, M6, R6, S6, D7, R7, S7, D8, R8, S8, D9, M9, R9, S9, D10,
               R10, S10, F2, Q2, U2, V2, F3, Q3, U3, V3, F4, Q4, U4, V4, F5, Q5,
               U5, V5, F6, Q6, U6, V6, F7, Q7, U7, V7, F8, Q8, U8, V8, F9, Q9, U9,
               V9, F10, Q10, U10, V10
  <1>13. Fits(F2, Q2, U2, V2)
    BY <1>1, <1>2, <1>11, JoinFits DEF F2, Q2, U2, V2
  <1>14. Fits(F3, Q3, U3, V3)
    BY <1>13, <1>3, <1>11, JoinFits DEF F3, Q3, U3, V3
  <1>15. Fits(F4, Q4, U4, V4)
    BY <1>14, <1>4, <1>11, JoinFits DEF F4, Q4, U4, V4
  <1>16. Fits(F5, Q5, U5, V5)
    BY <1>15, <1>5, <1>11, JoinFits DEF F5, Q5, U5, V5
  <1>17. Fits(F6, Q6, U6, V6)
    BY <1>16, <1>6, <1>11, JoinFits DEF F6, Q6, U6, V6
  <1>18. Fits(F7, Q7, U7, V7)
    BY <1>17, <1>7, <1>11, JoinFits DEF F7, Q7, U7, V7
  <1>19. Fits(F8, Q8, U8, V8)
    BY <1>18, <1>8, <1>11, JoinFits DEF F8, Q8, U8, V8
  <1>20. Fits(F9, Q9, U9, V9)
    BY <1>19, <1>9, <1>11, JoinFits DEF F9, Q9, U9, V9
  <1>21. Fits(F10, Q10, U10, V10)
    BY <1>20, <1>10, <1>11, JoinFits DEF F10, Q10, U10, V10
  <1> QED
    BY <1>21, <1>12
       DEF TitleItems, TitleReads, D1, M1, R1, S1, D2, M2, R2, S2, D3, M3, R3, S3,
           D4, R4, S4, D5, M5, R5, S5, D6, M6, R6, S6, D7, R7, S7, D8, R8, S8, D9,
           M9, R9, S9, D10, R10, S10, F2, Q2, F3, Q3, F4, Q4, F5, Q5, F6, Q6, F7,
           Q7, F8, Q8, F9, Q9, F10, Q10

(* Settings of motion_metadata.                                            *)
LEMMA MotionFits ==
  \E S, M : Fits(MotionDialog, MotionReads, S, M)
  <1> DEFINE S1 == {"objectWidthInMotionCells", "objectHeightInMotionCells"}
             D1 == Each(S1, SpinBox("1", "8", "1000000000"))
             R1 == EachRead(S1, "int", "8")
             S2 == {"additionalFrameProcessingDelayMs"}
             D2 == Each(S2, SpinBox("0", "0", "1000000000"))
             R2 == EachRead(S2, "int", "0")
  (* The parts, one after another. *)
  <1> DEFINE F2 == D1 ++ D2
             Q2 == R1 ++ R2
             U2 == S1 \union S2
  <1>1. Fits(D1, R1, S1, S1)
    BY ItemsSuit, NamesFit
  <1>2. Fits(D2, R2, S2, S2)
    BY ItemsSuit, NamesFit
  <1>3. /\ S1 \intersect S2 = {}
    OBVIOUS
  <1> HIDE DEF D1, R1, S1, D2, R2, S2, F2, Q2, U2
  <1>4. Fits(F2, Q2, U2, U2)
    BY <1>1, <1>2, <1>3, JoinFits DEF F2, Q2, U2
  <1> QED
    BY <1>4
       DEF MotionDialog, MotionReads, D1, R1, S1, D2, R2, S2, F2, Q2

(* Settings of http_requests.                                              *)
LEMMA HttpFits ==
  \E S, M : Fits(HttpDialog, HttpReads, S, M)
  <1> DEFINE S1 == {"httpDomain"}
             M1 == {"domain"}
             D1 == Each(S1, DialogItem("vms", {"cloud"}))
             R1 == Each(M1, Reading("httpDomain", "domain", "vms"))
             S2 == {"httpTimePeriod"}
             M2 == {"periodSeconds"}
             D2 == Each(S2, SpinBox("1", "1", "100"))
             R2 == Each(M2, Reading("httpTimePeriod", "seconds", "1"))
             S3 == {"httpUrl"}
             M3 == {"url"}
             D3 == Each(S3, Field("/rest/v4/site/settings"))
             R3 == Each(M3, Reading("httpUrl", "text", "/rest/v4/site/settings"))
             S4 == {"httpMethod"}
             D4 == Each(S4, DialogItem("GET", {"get", ""}))
             R4 == EachRead(S4, "toUpper", "GET")
             S5 == {"mimeType"}
             D5 == Each(S5, Field("text/plain"))
             R5 == EachRead(S5, "text", "")
             S6 == {"requestBody"}
             D6 == Each(S6, Field(""))
             R6 == EachRead(S6, "text", "")
  (* The parts, one after another. *)
  <1> DEFINE F2 == D1 ++ D2
             Q2 == R1 ++ R2
             U2 == S1 \union S2
             V2 == M1 \union M2
             F3 == F2 ++ D3
             Q3 == Q2 ++ R3
             U3 == U2 \union S3
             V3 == V2 \union M3
             F4 == F3 ++ D4
             Q4 == Q3 ++ R4
             U4 == U3 \union S4
             V4 == V3 \union S4
             F5 == F4 ++ D5
             Q5 == Q4 ++ R5
             U5 == U4 \union S5
             V5 == V4 \union S5
             F6 == F5 ++ D6
             Q6 == Q5 ++ R6
             U6 == U5 \union S6
             V6 == V5 \union S6
  <1>1. Fits(D1, R1, S1, M1)
    BY ItemsSuit, RenamedFits
  <1>2. Fits(D2, R2, S2, M2)
    BY ItemsSuit, RenamedFits
  <1>3. Fits(D3, R3, S3, M3)
    BY ItemsSuit, RenamedFits
  <1>4. Fits(D4, R4, S4, S4)
    BY ItemsSuit, NamesFit
  <1>5. Fits(D5, R5, S5, S5)
    BY ItemsSuit, NamesFit
  <1>6. Fits(D6, R6, S6, S6)
    BY ItemsSuit, NamesFit
  <1>7. /\ S1 \intersect S2 = {}
        /\ M1 \intersect M2 = {}
        /\ U2 \intersect S3 = {}
        /\ V2 \intersect M3 = {}
        /\ U3 \intersect S4 = {}
        /\ V3 \intersect S4 = {}
        /\ U4 \intersect S5 = {}
        /\ V4 \intersect S5 = {}
        /\ U5 \intersect S6 = {}
        /\ V5 \intersect S6 = {}
    OBVIOUS
  <1> HIDE DEF D1, M1, R1, S1, D2, M2, R2, S2, D3, M3, R3, S3, D4, R4, S4, D5, R5,
               S5, D6, R6, S6, F2, Q2, U2, V2, F3, Q3, U3, V3, F4, Q4, U4, V4, F5,
               Q5, U5, V5, F6, Q6, U6, V6
  <1>8. Fits(F2, Q2, U2, V2)
    BY <1>1, <1>2, <1>7, JoinFits DEF F2, Q2, U2, V2
  <1>9. Fits(F3, Q3, U3, V3)
    BY <1>8, <1>3, <1>7, JoinFits DEF F3, Q3, U3, V3
  <1>10. Fits(F4, Q4, U4, V4)
    BY <1>9, <1>4, <1>7, JoinFits DEF F4, Q4, U4, V4
  <1>11. Fits(F5, Q5, U5, V5)
    BY <1>10, <1>5, <1>7, JoinFits DEF F5, Q5, U5, V5
  <1>12. Fits(F6, Q6, U6, V6)
    BY <1>11, <1>6, <1>7, JoinFits DEF F6, Q6, U6, V6
  <1> QED
    BY <1>12
       DEF HttpDialog, HttpReads, D1, M1, R1, S1, D2, M2, R2, S2, D3, M3, R3, S3,
           D4, R4, S4, D5, R5, S5, D6, R6, S6, F2, Q2, F3, Q3, F4, Q4, F5, Q5, F6,
           Q6

(* Settings of video_frames.                                               *)
LEMMA VideoFramesFits ==
  \E S, M : Fits(VideoFramesDialog, VideoFramesReads, S, M)
  <1> DEFINE S1 == {"leakFrames"}
             D1 == Each(S1, CheckBox("false"))
             R1 == EachRead(S1, "toBool", "false")
             S2 == {"additionalFrameProcessingDelayMs"}
             D2 == Each(S2, SpinBox("0", "0", "1000000000"))
             R2 == EachRead(S2, "int", "0")
  (* The parts, one after another. *)
  <1> DEFINE F2 == D1 ++ D2
             Q2 == R1 ++ R2
             U2 == S1 \union S2
  <1>1. Fits(D1, R1, S1, S1)
    BY ItemsSuit, NamesFit
  <1>2. Fits(D2, R2, S2, S2)
    BY ItemsSuit, NamesFit
  <1>3. /\ S1 \intersect S2 = {}
    OBVIOUS
  <1> HIDE DEF D1, R1, S1, D2, R2, S2, F2, Q2, U2
  <1>4. Fits(F2, Q2, U2, U2)
    BY <1>1, <1>2, <1>3, JoinFits DEF F2, Q2, U2
  <1> QED
    BY <1>4
       DEF VideoFramesDialog, VideoFramesReads, D1, R1, S1, D2, R2, S2, F2, Q2

(* Settings of events.                                                     *)
LEMMA EventsFits ==
  \E S, M : Fits(EventsDialog, EventsReads, S, M)
  <1> DEFINE S1 == {"declareAdditionalEventTypesSetting"}
             D1 == Each(S1, CheckBox("false"))
             R1 == EachRead(S1, "toBool", "false")
             S2 == {"generateEvents"}
             D2 == Each(S2, CheckBox("true"))
             R2 == EachRead(S2, "toBool", "true")
  (* The parts, one after another. *)
  <1> DEFINE F2 == D1 ++ D2
             Q2 == R1 ++ R2
             U2 == S1 \union S2
  <1>1. Fits(D1, R1, S1, S1)
    BY ItemsSuit, NamesFit
  <1>2. Fits(D2, R2, S2, S2)
    BY ItemsSuit, NamesFit
  <1>3. /\ S1 \intersect S2 = {}
    OBVIOUS
  <1> HIDE DEF D1, R1, S1, D2, R2, S2, F2, Q2, U2
  <1>4. Fits(F2, Q2, U2, U2)
    BY <1>1, <1>2, <1>3, JoinFits DEF F2, Q2, U2
  <1> QED
    BY <1>4
       DEF EventsDialog, EventsReads, D1, R1, S1, D2, R2, S2, F2, Q2

(* Settings of the game.                                                   *)
LEMMA VampiresFits ==
  \E S, M : Fits(VampiresDialog, VampiresReads, S, M)
  <1> DEFINE S1 == {"fieldWidth", "fieldHeight"}
             D1 == Each(S1, SpinBox("5", "32", "100"))
             R1 == EachRead(S1, "intSetting", "-1")
             S2 == {"vampireCount"}
             D2 == Each(S2, SpinBox("1", "8", "100"))
             R2 == EachRead(S2, "intSetting", "-1")
             S3 == {"wallCount"}
             D3 == Each(S3, SpinBox("3", "100", "1000"))
             R3 == EachRead(S3, "intSetting", "-1")
             S4 == {"speed"}
             D4 == Each(S4, SpinBox("1", "10", "1000"))
             R4 == EachRead(S4, "intSetting", "-1")
             S5 == {"port"}
             D5 == Each(S5, SpinBox("1", "65432", "65535"))
             R5 == EachRead(S5, "intSetting", "-1")
  (* The parts, one after another. *)
  <1> DEFINE F2 == D1 ++ D2
             Q2 == R1 ++ R2
             U2 == S1 \union S2
             F3 == F2 ++ D3
             Q3 == Q2 ++ R3
             U3 == U2 \union S3
             F4 == F3 ++ D4
             Q4 == Q3 ++ R4
             U4 == U3 \union S4
             F5 == F4 ++ D5
             Q5 == Q4 ++ R5
             U5 == U4 \union S5
  <1>1. Fits(D1, R1, S1, S1)
    BY ItemsSuit, NamesFit
  <1>2. Fits(D2, R2, S2, S2)
    BY ItemsSuit, NamesFit
  <1>3. Fits(D3, R3, S3, S3)
    BY ItemsSuit, NamesFit
  <1>4. Fits(D4, R4, S4, S4)
    BY ItemsSuit, NamesFit
  <1>5. Fits(D5, R5, S5, S5)
    BY ItemsSuit, NamesFit
  <1>6. /\ S1 \intersect S2 = {}
        /\ U2 \intersect S3 = {}
        /\ U3 \intersect S4 = {}
        /\ U4 \intersect S5 = {}
    OBVIOUS
  <1> HIDE DEF D1, R1, S1, D2, R2, S2, D3, R3, S3, D4, R4, S4, D5, R5, S5, F2, Q2,
               U2, F3, Q3, U3, F4, Q4, U4, F5, Q5, U5
  <1>7. Fits(F2, Q2, U2, U2)
    BY <1>1, <1>2, <1>6, JoinFits DEF F2, Q2, U2
  <1>8. Fits(F3, Q3, U3, U3)
    BY <1>7, <1>3, <1>6, JoinFits DEF F3, Q3, U3
  <1>9. Fits(F4, Q4, U4, U4)
    BY <1>8, <1>4, <1>6, JoinFits DEF F4, Q4, U4
  <1>10. Fits(F5, Q5, U5, U5)
    BY <1>9, <1>5, <1>6, JoinFits DEF F5, Q5, U5
  <1> QED
    BY <1>10
       DEF VampiresDialog, VampiresReads, D1, R1, S1, D2, R2, S2, D3, R3, S3, D4,
           R4, S4, D5, R5, S5, F2, Q2, F3, Q3, F4, Q4, F5, Q5

(* Settings of best_shots_and_titles.                                      *)
LEMMA BestShotsAndTitlesFit ==
  \E S, M : Fits(BestShotItems ++ TitleItems, BestShotReads ++ TitleReads, S, M)
  <1>1. /\ BestShotSettings \intersect TitleSettings = {}
        /\ BestShotMembers \intersect TitleMembers = {}
    BY DEF BestShotSettings, TitleSettings, BestShotMembers, TitleMembers
  <1> QED
    BY <1>1, BestShotsFit, TitlesFit, JoinFits

(* Settings of diagnostic_events, of its Device Agent and of its Engine.   *)
LEMMA DiagnosticFits ==
  /\ \E S, M : Fits(DiagnosticDialog, DiagnosticReads, S, M)
  /\ \E S, M : Fits(DiagnosticEngineDialog, DiagnosticEngineReads, S, M)
  <1>1. \E S, M : Fits(DiagnosticDialog, DiagnosticReads, S, M)
    BY ItemsSuit, RenamedFits DEF DiagnosticDialog, DiagnosticReads
  <1>2. \E S, M : Fits(DiagnosticEngineDialog, DiagnosticEngineReads, S, M)
    BY ItemsSuit, RenamedFits DEF DiagnosticEngineDialog, DiagnosticEngineReads
  <1> QED
    BY <1>1, <1>2

(* Settings of object_detection: one of them for each type.                *)
LEMMA DetectionFits ==
  \E S, M : Fits(DetectionDialog, DetectionReads, S, M)
  <1> DEFINE S1 == {"timestampShiftMs"}
             D1 == Each(S1, SpinBox("0", "0", "1000"))
             R1 == EachRead(S1, "int", "0")
             S2 == {"sendAttributes"}
             D2 == Each(S2, CheckBox("true"))
             R2 == EachRead(S2, "toBool", "true")
             S3 == {TypeSetting("objectTypeIdToGenerate.", t) : t \in TypeIds}
             onByDefault == {TypeSetting("objectTypeIdToGenerate.", t) : t \in DefaultTypeIds}
             D3 == [n \in S3 |-> CheckBox(IF n \in onByDefault THEN "true" ELSE "false")]
             R3 == [t \in TypeIds |->
                      Reading(TypeSetting("objectTypeIdToGenerate.", t), "toBool", "false")]
  <1>1. Fits(D1, R1, S1, S1)
    <2>1. Suits(SpinBox("0", "0", "1000"), "int")
      BY SpinBoxesSuit, NumbersAre
    <2> QED
      BY <2>1, NamesFit
  <1>2. Fits(D2, R2, S2, S2)
    BY ItemsSuit, NamesFit
  <1>3. Fits(D3, R3, S3, TypeIds)
    <2> HIDE DEF onByDefault
    <2>1. ASSUME NEW t \in TypeIds PROVE IsServed(D3, t, R3[t])
      <3> DEFINE s == TypeSetting("objectTypeIdToGenerate.", t)
      <3>1. R3[t].setting = s /\ R3[t].how = "toBool"
        BY DEF Reading
      <3>2. s \in S3
        OBVIOUS
      <3> HIDE DEF s, S3
      <3>3. D3[s] = CheckBox("true") \/ D3[s] = CheckBox("false")
        BY <3>2
      <3>4. s \in DOMAIN D3
        BY <3>2
      <3> HIDE DEF D3, R3
      <3> QED
        BY <3>1, <3>3, <3>4, CheckBoxesSuit DEF IsServed
    <2>2. ASSUME NEW n \in S3 PROVE \E t \in TypeIds : R3[t].setting = n
      BY DEF Reading
    <2>3. DOMAIN D3 = S3 /\ DOMAIN R3 = TypeIds
      OBVIOUS
    <2> HIDE DEF D3, R3, S3
    <2> QED
      BY <2>1, <2>2, <2>3 DEF Fits, AreServed, AreRead
  <1>4. /\ S1 \intersect S2 = {}
        /\ (S1 \union S2) \intersect S3 = {} /\ (S1 \union S2) \intersect TypeIds = {}
    <2>1. ASSUME NEW t \in TypeIds
          PROVE  /\ t \notin S1 \union S2
                 /\ TypeSetting("objectTypeIdToGenerate.", t) \notin S1 \union S2
      <3>1. {t, TypeSetting("objectTypeIdToGenerate.", t)}
              \intersect {"timestampShiftMs", "sendAttributes"} = {}
        BY TypesAssumption
      <3> QED
        BY <3>1
    <2>2. \A n \in S3 : n \notin S1 \union S2
      BY <2>1
    <2>3. S1 \intersect S2 = {}
      OBVIOUS
    <2> HIDE DEF S1, S2, S3
    <2> QED
      BY <2>1, <2>2, <2>3
  <1> HIDE DEF S1, D1, R1, S2, D2, R2, S3, D3, R3
  <1>5. Fits(D1 ++ D2, R1 ++ R2, S1 \union S2, S1 \union S2)
    BY <1>1, <1>2, <1>4, JoinFits
  <1>6. Fits(D1 ++ D2 ++ D3, R1 ++ R2 ++ R3, S1 \union S2 \union S3, S1 \union S2 \union TypeIds)
    BY <1>3, <1>4, <1>5, JoinFits
  <1> QED
    BY <1>6 DEF DetectionDialog, DetectionReads, S1, D1, R1, S2, D2, R2, S3, D3, R3

(* Settings of object_streamer: those of types are of the default stream.  *)
LEMMA StreamerFits ==
  \E S, M : Fits(StreamerDialog, StreamerReads, S, M)
  <1> DEFINE S1 == {"manifestFile"}
             D1 == Each(S1, Field("object_streamer/manifest.json"))
             R1 == EachRead(S1, "text", "")
             S2 == {"streamFile"}
             D2 == Each(S2, DialogItem(DefaultPath, DOMAIN StreamTypeIds))
             R2 == EachRead(S2, "text", "")
             S3 == {TypeSetting("object_type_filter_", t) : t \in StreamTypeIds[DefaultPath]}
             M3 == UNION {StreamTypeIds[path] : path \in DOMAIN StreamTypeIds}
             D3 == Each(S3, CheckBox("true"))
             R3 == [t \in M3 |-> Reading(TypeSetting("object_type_filter_", t), "filter", "true")]
  <1>1. Fits(D1, R1, S1, S1)
    BY FieldsSuit, NamesFit
  <1>2. Fits(D2, R2, S2, S2)
    BY TextsSuit, NamesFit
  <1>3. Fits(D3, R3, S3, M3)
    <2>1. ASSUME NEW t \in M3 PROVE IsServed(D3, t, R3[t])
      <3> DEFINE s == TypeSetting("object_type_filter_", t)
      <3>1. R3[t].setting = s /\ R3[t].how = "filter"
        BY DEF Reading
      <3>2. t \in StreamTypeIds[DefaultPath] => s \in S3
        OBVIOUS
      <3> HIDE DEF s, S3
      <3>3. t \in StreamTypeIds[DefaultPath] => s \in DOMAIN D3 /\ D3[s] = CheckBox("true")
        BY <3>2 DEF Each
      <3> HIDE DEF D3, R3
      <3> QED
        BY <3>1, <3>3, CheckBoxesSuit DEF IsServed
    <2>2. ASSUME NEW n \in S3 PROVE \E t \in M3 : R3[t].setting = n
      <3>1. PICK t \in StreamTypeIds[DefaultPath] : n = TypeSetting("object_type_filter_", t)
        OBVIOUS
      <3>2. t \in M3
        BY TypesAssumption
      <3> HIDE DEF M3
      <3> QED
        BY <3>1, <3>2 DEF Reading
    <2>3. DOMAIN D3 = S3 /\ DOMAIN R3 = M3
      BY DEF Each
    <2> HIDE DEF D3, R3, S3, M3
    <2> QED
      BY <2>1, <2>2, <2>3 DEF Fits, AreServed, AreRead
  <1>4. /\ S1 \intersect S2 = {}
        /\ (S1 \union S2) \intersect S3 = {} /\ (S1 \union S2) \intersect M3 = {}
    <2>1. ASSUME NEW path \in DOMAIN StreamTypeIds, NEW t \in StreamTypeIds[path]
          PROVE  t \notin S1 \union S2 /\ TypeSetting("object_type_filter_", t) \notin S1 \union S2
      <3>1. {t, TypeSetting("object_type_filter_", t)} \intersect {"manifestFile", "streamFile"} = {}
        BY <2>1, TypesAssumption
      <3> QED
        BY <3>1
    <2>2. \A t \in M3 : t \notin S1 \union S2
      BY <2>1
    <2>3. \A n \in S3 : n \notin S1 \union S2
      <3>1. DefaultPath \in DOMAIN StreamTypeIds
        BY TypesAssumption
      <3> QED
        BY <2>1, <3>1
    <2>4. S1 \intersect S2 = {}
      OBVIOUS
    <2> HIDE DEF S1, S2, S3, M3
    <2> QED
      BY <2>2, <2>3, <2>4
  <1> HIDE DEF S1, D1, R1, S2, D2, R2, S3, D3, R3, M3
  <1>5. Fits(D1 ++ D2, R1 ++ R2, S1 \union S2, S1 \union S2)
    BY <1>1, <1>2, <1>4, JoinFits
  <1>6. Fits(D1 ++ D2 ++ D3, R1 ++ R2 ++ R3, S1 \union S2 \union S3, S1 \union S2 \union M3)
    BY <1>3, <1>4, <1>5, JoinFits
  <1> QED
    BY <1>6 DEF StreamerDialog, StreamerReads, S1, D1, R1, S2, D2, R2, S3, D3, R3, M3

(* Items that are added after those that are read do no harm.              *)
LEMMA JoinServes ==
  ASSUME NEW f, NEW g, NEW reads, AreServed(f, reads)
  PROVE  AreServed(f ++ g, reads)
  <1> DEFINE D == f ++ g
  <1>0. Joins(D, f, g)
    BY JoinIs
  <1> HIDE DEF D
  <1>1. /\ \A n \in DOMAIN f : n \in DOMAIN D
        /\ \A n \in DOMAIN f : D[n] = f[n]
    BY <1>0 DEF Joins
  <1>2. AreServed(D, reads)
    BY <1>1 DEF AreServed, IsServed
  <1> QED
    BY <1>2 DEF D

(* The setting that roi reads is one of its figures.                       *)
LEMMA RoiIsServed == AreServed(RoiDialog, RoiReads)
  <1> DEFINE figures == {"excludedArea.figure", "testPolygon", "testSizeConstraints"}
                          \union Copies("polygon", 5, {".figure"})
                          \union Copies("box", 5, {".figure"})
                          \union Copies("line", 10, {".figure"})
                          \union Copies("testPolyLine", 10, {".figure"})
  <1>1. "testPolygon" \in figures
    OBVIOUS
  <1> HIDE DEF figures
  <1>2. AreServed(Each(figures, Field("")), RoiReads)
    <2>1. /\ DOMAIN RoiReads = {"testPolygon"}
          /\ RoiReads["testPolygon"].setting = "testPolygon"
          /\ RoiReads["testPolygon"].how = "text"
      BY DEF RoiReads, EachRead, Reading
    <2>2. /\ "testPolygon" \in DOMAIN Each(figures, Field(""))
          /\ Each(figures, Field(""))["testPolygon"] = Field("")
      BY <1>1 DEF Each
    <2>3. Suits(Field(""), "text")
      BY FieldsSuit
    <2>4. IsServed(Each(figures, Field("")), "testPolygon", RoiReads["testPolygon"])
      BY <2>1, <2>2, <2>3 DEF IsServed
    <2> QED
      BY <2>1, <2>4 DEF AreServed
  <1> QED
    BY <1>2, JoinServes DEF RoiDialog, figures

(* The setting that the Engine of the plugin settings reads is always there. *)
LEMMA EngineIsServed ==
  ASSUME NEW isExtraShown
  PROVE  AreServed(EngineModel(isExtraShown), EngineReads)
  <1>1. AreServed(Each({"pushEnginemManifest"}, CheckBox("false")), EngineReads)
    <2>1. Suits(CheckBox("false"), "bool")
      BY CheckBoxesSuit
    <2>2. Fits(Each({"pushEnginemManifest"}, CheckBox("false")), EngineReads,
               {"pushEnginemManifest"}, {"manifest"})
      BY <2>1, RenamedFits DEF EngineReads
    <2> QED
      BY <2>2 DEF Fits
  <1> QED
    BY <1>1, JoinServes DEF EngineModel

----------------------------------------------------------------------------
(* Every setting that a plugin reads is in its dialog, whatever the values *)
(* that the dialog depends on, and in most plugins nothing else is.        *)
LEMMA DialogsServe ==
  ASSUME feature \in DialogOwners, NEW values
  PROVE  /\ AreServed(Dialog(values), Reads)
         /\ feature \notin {"roi", "settings", "settings_engine"} =>
              AreRead(Dialog(values), Reads)
  <1> DEFINE D == Dialog(values)
             R == Reads
  <1>1. CASE feature = "special_objects"
    <2>1. D = SpecialObjectsDialog /\ R = SpecialObjectsReads
      BY <1>1 DEF Dialog, Reads
    <2> QED
      BY <2>1, SpecialObjectsFits DEF Fits
  <1>2. CASE feature = "best_shots"
    <2>1. D = BestShotItems ++ TitleItems /\ R = BestShotReads ++ TitleReads
      BY <1>2 DEF Dialog, Reads
    <2> QED
      BY <2>1, BestShotsAndTitlesFit DEF Fits
  <1>3. CASE feature = "motion_metadata"
    <2>1. D = MotionDialog /\ R = MotionReads
      BY <1>3 DEF Dialog, Reads
    <2> QED
      BY <2>1, MotionFits DEF Fits
  <1>4. CASE feature = "http_requests"
    <2>1. D = HttpDialog /\ R = HttpReads
      BY <1>4 DEF Dialog, Reads
    <2> QED
      BY <2>1, HttpFits DEF Fits
  <1>5. CASE feature = "video_frames"
    <2>1. D = VideoFramesDialog /\ R = VideoFramesReads
      BY <1>5 DEF Dialog, Reads
    <2> QED
      BY <2>1, VideoFramesFits DEF Fits
  <1>6. CASE feature = "events"
    <2>1. D = EventsDialog /\ R = EventsReads
      BY <1>6 DEF Dialog, Reads
    <2> QED
      BY <2>1, EventsFits DEF Fits
  <1>7. CASE feature = "diagnostic_events"
    <2>1. D = DiagnosticDialog /\ R = DiagnosticReads
      BY <1>7 DEF Dialog, Reads
    <2> QED
      BY <2>1, DiagnosticFits DEF Fits
  <1>8. CASE feature = "diagnostic_events_engine"
    <2>1. D = DiagnosticEngineDialog /\ R = DiagnosticEngineReads
      BY <1>8 DEF Dialog, Reads
    <2> QED
      BY <2>1, DiagnosticFits DEF Fits
  <1>9. CASE feature = "object_detection"
    <2>1. D = DetectionDialog /\ R = DetectionReads
      BY <1>9 DEF Dialog, Reads
    <2> QED
      BY <2>1, DetectionFits DEF Fits
  <1>10. CASE feature = "object_streamer"
    <2>1. D = StreamerDialog /\ R = StreamerReads
      BY <1>10 DEF Dialog, Reads
    <2> QED
      BY <2>1, StreamerFits DEF Fits
  <1>11. CASE feature = "roi"
    <2>1. D = RoiDialog /\ R = RoiReads
      BY <1>11 DEF Dialog, Reads
    <2> QED
      BY <1>11, <2>1, RoiIsServed
  <1>12. CASE feature = "vampires"
    <2>1. D = VampiresDialog /\ R = VampiresReads
      BY <1>12 DEF Dialog, Reads
    <2> QED
      BY <2>1, VampiresFits DEF Fits
  <1>13. CASE feature = "settings"
    <2>1. DOMAIN R = {}
      BY <1>13 DEF Reads
    <2> QED
      BY <1>13, <2>1 DEF AreServed
  <1>14. CASE feature = "settings_engine"
    <2>1. /\ D = EngineModel(ValueOf(values, "showExtraTextField") = "true")
          /\ R = EngineReads
      BY <1>14 DEF Dialog, Reads
    <2> QED
      BY <1>14, <2>1, EngineIsServed
  <1> QED
    BY <1>1, <1>2, <1>3, <1>4, <1>5, <1>6, <1>7, <1>8, <1>9, <1>10, <1>11, <1>12, <1>13, <1>14
       DEF DialogOwners

(* A dialog before any values.                                             *)
NoValues == [n \in {} |-> ""]

(* The plugins that always have the same dialog.                           *)
IsSteady == feature \notin {"settings", "settings_engine"}

(* A dialog that does not depend on values.                                *)
LEMMA SteadyDialogs ==
  ASSUME feature \in DialogOwners, IsSteady, NEW values
  PROVE  Dialog(values) = Dialog(NoValues)
  BY DEF IsSteady, DialogOwners, Dialog

(* What depends on the plugin stays when the plugin does.                  *)
LEMMA PluginStays ==
  ASSUME feature' = feature
  PROVE  Reads' = Reads /\ Dialog(NoValues)' = Dialog(NoValues)
  <1>1. Reads' = Reads
    BY DEF Reads
  <1>2. Dialog(NoValues)' = Dialog(NoValues)
    BY DEF Dialog, NoValues
  <1> QED
    BY <1>1, <1>2

(* The choice of a model is in both of them.                               *)
Models == {"regular", "alternative"}

LEMMA ModelBoxIs ==
  /\ "settingsModelComboBox" \in DOMAIN ModelBox
  /\ ModelBox["settingsModelComboBox"].choices = Models
  /\ ModelBox["settingsModelComboBox"].default = "regular"
  BY DEF ModelBox, Each, DialogItem, Models

(* A dialog where the user can choose the other model.                     *)
HasModelBox(items) ==
  /\ "settingsModelComboBox" \in DOMAIN items
  /\ items["settingsModelComboBox"] = ModelBox["settingsModelComboBox"]

(* Items after it leave it there.                                          *)
LEMMA JoinHasModelBox ==
  ASSUME NEW f, NEW g, HasModelBox(f)
  PROVE  HasModelBox(f ++ g)
  <1> DEFINE D == f ++ g
  <1>0. Joins(D, f, g)
    BY JoinIs
  <1> HIDE DEF D
  <1>1. /\ \A x \in DOMAIN f : x \in DOMAIN D
        /\ \A x \in DOMAIN f : D[x] = f[x]
    BY <1>0 DEF Joins
  <1>2. HasModelBox(D)
    BY <1>1 DEF HasModelBox
  <1> QED
    BY <1>2 DEF D

(* Both models have it, in any language.                                   *)
LEMMA ModelsHaveModelBox ==
  /\ HasModelBox(AlternativeModel)
  /\ \A language : HasModelBox(RegularModel(language))
  <1>1. HasModelBox(ModelBox)
    BY ModelBoxIs DEF HasModelBox
  <1>2. HasModelBox(AlternativeModel)
    BY <1>1, JoinHasModelBox DEF AlternativeModel
  <1>3. ASSUME NEW language PROVE HasModelBox(RegularModel(language))
    BY <1>1, JoinHasModelBox DEF RegularModel
  <1> QED
    BY <1>2, <1>3

(* So the dialog has it, whichever of them the values ask for.             *)
LEMMA SettingsHaveModelBox ==
  ASSUME feature = "settings", NEW values, values["settingsModelComboBox"] \in Models
  PROVE  HasModelBox(Dialog(values))
  <1>1. CASE values["settingsModelComboBox"] = "alternative"
    <2>1. Dialog(values) = AlternativeModel
      BY <1>1 DEF Dialog
    <2> QED
      BY <2>1, ModelsHaveModelBox
  <1>2. CASE values["settingsModelComboBox"] = "regular"
    <2>1. Dialog(values) = RegularModel(ValueOf(values, "languageSelectorSettings"))
      BY <1>2 DEF Dialog
    <2> QED
      BY <2>1, ModelsHaveModelBox
  <1> QED
    BY <1>1, <1>2 DEF Models

----------------------------------------------------------------------------
(* DialogIsObeyed: the user sees what he has chosen, and the plugin does   *)
(* what the dialog shows.                                                  *)

(* The filter of a stream other than the default one.                      *)
IsExempt(m) == Reads[m].how = "filter" /\ m \notin StreamTypeIds[DefaultPath]

(* Values that the Server sends: for every member, one that is read as it  *)
(* is shown.                                                               *)
AreReadable(values) ==
  \A m \in DOMAIN Reads :
    IsExempt(m) \/ /\ Reads[m].setting \in DOMAIN values
                   /\ IsReadWell(Reads[m].how, values[Reads[m].setting])

MembersAgree ==
  \A m \in DOMAIN members :
    \/ /\ Reads[m].setting \in DOMAIN shownValues
       /\ Agrees(Reads[m].how, members[m], shownValues[Reads[m].setting])
    \/ IsExempt(m)

NothingIsIgnored ==
  feature \notin {"roi", "settings", "settings_engine"} =>
    DOMAIN shownValues \subseteq {Reads[m].setting : m \in DOMAIN Reads}

(* Every plugin: what it reads is shown, in a way that it understands.     *)
MembersIInv ==
  /\ feature \in DialogOwners /\ DOMAIN members = DOMAIN Reads
  /\ AreReadable(shownValues) /\ (isReceived => MembersAgree) /\ NothingIsIgnored

(* Most plugins: the dialog is always the same, and shows what was chosen. *)
SteadyIInv ==
  IsSteady =>
    /\ DOMAIN shownValues = DOMAIN Dialog(NoValues)
    /\ \A n \in DOMAIN chosen : n \in DOMAIN shownValues => shownValues[n] = chosen[n]

(* The plugin of two models: what was chosen is stored, and what is shown  *)
(* is what is stored.                                                      *)
ModelsIInv ==
  feature = "settings" =>
    /\ "settingsModelComboBox" \in DOMAIN shownValues
    /\ shownValues["settingsModelComboBox"] \in Models
    /\ \A n \in DOMAIN chosen : n \in DOMAIN storedValues /\ storedValues[n] = chosen[n]
    /\ \A n \in DOMAIN shownValues : n \in DOMAIN storedValues => shownValues[n] = storedValues[n]

DialogIInv ==
  /\ MembersIInv /\ SteadyIInv /\ ModelsIInv
  /\ ~isReceived => DOMAIN chosen = {}

(* What a plugin finds of the values that have come.                       *)
LEMMA ReceivedIs ==
  ASSUME NEW given, NEW n \in DOMAIN given
  PROVE  /\ ValueOf(Received(given), n) = given[n]
         /\ n \in DOMAIN Received(given) /\ Received(given)[n] = given[n]
  <1> DEFINE J == given ++ storedValues
  <1>1. Received(given) = given \/ Received(given) = J
    BY DEF Received, Stored
  <1>0. Joins(J, given, storedValues)
    BY JoinIs
  <1> HIDE DEF J
  <1>2. n \in DOMAIN Received(given) /\ Received(given)[n] = given[n]
    BY <1>0, <1>1 DEF Joins
  <1> QED
    BY <1>2 DEF ValueOf

(* The items of the dialog that is shown.                                  *)
LEMMA ShownIs ==
  ASSUME NEW given
  PROVE  /\ DOMAIN Shown(given) = DOMAIN Dialog(Received(given))
         /\ \A n \in DOMAIN Shown(given) :
              Shown(given)[n] =
                (Answered(given) ++ given ++ Defaults(Dialog(Received(given))))[n]
  BY DEF Shown

(* The values that the Server has sent are shown as they are, except by    *)
(* the plugin of two models.                                               *)
LEMMA GivenIsShown ==
  ASSUME NEW given, feature # "settings",
         NEW n \in DOMAIN Shown(given), n \in DOMAIN given
  PROVE  Shown(given)[n] = given[n]
  <1> DEFINE A == Answered(given)
             G == A ++ given
             K == G ++ Defaults(Dialog(Received(given)))
  <1>1. n \in DOMAIN A => A[n] = given[n]
    <2>1. CASE feature = "object_streamer"
      <3>1. /\ n \in DOMAIN Stored(given)
            /\ Stored(given)[n] = given[n]
        <4>1. Received(given) = Stored(given)
          BY <2>1 DEF Received
        <4> QED
          BY <4>1, ReceivedIs
      <3> HIDE DEF A
      <3>2. n \in DOMAIN A => A[n] = IF n \in DOMAIN Stored(given) THEN Stored(given)[n] ELSE "true"
        BY <2>1 DEF A, Answered
      <3> QED
        BY <3>1, <3>2
    <2>2. CASE feature # "object_streamer"
      BY <2>2 DEF Answered
    <2> QED
      BY <2>1, <2>2
  <1>2. Shown(given)[n] = K[n]
    BY ShownIs
  <1>3. Joins(G, A, given) /\ Joins(K, G, Defaults(Dialog(Received(given))))
    BY JoinIs
  <1> HIDE DEF A, G, K
  <1>4. n \in DOMAIN G /\ G[n] = given[n]
    BY <1>1, <1>3 DEF Joins
  <1>5. K[n] = given[n]
    BY <1>3, <1>4 DEF Joins
  <1> QED
    BY <1>2, <1>5

(* Settings that are read as they are shown: the members follow them.      *)
LEMMA MembersFollow ==
  ASSUME MembersIInv, NEW given, AreReadable(given), SetSettings(given), feature' = feature
  PROVE  MembersIInv' /\ isReceived'
  <1> DEFINE D == Dialog(Received(given))
  <1>1. AreServed(D, Reads)
    BY DialogsServe DEF MembersIInv
  <1>2. feature \notin {"roi", "settings", "settings_engine"} => AreRead(D, Reads)
    BY DialogsServe DEF MembersIInv
  <1>3. Reads' = Reads
    BY PluginStays
  <1>4. shownValues' = Shown(given) /\ isReceived'
    BY DEF SetSettings
  <1>5. DOMAIN shownValues' = DOMAIN D
    BY <1>4, ShownIs
  <1>6. DOMAIN members = DOMAIN Reads
    BY DEF MembersIInv
  <1>7. /\ DOMAIN members' = DOMAIN Reads
        /\ \A m \in DOMAIN Reads :
             members'[m] = ReadAs(Reads[m].how, ValueOf(Received(given), Reads[m].setting),
                                  members[m])
    BY <1>6 DEF SetSettings
  <1> HIDE DEF D
  <1>8. ASSUME NEW m \in DOMAIN Reads, ~IsExempt(m)
        PROVE  /\ Reads[m].setting \in DOMAIN shownValues'
               /\ IsReadWell(Reads[m].how, shownValues'[Reads[m].setting])
               /\ Agrees(Reads[m].how, members'[m], shownValues'[Reads[m].setting])
    <2> DEFINE s == Reads[m].setting
    <2>1. s \in DOMAIN D
      BY <1>1, <1>8 DEF AreServed, IsServed, IsExempt
    <2>2. s \in DOMAIN given /\ IsReadWell(Reads[m].how, given[s])
      BY <1>8 DEF AreReadable
    <2>3. feature # "settings"
      <3>1. feature = "settings" => DOMAIN Reads = {}
        BY DEF Reads
      <3> QED
        BY <3>1
    <2> HIDE DEF s
    <2>4. shownValues'[s] = given[s]
      BY <1>4, <1>5, <2>1, <2>2, <2>3, GivenIsShown
    <2>5. members'[m] = ReadAs(Reads[m].how, given[s], members[m])
      BY <1>7, <2>2, ReceivedIs DEF s
    <2>6. Agrees(Reads[m].how, members'[m], given[s])
      BY <2>2, <2>5 DEF IsReadWell
    <2> QED
      BY <1>5, <2>1, <2>2, <2>4, <2>6 DEF s
  <1>9. \A m : IsExempt(m)' <=> IsExempt(m)
    BY <1>3 DEF IsExempt
  <1>10. AreReadable(shownValues)'
    BY <1>3, <1>8, <1>9 DEF AreReadable
  <1>11. MembersAgree'
    BY <1>3, <1>7, <1>8, <1>9 DEF MembersAgree
  <1>12. NothingIsIgnored'
    <2>1. AreRead(D, Reads) => DOMAIN shownValues' \subseteq {Reads[m].setting : m \in DOMAIN Reads}
      BY <1>5 DEF AreRead
    <2> QED
      BY <1>2, <1>3, <2>1 DEF NothingIsIgnored
  <1> QED
    BY <1>3, <1>4, <1>7, <1>10, <1>11, <1>12 DEF MembersIInv

(* A dialog that is always the same shows what was sent.                   *)
LEMMA SteadyShowsGiven ==
  ASSUME MembersIInv, SteadyIInv, IsSteady, NEW given, DOMAIN given = DOMAIN shownValues,
         SetSettings(given), feature' = feature
  PROVE  /\ DOMAIN shownValues' = DOMAIN Dialog(NoValues)'
         /\ DOMAIN shownValues' = DOMAIN shownValues
         /\ \A n \in DOMAIN shownValues' : shownValues'[n] = given[n]
  <1>1. shownValues' = Shown(given)
    BY DEF SetSettings
  <1>2. DOMAIN shownValues' = DOMAIN Dialog(NoValues)
    BY <1>1, ShownIs, SteadyDialogs DEF MembersIInv
  <1>3. Dialog(NoValues)' = Dialog(NoValues)
    BY PluginStays
  <1>4. DOMAIN shownValues = DOMAIN Dialog(NoValues)
    BY DEF SteadyIInv
  <1>5. feature # "settings"
    BY DEF IsSteady
  <1>6. \A n \in DOMAIN shownValues' : shownValues'[n] = given[n]
    BY <1>1, <1>2, <1>4, <1>5, GivenIsShown
  <1> QED
    BY <1>2, <1>3, <1>4, <1>6

(* The plugin of two models shows what is stored, and the choice of a model. *)
LEMMA ModelsShowStored ==
  ASSUME feature = "settings", NEW given, SetSettings(given),
         "settingsModelComboBox" \in DOMAIN given,
         given["settingsModelComboBox"] \in Models
  PROVE  /\ "settingsModelComboBox" \in DOMAIN shownValues'
         /\ shownValues'["settingsModelComboBox"] \in Models
         /\ storedValues' = given ++ storedValues
         /\ \A n \in DOMAIN shownValues' :
              n \in DOMAIN storedValues' => shownValues'[n] = storedValues'[n]
  <1> DEFINE box == "settingsModelComboBox"
  <1>1. shownValues' = Shown(given) /\ storedValues' = Stored(given)
    BY DEF SetSettings
  <1>2. Stored(given) = given ++ storedValues /\ Answered(given) = Stored(given)
    BY DEF Stored, Answered
  <1>3. Received(given) = Stored(given)
    BY DEF Received
  <1>4. Received(given)[box] = given[box]
    BY ReceivedIs
  <1>5. HasModelBox(Dialog(Received(given)))
    BY <1>4, SettingsHaveModelBox
  <1>6. ASSUME NEW n \in DOMAIN shownValues', n \in DOMAIN storedValues'
        PROVE  shownValues'[n] = storedValues'[n]
    <2> DEFINE A == Answered(given)
               G == A ++ given
               K == G ++ Defaults(Dialog(Received(given)))
    <2>1. A = storedValues'
      BY <1>1, <1>2
    <2>2. Shown(given)[n] = K[n]
      BY <1>1, ShownIs
    <2>3. Joins(G, A, given) /\ Joins(K, G, Defaults(Dialog(Received(given))))
      BY JoinIs
    <2> HIDE DEF A, G, K
    <2>4. n \in DOMAIN G /\ G[n] = A[n]
      BY <1>6, <2>1, <2>3 DEF Joins
    <2>5. K[n] = A[n]
      BY <2>3, <2>4 DEF Joins
    <2> QED
      BY <1>1, <2>1, <2>2, <2>5
  <1>7. box \in DOMAIN shownValues'
    BY <1>1, <1>5, ShownIs DEF HasModelBox
  <1>8. box \in DOMAIN storedValues' /\ storedValues'[box] = given[box]
    BY <1>1, <1>3, ReceivedIs
  <1>9. shownValues'[box] = given[box]
    BY <1>6, <1>7, <1>8
  <1> QED
    BY <1>1, <1>2, <1>6, <1>7, <1>9

(* What the user changes: one value of those that he sees.                 *)
LEMMA ChangeIs ==
  ASSUME NEW f, NEW n \in DOMAIN f, NEW v
  PROVE  /\ DOMAIN [f EXCEPT ![n] = v] = DOMAIN f
         /\ [f EXCEPT ![n] = v][n] = v
         /\ \A k \in DOMAIN f : k # n => [f EXCEPT ![n] = v][k] = f[k]
  OBVIOUS

(* The Server shows the defaults.                                          *)
LEMMA DialogStarts == DialogInit => DialogIInv
  <1> SUFFICES ASSUME DialogInit PROVE DialogIInv
    OBVIOUS
  <1> DEFINE V == Each({"settingsModelComboBox"}, "regular")
             D == Dialog(V)
  <1>1. feature \in DialogOwners /\ shownValues = Defaults(D) /\ ~isReceived
    BY DEF DialogInit
  <1>2. DOMAIN members = DOMAIN Reads
    BY DEF DialogInit
  <1>3. DOMAIN storedValues = {} /\ DOMAIN chosen = {}
    BY DEF DialogInit
  <1>4. AreServed(D, Reads) /\
          (feature \notin {"roi", "settings", "settings_engine"} => AreRead(D, Reads))
    BY <1>1, DialogsServe
  <1>5. V["settingsModelComboBox"] = "regular"
    BY DEF Each
  <1>6. IsSteady => D = Dialog(NoValues)
    BY <1>1, SteadyDialogs
  <1>7. feature = "settings" => HasModelBox(D)
    <2>1. V["settingsModelComboBox"] \in Models
      BY <1>5 DEF Models
    <2> HIDE DEF V
    <2> QED
      BY <2>1, SettingsHaveModelBox
  <1> HIDE DEF D, V
  <1>8. /\ DOMAIN shownValues = DOMAIN D
        /\ \A n \in DOMAIN D : shownValues[n] = D[n].default
    BY <1>1 DEF Defaults
  <1>9. AreReadable(shownValues)
    BY <1>4, <1>8 DEF AreReadable, AreServed, IsServed, IsExempt, Suits, ReadsWell
  <1>10. NothingIsIgnored
    BY <1>4, <1>8 DEF NothingIsIgnored, AreRead
  <1>11. MembersIInv
    BY <1>1, <1>2, <1>9, <1>10 DEF MembersIInv
  <1>12. SteadyIInv
    BY <1>3, <1>6, <1>8 DEF SteadyIInv
  <1>13. ModelsIInv
    <2>1. SUFFICES ASSUME feature = "settings"
                   PROVE  /\ "settingsModelComboBox" \in DOMAIN shownValues
                          /\ shownValues["settingsModelComboBox"] \in Models
      BY <1>3 DEF ModelsIInv
    <2>2. /\ "settingsModelComboBox" \in DOMAIN D
          /\ D["settingsModelComboBox"].default = "regular"
      BY <1>7, <2>1, ModelBoxIs DEF HasModelBox
    <2> QED
      BY <1>8, <2>2 DEF Models
  <1> QED
    BY <1>3, <1>11, <1>12, <1>13 DEF DialogIInv

(* The Server sends the values for the first time.                         *)
LEMMA ServerSendsDialog == DialogIInv /\ SendSettings => DialogIInv'
  <1> SUFFICES ASSUME DialogIInv, SendSettings PROVE DialogIInv'
    OBVIOUS
  <1>1. /\ MembersIInv /\ SteadyIInv /\ ModelsIInv /\ ~isReceived
        /\ SetSettings(shownValues) /\ feature' = feature /\ chosen' = chosen
    BY DEF SendSettings, DialogIInv
  <1>2. DOMAIN chosen = {} /\ DOMAIN chosen' = {}
    BY <1>1 DEF DialogIInv
  <1>3. MembersIInv' /\ isReceived'
    <2>1. AreReadable(shownValues)
      BY <1>1 DEF MembersIInv
    <2> QED
      BY <1>1, <2>1, MembersFollow
  <1>4. SteadyIInv'
    <2>1. ASSUME IsSteady PROVE DOMAIN shownValues' = DOMAIN Dialog(NoValues)'
      BY <1>1, <2>1, SteadyShowsGiven
    <2> QED
      BY <1>1, <1>2, <2>1 DEF SteadyIInv, IsSteady
  <1>5. ModelsIInv'
    <2>1. SUFFICES ASSUME feature = "settings"
                   PROVE  /\ "settingsModelComboBox" \in DOMAIN shownValues'
                          /\ shownValues'["settingsModelComboBox"] \in Models
                          /\ \A n \in DOMAIN shownValues' :
                               n \in DOMAIN storedValues' => shownValues'[n] = storedValues'[n]
      BY <1>1, <1>2 DEF ModelsIInv
    <2>2. /\ "settingsModelComboBox" \in DOMAIN shownValues
          /\ shownValues["settingsModelComboBox"] \in Models
      BY <1>1, <2>1 DEF ModelsIInv
    <2> QED
      BY <1>1, <2>1, <2>2, ModelsShowStored
  <1> QED
    BY <1>3, <1>4, <1>5 DEF DialogIInv

(* The user changes a setting, and the Server sends the values.            *)
LEMMA UserChangesDialog ==
  ASSUME DialogIInv, NEW n \in DOMAIN shownValues,
         NEW v \in Dialog(Received(shownValues))[n].choices, Choose(n, v)
  PROVE  DialogIInv'
  <1> DEFINE given == [shownValues EXCEPT ![n] = v]
             D == Dialog(Received(shownValues))
  <1>1. /\ MembersIInv /\ SteadyIInv /\ ModelsIInv
        /\ SetSettings(given) /\ feature' = feature /\ isReceived
        /\ chosen' = Each({n}, v) ++ chosen
    BY DEF Choose, DialogIInv
  <1>2. /\ DOMAIN given = DOMAIN shownValues /\ given[n] = v
        /\ \A k \in DOMAIN shownValues : k # n => given[k] = shownValues[k]
    BY ChangeIs
  <1>3. /\ DOMAIN chosen' = {n} \union DOMAIN chosen /\ chosen'[n] = v
        /\ \A k \in DOMAIN chosen : k # n => chosen'[k] = chosen[k]
    <2> DEFINE E == Each({n}, v)
               C == E ++ chosen
    <2>1. DOMAIN E = {n} /\ E[n] = v
      BY DEF Each
    <2>2. Joins(C, E, chosen)
      BY JoinIs
    <2>3. chosen' = C
      BY <1>1
    <2> HIDE DEF E, C
    <2> QED
      BY <2>1, <2>2, <2>3 DEF Joins
  <1>4. v \in D[n].choices
    OBVIOUS
  <1>5. AreServed(D, Reads)
    BY <1>1, DialogsServe DEF MembersIInv
  <1> HIDE DEF given, D
  <1>6. AreReadable(given)
    <2>1. SUFFICES ASSUME NEW m \in DOMAIN Reads, ~IsExempt(m)
                   PROVE  /\ Reads[m].setting \in DOMAIN given
                          /\ IsReadWell(Reads[m].how, given[Reads[m].setting])
      BY DEF AreReadable
    <2>2. /\ Reads[m].setting \in DOMAIN shownValues
          /\ IsReadWell(Reads[m].how, shownValues[Reads[m].setting])
      BY <1>1, <2>1 DEF MembersIInv, AreReadable
    <2>3. Reads[m].setting = n => IsReadWell(Reads[m].how, v)
      BY <1>4, <1>5, <2>1 DEF AreServed, IsServed, IsExempt, Suits, ReadsWell
    <2> QED
      BY <1>2, <2>2, <2>3
  <1>7. MembersIInv' /\ isReceived'
    BY <1>1, <1>6, MembersFollow
  <1>8. SteadyIInv'
    <2>1. ASSUME IsSteady
          PROVE  /\ DOMAIN shownValues' = DOMAIN Dialog(NoValues)'
                 /\ \A k \in DOMAIN chosen' : k \in DOMAIN shownValues' => shownValues'[k] = chosen'[k]
      <3>1. /\ DOMAIN shownValues' = DOMAIN Dialog(NoValues)'
            /\ DOMAIN shownValues' = DOMAIN shownValues
            /\ \A k \in DOMAIN shownValues' : shownValues'[k] = given[k]
        BY <1>1, <1>2, <2>1, SteadyShowsGiven
      <3>2. \A k \in DOMAIN chosen : k \in DOMAIN shownValues => shownValues[k] = chosen[k]
        BY <1>1, <2>1 DEF SteadyIInv
      <3> QED
        BY <1>2, <1>3, <3>1, <3>2
    <2> QED
      BY <1>1, <2>1 DEF SteadyIInv, IsSteady
  <1>9. ModelsIInv'
    <2> SUFFICES ASSUME feature = "settings"
                 PROVE  /\ "settingsModelComboBox" \in DOMAIN shownValues'
                        /\ shownValues'["settingsModelComboBox"] \in Models
                        /\ \A k \in DOMAIN chosen' :
                             k \in DOMAIN storedValues' /\ storedValues'[k] = chosen'[k]
                        /\ \A k \in DOMAIN shownValues' :
                             k \in DOMAIN storedValues' => shownValues'[k] = storedValues'[k]
      BY <1>1 DEF ModelsIInv
    <2> DEFINE box == "settingsModelComboBox"
    <2>1. /\ box \in DOMAIN shownValues /\ shownValues[box] \in Models
          /\ \A k \in DOMAIN chosen : k \in DOMAIN storedValues /\ storedValues[k] = chosen[k]
          /\ \A k \in DOMAIN shownValues :
               k \in DOMAIN storedValues => shownValues[k] = storedValues[k]
      BY <1>1 DEF ModelsIInv
    <2>2. box \in DOMAIN given /\ given[box] \in Models
      <3>1. n = box => v \in Models
        <4>1. Received(shownValues)[box] = shownValues[box]
          BY <2>1, ReceivedIs
        <4>2. HasModelBox(D)
          BY <2>1, <4>1, SettingsHaveModelBox DEF D
        <4> QED
          BY <1>4, <4>2, ModelBoxIs DEF HasModelBox
      <3> HIDE DEF box
      <3> QED
        BY <1>2, <2>1, <3>1
    <2>3. /\ box \in DOMAIN shownValues' /\ shownValues'[box] \in Models
          /\ storedValues' = given ++ storedValues
          /\ \A k \in DOMAIN shownValues' :
               k \in DOMAIN storedValues' => shownValues'[k] = storedValues'[k]
      BY <1>1, <2>2, ModelsShowStored
    <2>4. \A k \in DOMAIN chosen' : k \in DOMAIN storedValues' /\ storedValues'[k] = chosen'[k]
      <3> SUFFICES ASSUME NEW k \in DOMAIN chosen'
                   PROVE  k \in DOMAIN storedValues' /\ storedValues'[k] = chosen'[k]
        OBVIOUS
      <3>1. /\ k \in DOMAIN given => k \in DOMAIN storedValues' /\ storedValues'[k] = given[k]
            /\ k \in DOMAIN storedValues /\ k \notin DOMAIN given =>
                 k \in DOMAIN storedValues' /\ storedValues'[k] = storedValues[k]
        <4> DEFINE J == given ++ storedValues
        <4>1. Joins(J, given, storedValues)
          BY JoinIs
        <4>2. storedValues' = J
          BY <2>3
        <4> HIDE DEF J
        <4> QED
          BY <4>1, <4>2 DEF Joins
      <3>2. CASE k = n
        BY <1>2, <1>3, <3>1, <3>2
      <3>3. CASE k # n
        <4>1. k \in DOMAIN chosen /\ chosen'[k] = chosen[k]
          BY <1>3, <3>3
        <4>2. k \in DOMAIN storedValues /\ storedValues[k] = chosen[k]
          BY <2>1, <4>1
        <4>3. k \in DOMAIN given => given[k] = storedValues[k]
          BY <1>2, <2>1, <3>3, <4>2
        <4> QED
          BY <3>1, <4>1, <4>2, <4>3
      <3> QED
        BY <3>2, <3>3
    <2> QED
      BY <2>3, <2>4
  <1> QED
    BY <1>7, <1>8, <1>9 DEF DialogIInv

(* The inductive invariant of the dialogs: what is read is shown as the    *)
(* plugin understands it, members follow what is shown, a dialog that does *)
(* not change shows the last choices, and what the plugin of two models    *)
(* shows is what it has stored.                                            *)
THEOREM DialogsStayServed == DialogSpec => []DialogIInv
  <1>1. DialogInit => DialogIInv
    BY DialogStarts
  <1>2. DialogIInv /\ [DialogNext]_dialogVars => DialogIInv'
    <2> SUFFICES ASSUME DialogIInv, [DialogNext]_dialogVars PROVE DialogIInv'
      OBVIOUS
    <2>1. CASE SendSettings
      BY <2>1, ServerSendsDialog
    <2>2. ASSUME NEW n \in DOMAIN shownValues,
                 NEW v \in Dialog(Received(shownValues))[n].choices, Choose(n, v)
          PROVE  DialogIInv'
      BY <2>2, UserChangesDialog
    <2>3. CASE UNCHANGED dialogVars
      <3>1. Reads' = Reads /\ Dialog(NoValues)' = Dialog(NoValues)
        BY <2>3, PluginStays DEF dialogVars
      <3> QED
        BY <2>3, <3>1
           DEF dialogVars, DialogIInv, MembersIInv, SteadyIInv, ModelsIInv, AreReadable,
               MembersAgree, NothingIsIgnored, IsExempt, IsSteady
    <2> QED
      BY <2>1, <2>2, <2>3 DEF DialogNext
  <1> QED
    BY <1>1, <1>2, PTL DEF DialogSpec

(* Whatever dialogs came between, the plugin does what the dialog shows,   *)
(* the user finds what he has chosen, and he can choose the other model:   *)
(* for any types, streams and number of choices.  So it is by              *)
(* pluginSettingsReceived() and settingsReceived() of the plugins.         *)
THEOREM DialogsAreObeyed == DialogSpec => []DialogIsObeyed
  <1>1. DialogIInv => DialogIsObeyed
    <2> SUFFICES ASSUME DialogIInv PROVE DialogIsObeyed
      OBVIOUS
    <2>1. MembersFollowDialog
      BY DEF DialogIInv, MembersIInv, MembersAgree, NothingIsIgnored, IsExempt,
             MembersFollowDialog
    <2>2. ChoicesAreKept
      BY DEF DialogIInv, SteadyIInv, ModelsIInv, IsSteady, ChoicesAreKept
    <2>3. feature = "settings" => "settingsModelComboBox" \in DOMAIN shownValues
      BY DEF DialogIInv, ModelsIInv
    <2> QED
      BY <2>1, <2>2, <2>3 DEF DialogIsObeyed
  <1> QED
    BY <1>1, DialogsStayServed, PTL

=============================================================================
