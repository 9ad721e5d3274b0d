----------------------------- MODULE StubEvents -----------------------------
(***************************************************************************)
(* The Device Agent of the stub plugin events.  Its thread generates the   *)
(* events of a fixed list in turn, one at a time, while the settings allow *)
(* it and the Server is said to need metadata.                             *)
(*                                                                         *)
(* The Server sets the handler before it sends settings or types: settings-*)
(* Received() pushes a manifest through m_handler without checking it.     *)
(***************************************************************************)
EXTENDS EventThread, Sequences

(* kEventsToFire, as far as the keys of prolonged events go: what the      *)
(* event does to its key, and whether the caption calls it a duplicate.    *)
Started(k) == [key |-> k, does |-> "start"]
Duplicate(k) == [key |-> k, does |-> "repeat"]
Finished(k) == [key |-> k, does |-> "finish"]
Impulse == [key |-> "", does |-> "impulse"]

EventsToFire ==
  << Started("key1"), Duplicate("key1"), Started("key2"), Finished("key1"),
     Started("key1"), Finished("key2"), Finished("key1"),
     Impulse, Impulse, Impulse, Impulse >>

VARIABLES
  generateEvents,   (* The flag of the settings.                           *)
  needed,           (* m_needToGenerateEvents.                             *)
  index,            (* currentEventTypeIndex, counted from 1.              *)
  event,            (* The event being pushed, an index.                   *)
  serverCall,       (* What the Server's call is about to do.              *)
  listed,           (* History: the last list of types was not empty.      *)
  active            (* History: the keys of the prolonged events that the  *)
                    (* Server has been told of.                            *)

eventVars == <<generateEvents, needed, index, event>>
callVars == <<serverCall, listed>>

vars == <<baseVars, threadVars, eventVars, callVars, active>>

EventIndices == 1..Len(EventsToFire)

TypeOK ==
  /\ ThreadTypeOK
  /\ generateEvents \in BOOLEAN /\ needed \in BOOLEAN
  /\ index \in EventIndices /\ event \in EventIndices
  /\ serverCall \in {"none", "manifest", "stop", "start"}
  /\ listed \in BOOLEAN
  /\ active \subseteq {"key1", "key2"}

Init ==
  /\ ThreadInit
  /\ generateEvents = TRUE /\ needed = FALSE /\ index = 1 /\ event = 1
  /\ serverCall = "none" /\ listed = FALSE /\ active = {}

----------------------------------------------------------------------------
(* The Server's calls. *)

Call(name) ==
  /\ life = "alive" /\ server = "idle" /\ handler # NoHandler
  /\ server' = "plugin" /\ serverCall' = name
  /\ UNCHANGED <<handler, mutex, calling, packets, threadVars>>

Return ==
  /\ server' = "idle" /\ serverCall' = "none"

SetTheHandler ==
  /\ life = "alive" /\ \E h \in Handlers : SetHandler(h)
  /\ UNCHANGED <<threadVars, eventVars, callVars, active>>

(* settingsReceived(), and then pushManifest(), which calls the handler    *)
(* without the mutex.                                                      *)
SettingsReceived ==
  /\ Call("manifest")
  /\ generateEvents' \in BOOLEAN
  /\ UNCHANGED <<needed, index, event, listed, active>>

PushManifest ==
  /\ serverCall = "manifest" /\ calling[Server] = NoHandler
  /\ calling' = [calling EXCEPT ![Server] = handler]
  /\ UNCHANGED <<handler, mutex, server, packets, threadVars, eventVars, callVars, active>>

ManifestPushed ==
  /\ calling[Server] # NoHandler
  /\ calling' = [calling EXCEPT ![Server] = NoHandler]
  /\ Return
  /\ UNCHANGED <<handler, mutex, packets, threadVars, eventVars, listed, active>>

(* doSetNeededMetadataTypes(): stops if the list is empty, and starts in   *)
(* any case.                                                               *)
DoSetNeededMetadataTypes ==
  /\ listed' \in BOOLEAN
  /\ Call(IF listed' THEN "start" ELSE "stop")
  /\ UNCHANGED <<eventVars, active>>

StopFetchingMetadata ==
  /\ serverCall = "stop" /\ eventMutex = Nobody
  /\ needed' = FALSE
  /\ serverCall' = "start"
  /\ UNCHANGED <<baseVars, threadVars, generateEvents, index, event, listed, active>>

(* m_eventTypeId, "First event to produce", is set here and never read.    *)
(* `StartFromFirst` is a mutant: the list does begin with the first event. *)
StartFromFirst ==
  /\ serverCall = "start" /\ eventMutex = Nobody
  /\ needed' = TRUE /\ NotifyAll
  /\ index' = 1
  /\ Return
  /\ UNCHANGED <<handler, mutex, calling, packets, terminated, eventMutex, life,
                 generateEvents, event, listed, active>>

StartFetchingMetadata ==
  /\ serverCall = "start" /\ eventMutex = Nobody
  /\ needed' = TRUE /\ NotifyAll
  /\ Return
  /\ UNCHANGED <<handler, mutex, calling, packets, terminated, eventMutex, life,
                 generateEvents, index, event, listed, active>>

ServerCall ==
  \/ PushManifest \/ ManifestPushed
  \/ StopFetchingMetadata \/ StartFetchingMetadata

----------------------------------------------------------------------------
(* The part of eventThreadLoop() that generates events. *)

(* generateEvents && m_needToGenerateEvents; cookSomeEvents() takes the    *)
(* next event of the list.  A mutant, `CookPastTheEnd`, does not wrap.     *)
CookPastTheEnd ==
  /\ loop = "generate" /\ generateEvents /\ needed
  /\ event' = index /\ index' = index + 1
  /\ loop' = "push"
  /\ UNCHANGED <<baseVars, terminated, eventMutex, life, generateEvents, needed,
                 callVars, active>>

CookSomeEvents ==
  /\ loop = "generate" /\ generateEvents /\ needed
  /\ event' = index /\ index' = (index % Len(EventsToFire)) + 1
  /\ loop' = "push"
  /\ UNCHANGED <<baseVars, terminated, eventMutex, life, generateEvents, needed,
                 callVars, active>>

NothingToGenerate ==
  /\ loop = "generate" /\ ~(generateEvents /\ needed)
  /\ loop' = "sleep"
  /\ UNCHANGED <<baseVars, terminated, eventMutex, life, eventVars, callVars, active>>

PushEvent ==
  /\ loop = "push" /\ (Lock(thread) \/ CallHandler(thread))
  /\ UNCHANGED <<threadVars, eventVars, callVars, active>>

(* What the Server knows of the keys once it has handled the event.        *)
EventPushed ==
  /\ loop = "push" /\ EndPush(thread)
  /\ loop' = "sleep"
  /\ active' = CASE EventsToFire[event].does = "start"
                      -> active \union {EventsToFire[event].key}
                 [] EventsToFire[event].does = "finish"
                      -> active \ {EventsToFire[event].key}
                 [] OTHER -> active
  /\ UNCHANGED <<terminated, eventMutex, life, eventVars, callVars>>

LoopStep ==
  \/ SleepStep /\ UNCHANGED <<eventVars, callVars, active>>
  \/ CookSomeEvents \/ NothingToGenerate \/ PushEvent \/ EventPushed

Stop == (StopEventThread \/ Join) /\ UNCHANGED <<eventVars, callVars, active>>

Tick == TimeOut /\ UNCHANGED <<eventVars, callVars, active>>

Next ==
  \/ SetTheHandler \/ SettingsReceived \/ DoSetNeededMetadataTypes \/ ServerCall
  \/ LoopStep \/ Tick \/ Stop

Spec == Init /\ [][Next]_vars

(* As in DiagnosticEvents: the thread runs and gets the mutexes that are   *)
(* free again and again, and what the Server has begun goes on.            *)
FairSpec ==
  /\ Spec
  /\ SF_vars(LoopStep)
  /\ SF_vars(ServerCall)
  /\ WF_vars(life = "joined" /\ Stop)

(* The Server hears of the keys in a consistent order, however often the   *)
(* generation is stopped and started in the middle of the list: a key      *)
(* starts when it is not active, and is repeated or finished when it is.   *)
KeysAreConsistent ==
  calling[thread] # NoHandler =>
    CASE EventsToFire[event].does = "start" -> EventsToFire[event].key \notin active
      [] EventsToFire[event].does \in {"repeat", "finish"}
           -> EventsToFire[event].key \in active
      [] OTHER -> TRUE

(* startFetchingMetadata() may notify nobody, when the thread has read the *)
(* flag and does not wait yet; the period makes up for it.                 *)
NeededEventsCome ==
  WF_vars(Tick) =>
    ((needed /\ generateEvents /\ life = "alive")
       ~> (calling[thread] # NoHandler \/ ~needed \/ ~generateEvents \/ life # "alive"))

(* "Empty list means that the Server does not need any metadata from this  *)
(* DeviceAgent" (i_device_agent.h:147): after a call with an empty list no *)
(* further event is generated.                                             *)
EmptyListStops ==
  [][(server = "idle" /\ ~listed) => ~(loop = "generate" /\ loop' = "push")]_vars

=============================================================================
