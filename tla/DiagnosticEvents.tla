-------------------------- MODULE DiagnosticEvents --------------------------
(***************************************************************************)
(* The stub plugin diagnostic_events: its DeviceAgent, and its Engine,     *)
(* which has the same loop, the same destructor and the same settings, and *)
(* differs in the period and in the initial value of generateEvents.       *)
(***************************************************************************)
EXTENDS EventThread

CONSTANT PackSize     (* Events pushed at a time.                          *)

ASSUME PackAssumption == PackSize \in Nat \ {0}

VARIABLES
  generateEvents,     (* The atomic flag of the settings.                  *)
  pack,               (* Events of the pack that are not pushed yet.       *)
  notified            (* settingsReceived() has the notification to do.    *)

vars == <<baseVars, threadVars, generateEvents, pack, notified>>

TypeOK ==
  /\ ThreadTypeOK
  /\ generateEvents \in BOOLEAN /\ notified \in BOOLEAN
  /\ pack \in 0..PackSize

(* The flag is initially TRUE in the DeviceAgent, and FALSE in the Engine. *)
Init ==
  /\ ThreadInit
  /\ generateEvents \in BOOLEAN /\ pack = 0 /\ notified = TRUE

----------------------------------------------------------------------------
(* settingsReceived() writes the flag, and then notifies, without the      *)
(* mutex.                                                                  *)
SettingsReceived ==
  /\ life = "alive" /\ server = "idle"
  /\ generateEvents' \in BOOLEAN
  /\ server' = "plugin" /\ notified' = FALSE
  /\ UNCHANGED <<handler, mutex, calling, packets, threadVars, pack>>

NotifySettings ==
  /\ server = "plugin" /\ ~notified
  /\ NotifyAll
  /\ server' = "idle" /\ notified' = TRUE
  /\ UNCHANGED <<handler, mutex, calling, packets, terminated, eventMutex, life,
                 generateEvents, pack>>

(* The rest is left to the base class, whose pushXxx() and                 *)
(* pullMetadataPackets() succeed and produce nothing.                      *)
BaseCall ==
  /\ life = "alive"
  /\ \/ \E h \in Handlers : SetHandler(h)
     \/ EnterOverride
     \/ notified /\ AcceptDataPacket
     \/ handler = NoHandler /\ ReturnError
     \/ PullMetadataPackets /\ packets' = 0
     \/ ProcessMetadataPackets \/ EndProcessing
  /\ UNCHANGED <<threadVars, generateEvents, pack, notified>>

----------------------------------------------------------------------------
(* The part of eventThreadLoop() that generates events. *)

Generate ==
  /\ loop = "generate"
  /\ IF generateEvents THEN loop' = "push" /\ pack' = PackSize
                       ELSE loop' = "sleep" /\ UNCHANGED pack
  /\ UNCHANGED <<baseVars, terminated, eventMutex, life, generateEvents, notified>>

PushEvent ==
  /\ loop = "push" /\ (Lock(thread) \/ CallHandler(thread))
  /\ UNCHANGED <<threadVars, generateEvents, pack, notified>>

EventPushed ==
  /\ loop = "push" /\ EndPush(thread)
  /\ pack' = pack - 1
  /\ loop' = IF pack = 1 THEN "sleep" ELSE "push"
  /\ UNCHANGED <<terminated, eventMutex, life, generateEvents, notified>>

LoopStep ==
  \/ SleepStep /\ UNCHANGED <<generateEvents, pack, notified>>
  \/ Generate \/ PushEvent \/ EventPushed

Stop == (StopEventThread \/ Join) /\ UNCHANGED <<generateEvents, pack, notified>>

Tick == TimeOut /\ UNCHANGED <<generateEvents, pack, notified>>

Next ==
  \/ SettingsReceived \/ NotifySettings \/ BaseCall
  \/ LoopStep \/ Tick \/ Stop

Spec == Init /\ [][Next]_vars

(* The thread runs, and gets a mutex that is free again and again; a call  *)
(* of the Server that has begun goes on, the destructor included.  Nothing *)
(* is assumed of TimeOut.                                                  *)
FairSpec ==
  /\ Spec
  /\ SF_vars(LoopStep)
  /\ WF_vars(server # "idle" /\ (NotifySettings \/ BaseCall))
  /\ WF_vars(life = "joined" /\ Stop)

(* The notification of settingsReceived() may be lost, as it is made       *)
(* without the mutex: then the period must end for the setting to take     *)
(* effect.  With that, a setting that stays is followed by events.         *)
SettingTakesEffect ==
  WF_vars(Tick) =>
    ((generateEvents /\ handler # NoHandler /\ life = "alive")
       ~> (calling[thread] # NoHandler \/ ~generateEvents \/ life # "alive"))

=============================================================================
