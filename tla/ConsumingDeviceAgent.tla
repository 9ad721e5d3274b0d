------------------------ MODULE ConsumingDeviceAgent ------------------------
(***************************************************************************)
(* The base class of the Device Agents, ConsumingDeviceAgent of            *)
(* src/nx/sdk/analytics/helpers/consuming_device_agent.{h,cpp}: how what   *)
(* the plugin produces reaches the handler, under m_mutex.                 *)
(*                                                                         *)
(* The Server's calls do not overlap (i_device_agent.h), so they are one   *)
(* actor, Server.  The threads of the plugin push packets and events at    *)
(* any time.  What the virtual methods of the derived class return is left *)
(* open.                                                                   *)
(***************************************************************************)
EXTENDS Integers

CONSTANTS
  Threads,      (* The plugin's own threads.                               *)
  Server,       (* The thread in which the Server calls.                   *)
  Nobody,       (* Who holds a free mutex.                                 *)
  Handlers,     (* The handlers the Server may set.                        *)
  NoHandler,    (* nullptr.                                                *)
  MaxPackets    (* What pullMetadataPackets() may return at once.          *)

ASSUME ThreadsAssumption ==
  /\ Server \notin Threads
  /\ Nobody \notin Threads \union {Server}
  /\ NoHandler \notin Handlers
  /\ MaxPackets \in Nat

VARIABLES
  handler,      (* m_handler.                                              *)
  mutex,        (* m_mutex: who holds it.                                  *)
  calling,      (* The handler each thread is calling, or NoHandler.       *)
  server,       (* Where the Server's call is; "plugin": in an override.   *)
  packets       (* The pulled packets that are not processed yet.          *)

baseVars == <<handler, mutex, calling, server, packets>>

BaseTypeOK ==
  /\ handler \in Handlers \union {NoHandler}
  /\ mutex \in Threads \union {Server, Nobody}
  /\ calling \in [Threads \union {Server} -> Handlers \union {NoHandler}]
  /\ server \in {"idle", "accepted", "pulled", "processing", "plugin"}
  /\ packets \in 0..MaxPackets

BaseInit ==
  /\ handler = NoHandler /\ mutex = Nobody
  /\ calling = [a \in Threads \union {Server} |-> NoHandler]
  /\ server = "idle" /\ packets = 0

----------------------------------------------------------------------------
(* The Server's calls. *)

(* setHandler().  `SetHandlerUnlocked` is a mutant without the lock.       *)
SetHandlerUnlocked(h) ==
  /\ server = "idle"
  /\ handler' = h
  /\ UNCHANGED <<mutex, calling, server, packets>>

SetHandler(h) ==
  /\ server = "idle" /\ mutex = Nobody
  /\ handler' = h
  /\ UNCHANGED <<mutex, calling, server, packets>>

(* A call enters an override: doPushDataPacket() with a valid packet calls *)
(* pushXxx(), doSetSettings() calls settingsReceived().  There the plugin  *)
(* may push packets and events as its own threads do.                      *)
EnterOverride ==
  /\ server = "idle"
  /\ server' = "plugin"
  /\ UNCHANGED <<handler, mutex, calling, packets>>

LeaveOverride ==
  /\ server = "plugin" /\ mutex # Server
  /\ server' = "idle"
  /\ UNCHANGED <<handler, mutex, calling, packets>>

(* pushXxx() takes the data packet.                                        *)
AcceptDataPacket ==
  /\ server = "plugin" /\ mutex # Server
  /\ server' = "accepted"
  /\ UNCHANGED <<handler, mutex, calling, packets>>

(* "setHandler() was not called", or pullMetadataPackets() fails.          *)
ReturnError ==
  /\ server = "accepted"
  /\ server' = "idle"
  /\ UNCHANGED <<handler, mutex, calling, packets>>

PullMetadataPackets ==
  /\ server = "accepted" /\ handler # NoHandler
  /\ packets' \in 0..MaxPackets
  /\ server' = "pulled"
  /\ UNCHANGED <<handler, mutex, calling>>

(* processMetadataPackets() holds the mutex from the first packet to the   *)
(* last.                                                                   *)
ProcessMetadataPackets ==
  /\ server = "pulled" /\ mutex = Nobody
  /\ mutex' = Server /\ server' = "processing"
  /\ UNCHANGED <<handler, calling, packets>>

(* A mutant, `ProcessOneMore`, compares i <= size().                       *)
ProcessOneMore ==
  /\ server = "processing" /\ calling[Server] = NoHandler /\ packets >= 0
  /\ \/ calling' = [calling EXCEPT ![Server] = handler] /\ UNCHANGED packets
     \/ packets' = packets - 1 /\ UNCHANGED calling
  /\ UNCHANGED <<handler, mutex, server>>

(* processMetadataPacket(): the handler is called, unless the packet is    *)
(* null.                                                                   *)
ProcessMetadataPacket ==
  /\ server = "processing" /\ calling[Server] = NoHandler /\ packets > 0
  /\ \/ calling' = [calling EXCEPT ![Server] = handler] /\ UNCHANGED packets
     \/ packets' = packets - 1 /\ UNCHANGED calling
  /\ UNCHANGED <<handler, mutex, server>>

(* handleMetadata() returns.  In a mutant, `NextPacketRelocking`, each     *)
(* packet is processed under a lock of its own.                            *)
NextPacketRelocking ==
  /\ server = "processing" /\ calling[Server] # NoHandler
  /\ calling' = [calling EXCEPT ![Server] = NoHandler]
  /\ packets' = packets - 1
  /\ mutex' = Nobody
  /\ UNCHANGED <<handler, server>>

NextPacket ==
  /\ server = "processing" /\ calling[Server] # NoHandler
  /\ calling' = [calling EXCEPT ![Server] = NoHandler]
  /\ packets' = packets - 1
  /\ UNCHANGED <<handler, mutex, server>>

EndProcessing ==
  /\ server = "processing" /\ calling[Server] = NoHandler /\ packets = 0
  /\ mutex' = Nobody /\ server' = "idle"
  /\ UNCHANGED <<handler, calling, packets>>

DoPushDataPacket ==
  \/ EnterOverride \/ LeaveOverride
  \/ AcceptDataPacket \/ ReturnError \/ PullMetadataPackets
  \/ ProcessMetadataPackets \/ ProcessMetadataPacket \/ NextPacket
  \/ EndProcessing

----------------------------------------------------------------------------
(* pushMetadataPacket() and pushIntegrationDiagnosticEvent(), in thread t, *)
(* which may be that of the Server.                                        *)

Lock(t) ==
  /\ mutex = Nobody /\ (t = Server => server = "plugin")
  /\ mutex' = t
  /\ UNCHANGED <<handler, calling, server, packets>>

CallHandler(t) ==
  /\ mutex = t /\ (t = Server => server = "plugin")
  /\ calling[t] = NoHandler /\ handler # NoHandler
  /\ calling' = [calling EXCEPT ![t] = handler]
  /\ UNCHANGED <<handler, mutex, server, packets>>

(* The handler returns; or there is none, and the push is ignored.         *)
EndPush(t) ==
  /\ mutex = t /\ (t = Server => server = "plugin")
  /\ calling[t] # NoHandler \/ handler = NoHandler
  /\ calling' = [calling EXCEPT ![t] = NoHandler]
  /\ mutex' = Nobody
  /\ UNCHANGED <<handler, server, packets>>

----------------------------------------------------------------------------
(* The base class with a plugin whose threads push whenever they like.     *)

BaseNext ==
  \/ \E h \in Handlers : SetHandler(h)
  \/ DoPushDataPacket
  \/ \E t \in Threads \union {Server} : Lock(t) \/ CallHandler(t) \/ EndPush(t)

BaseSpec == BaseInit /\ [][BaseNext]_baseVars

(* setHandler() returns only when the former handler is not in use: a call *)
(* in progress, in whatever thread, is a call of the present handler.      *)
HandlerOutlivesCall ==
  \A a \in Threads \union {Server} :
    calling[a] # NoHandler => calling[a] = handler

(* The packets of one pullMetadataPackets() reach the handler in a row: no *)
(* packet or event of another thread comes between them.                   *)
BatchIsContiguous ==
  server = "processing" => \A t \in Threads : calling[t] = NoHandler

=============================================================================
