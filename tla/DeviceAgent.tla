---------------------------- MODULE DeviceAgent ----------------------------
(***************************************************************************)
(* The plugin's class DeviceAgent, device_agent.{h,cpp} of                 *)
(* plugin/src/ms/vampires_nx_vms_plugin, at work: the Server calls it, one *)
(* call at a time, and it polls its SocketReader once a video frame, while *)
(* players connect, type and disconnect.                                   *)
(*                                                                         *)
(* A frame is four steps (`pc`), between which the network moves on.  What *)
(* a move does on the field is the business of module Vampires; here a     *)
(* move of the player may lose the game and a move of the vampires may end *)
(* it either way.                                                          *)
(***************************************************************************)
EXTENDS SocketReader

CONSTANTS
  DirectionKeys,    (* The keystrokes keyToDirection() knows.              *)
  speed,            (* The setting "1/speed (frames)".                     *)
  FramePeriod,      (* Bound: m_frameIndex is counted modulo this.         *)
  MaxReaders        (* Bound: calls of doSetNeededMetadataTypes().         *)

ASSUME AgentAssumption ==
  /\ DirectionKeys \subseteq Keys
  /\ speed \in Nat \ {0}
  /\ FramePeriod \in Nat /\ \E n \in 1..FramePeriod : FramePeriod = n * speed
  /\ MaxReaders \in Nat

VARIABLES
  pc,           (* Where pushCompressedVideoFrame() is; "idle": no call.   *)
  byte,         (* Its local `key`.                                        *)
  frameIndex,   (* m_frameIndex.                                           *)
  game,         (* m_vampires: "none", or what its last call returned.     *)
  readers,      (* How many readers there have been; 0: m_socketReader is  *)
                (* null.                                                   *)
  fatal         (* How the process ended: "exit", "terminate", or "no".    *)

agentVars == <<pc, byte, frameIndex, game, readers, fatal>>

vars == <<readerVars, networkVars, agentVars>>

AgentTypeOK ==
  /\ ReaderTypeOK
  /\ pc \in {"idle", "key", "vampires", "pull"}
  /\ byte \in Bytes \union {NoKey}
  /\ frameIndex \in 0..FramePeriod - 1
  /\ game \in {"none", "ok", "lost", "win"}
  /\ readers \in 0..MaxReaders
  /\ fatal \in {"no", "exit", "terminate"}

Init ==
  /\ ReaderInit
  /\ pc = "idle" /\ byte = NoKey /\ frameIndex = 0
  /\ game = "none" /\ readers = 0 /\ fatal = "no"

IsCalled == pc = "idle" /\ fatal = "no"

(* doSetNeededMetadataTypes(): a new reader and a new game; exit(42) when  *)
(* the port cannot be opened.                                              *)
SetNeededMetadataTypes ==
  /\ IsCalled /\ readers < MaxReaders
  /\ readers' = readers + 1
  /\ \/ ReplaceReader(TRUE) /\ game' = "ok" /\ UNCHANGED fatal
     \/ ReplaceReader(FALSE) /\ fatal' = "exit" /\ UNCHANGED game
  /\ UNCHANGED <<pc, byte, frameIndex>>

----------------------------------------------------------------------------
(* pushCompressedVideoFrame(), and pullMetadataPackets() after it. *)

NextFrame == frameIndex' = (frameIndex + 1) % FramePeriod

(* The frame comes before doSetNeededMetadataTypes(): an assertion fails,  *)
(* the call returns false, and doPushDataPacket() returns before it pulls. *)
RefuseFrame ==
  /\ IsCalled /\ readers = 0
  /\ NextFrame
  /\ UNCHANGED <<readerVars, networkVars, pc, byte, game, readers, fatal>>

PollKey ==
  /\ IsCalled /\ readers > 0
  /\ NextFrame
  /\ GetChar(byte')
  /\ pc' = IF byte' = NoKey THEN "vampires" ELSE "key"
  /\ UNCHANGED <<game, readers, fatal>>

PollThrows ==
  /\ IsCalled /\ readers > 0
  /\ GetCharThrows
  /\ NextFrame
  /\ fatal' = "terminate"
  /\ UNCHANGED <<readerVars, networkVars, pc, byte, game, readers>>

(* movePlayer(), unless the key is irrelevant; then clear().  A mutant,    *)
(* `ActOnKeyOnly`, leaves the rest of the keystrokes for the next frame.   *)
ActOnKeyOnly ==
  /\ pc = "key" /\ game = "ok" /\ fatal = "no"
  /\ IF byte.key \in DirectionKeys THEN game' \in {"ok", "lost"} ELSE UNCHANGED game
  /\ UNCHANGED <<readerVars, networkVars>>
  /\ pc' = "vampires" /\ byte' = NoKey
  /\ UNCHANGED <<frameIndex, readers, fatal>>

ActOnKey ==
  /\ pc = "key" /\ game = "ok" /\ fatal = "no"
  /\ IF byte.key \in DirectionKeys THEN game' \in {"ok", "lost"} ELSE UNCHANGED game
  /\ Clear
  /\ pc' = "vampires" /\ byte' = NoKey
  /\ UNCHANGED <<frameIndex, readers, fatal>>

(* performPlayerLost(), performPlayerWon(): tell the Server, and start a   *)
(* new game.                                                               *)
StartOver ==
  /\ game \in {"lost", "win"} /\ fatal = "no"
  /\ game' = "ok"
  /\ UNCHANGED <<readerVars, networkVars, pc, byte, frameIndex, readers, fatal>>

(* "Move the vampires every Nth frame." *)
MoveVampires ==
  /\ pc = "vampires" /\ game = "ok" /\ fatal = "no"
  /\ IF frameIndex % speed = 0 THEN game' \in {"ok", "lost", "win"}
                               ELSE UNCHANGED game
  /\ pc' = "pull"
  /\ UNCHANGED <<readerVars, networkVars, byte, frameIndex, readers, fatal>>

PullMetadataPackets ==
  /\ pc = "pull" /\ game \notin {"lost", "win"} /\ fatal = "no"
  /\ pc' = "idle"
  /\ UNCHANGED <<readerVars, networkVars, byte, frameIndex, game, readers, fatal>>

Frame ==
  \/ RefuseFrame \/ PollKey \/ PollThrows
  \/ ActOnKey \/ StartOver \/ MoveVampires \/ PullMetadataPackets

Next ==
  \/ SetNeededMetadataTypes
  \/ Frame
  \/ fatal = "no" /\ Network /\ UNCHANGED agentVars

Spec == Init /\ [][Next]_vars

(* The Server keeps sending frames, and every thread runs.                 *)
Fairness ==
  /\ WF_vars(Frame)
  /\ \A t \in 1..MaxConnections + MaxReaders :
       WF_vars(/\ t \in DOMAIN threads /\ fatal = "no"
               /\ EnterAccept(t) \/ Accept(t)
               /\ UNCHANGED agentVars)

FairSpec == Spec /\ Fairness

----------------------------------------------------------------------------
(* Properties. *)

(* What startListening() asserts of its reader, "m_socketFd < 0" and       *)
(* "!m_dataFd", kept up between the calls: the reader never has both a     *)
(* connection and a future that may bring another one, and no connection   *)
(* outlives the socket it was accepted on; so the future it waits for is   *)
(* that of a thread on its own socket, also when socket numbers are reused.*)
OneSource ==
  /\ dataFd # 0 => future = 0 /\ socketFd # NoFd
  /\ future # 0 => /\ listening
                   /\ threads[future].fd = socketFd
                   /\ threads[future].state = "done" => threads[future].conn # 0

(* A keystroke that moves the player comes from the player who is          *)
(* connected: whatever a former one typed was dropped, by clear() and with *)
(* the connection.                                                         *)
NoKeyOutlivesItsConnection == (pc = "key") => (byte.from = dataFd)

(* The reader turns from one player to another only after the first one    *)
(* has disconnected, unless the whole reader is replaced.                  *)
ServedUntilGone ==
  [][(dataFd # 0 /\ dataFd' # dataFd /\ readers' = readers)
       => (conn[dataFd] = "closed" /\ dataFd' = 0)]_vars

(* Some thread accepted c for a reader that is gone. *)
Stranded(c) ==
  \E t \in DOMAIN threads : threads[t].conn = c /\ c # Polled

(* "Please reconnect": when the player disconnects, the reader leaves the  *)
(* connection, and from then on the first player in the queue gets its     *)
(* attention, unless that player goes away too, or startListening() fails, *)
(* or the Server replaces the reader.                                      *)
NextPlayerIsServed ==
  /\ (dataFd # 0 /\ conn[dataFd] = "closed") ~> (dataFd = 0 \/ fatal # "no")
  /\ \A c \in Connections :
       (/\ backlog # <<>> /\ Head(backlog) = c
        /\ future # 0 /\ threads[future].state \in {"starting", "accepting"})
         ~> (dataFd = c \/ Stranded(c) \/ conn[c] # "open" \/ fatal # "no")

(* "To control the game, the user must connect to the socket opened by the *)
(* plugin" (readme.md:13): an accepted connection controls the game as     *)
(* long as the player keeps it.                                            *)
ConnectedPlayerControls ==
  \A t \in DOMAIN threads :
    threads[t].conn # 0 /\ conn[threads[t].conn] = "open"
      => threads[t].conn = Polled

(* The same sentence of a player whose connection broke: the reader leaves *)
(* the broken connection, so that the player can connect again.            *)
PlayerCanReconnect ==
  (dataFd # 0 /\ conn[dataFd] # "open") ~> (dataFd = 0 \/ fatal # "no")

=============================================================================
