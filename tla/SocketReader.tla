---------------------------- MODULE SocketReader ----------------------------
(***************************************************************************)
(* The control socket of the game: class SocketReader of                   *)
(* plugin/src/ms/vampires_nx_vms_plugin/socket_reader.{h,cpp}, the threads *)
(* it detaches, and, as far as the reader can notice them, the operating   *)
(* system's sockets and the players that connect to them.                  *)
(*                                                                         *)
(* The reader runs in the thread of its caller (module DeviceAgent).  The  *)
(* only other thread of the code is waitForConnection(), which startListe- *)
(* ning() detaches and forgets: it knows the number of a socket, not the   *)
(* reader that opened it.                                                  *)
(***************************************************************************)
EXTENDS Integers, SequencesExt

CONSTANTS
  Handles,          (* What socket() can return: a closed one is reused.   *)
  NoFd,             (* -1.                                                 *)
  MaxConnections,   (* Bound: connections the players make.                *)
  Keys,             (* The keystrokes.                                     *)
  MaxInbox          (* Bound: bytes in flight on a connection.             *)

ASSUME ReaderAssumption ==
  /\ NoFd \notin Handles
  /\ MaxConnections \in Nat /\ MaxInbox \in Nat

VARIABLES
  socketFd,   (* m_socketFd.                                               *)
  future,     (* m_dataFdFuture: the thread that has the promise; 0: none. *)
  dataFd,     (* m_dataFd: a connection; 0: no value.                      *)
  buffer,     (* m_buffer.                                                 *)
  threads,    (* The threads of waitForConnection() and their promises.    *)
  listening,  (* OS: socketFd listens.                                     *)
  backlog,    (* OS: connections to socketFd that nobody accepted yet.     *)
  conn,       (* OS: connections, as the players left them.                *)
  inbox       (* OS: what is sent over a connection and not received.      *)

readerVars == <<socketFd, future, dataFd, buffer>>
networkVars == <<threads, listening, backlog, conn, inbox>>

Connections == 1..MaxConnections

(* A keystroke, and the connection it came from. *)
Bytes == [key : Keys, from : Connections]

Threads == [fd : Handles, state : {"starting", "accepting", "done", "failed"},
            conn : 0..MaxConnections]

ReaderTypeOK ==
  /\ socketFd \in Handles \union {NoFd}
  /\ future \in 0..Len(threads)
  /\ dataFd \in 0..MaxConnections
  /\ buffer \in Seq(Bytes)
  /\ threads \in Seq(Threads)
  /\ listening \in BOOLEAN
  /\ backlog \in Seq(Connections)
  /\ conn \in [Connections -> {"new", "open", "closed", "reset"}]
  /\ inbox \in [Connections -> Seq(Bytes)]

ReaderInit ==
  /\ socketFd = NoFd /\ future = 0 /\ dataFd = 0 /\ buffer = <<>>
  /\ threads = <<>> /\ listening = FALSE /\ backlog = <<>>
  /\ conn = [c \in Connections |-> "new"]
  /\ inbox = [c \in Connections |-> <<>>]

----------------------------------------------------------------------------
(* The players and the network. *)

Connect(c) ==
  /\ listening
  /\ conn[c] = "new" /\ \A d \in 1..c - 1 : conn[d] # "new"
  /\ conn' = [conn EXCEPT ![c] = "open"]
  /\ backlog' = Append(backlog, c)
  /\ UNCHANGED <<readerVars, threads, listening, inbox>>

PressKey(c, k) ==
  /\ conn[c] = "open" /\ Len(inbox[c]) < MaxInbox
  /\ inbox' = [inbox EXCEPT ![c] = Append(@, [key |-> k, from |-> c])]
  /\ UNCHANGED <<readerVars, threads, listening, backlog, conn>>

(* ms_netcat shuts its socket down: the reader can still receive the rest. *)
Disconnect(c) ==
  /\ conn[c] = "open"
  /\ conn' = [conn EXCEPT ![c] = "closed"]
  /\ UNCHANGED <<readerVars, threads, listening, backlog, inbox>>

(* The player's process is killed, or its host is gone. *)
Abort(c) ==
  /\ conn[c] = "open"
  /\ conn' = [conn EXCEPT ![c] = "reset"]
  /\ UNCHANGED <<readerVars, threads, listening, backlog, inbox>>

----------------------------------------------------------------------------
(* waitForConnection(), in a thread of its own. *)

(* The thread enters accept() on whatever its socket number means by then. *)
EnterAccept(t) ==
  /\ threads[t].state = "starting"
  /\ threads' = [threads EXCEPT ![t].state =
                   IF threads[t].fd = socketFd /\ listening THEN "accepting"
                                                            ELSE "failed"]
  /\ UNCHANGED <<readerVars, listening, backlog, conn, inbox>>

(* accept() returns a connection and the promise is kept ... *)
Accept(t) ==
  /\ threads[t].state = "accepting" /\ backlog # <<>>
  /\ threads' = [threads EXCEPT ![t].state = "done", ![t].conn = Head(backlog)]
  /\ backlog' = Tail(backlog)
  /\ UNCHANGED <<readerVars, listening, conn, inbox>>

(* ... or fails, when the player has gone in the meantime, and the thread  *)
(* ends with the promise broken.                                           *)
AcceptFails(t) ==
  /\ threads[t].state = "accepting" /\ backlog # <<>>
  /\ conn[Head(backlog)] = "reset"
  /\ threads' = [threads EXCEPT ![t].state = "failed"]
  /\ backlog' = Tail(backlog)
  /\ UNCHANGED <<readerVars, listening, conn, inbox>>

----------------------------------------------------------------------------
(* Opening and closing the socket, in the thread of the caller. *)

(* closesocket(m_socketFd): accept() fails in a thread that waits in it,   *)
(* and the connections nobody accepted are reset.                          *)
ThreadsAfterClose ==
  [t \in DOMAIN threads |->
     IF threads[t].state = "accepting" /\ threads[t].fd = socketFd
     THEN [threads[t] EXCEPT !.state = "failed"] ELSE threads[t]]

ConnAfterClose ==
  [c \in Connections |-> IF \E i \in DOMAIN backlog : backlog[i] = c
                         THEN "reset" ELSE conn[c]]

(* startListening() once the old socket, if any, is closed: a new socket,  *)
(* and a thread with the promise for m_dataFdFuture.                       *)
Listen ==
  /\ \E fd \in Handles :
       /\ socketFd' = fd
       /\ threads' = Append(ThreadsAfterClose,
                            [fd |-> fd, state |-> "starting", conn |-> 0])
  /\ future' = Len(threads) + 1
  /\ listening' = TRUE

(* startListening() fails: socket() does, or bind() or listen() does and   *)
(* m_socketFd is left with a socket that does not listen.  A mutant,       *)
(* `ListenFailsLate`, has asked for the future by then.                    *)
ListenFailsLate ==
  /\ socketFd' \in Handles \union {NoFd}
  /\ threads' = ThreadsAfterClose
  /\ future' = Len(threads) + 1
  /\ listening' = FALSE

ListenFails ==
  /\ socketFd' \in Handles \union {NoFd}
  /\ threads' = ThreadsAfterClose
  /\ future' = 0
  /\ listening' = FALSE

(* A reader is replaced by a new one that listens (or fails to), as        *)
(* doSetNeededMetadataTypes() does: ~SocketReader() closes the old socket, *)
(* but nothing closes the old connection.                                  *)
ReplaceReader(succeeds) ==
  /\ IF succeeds THEN Listen ELSE ListenFails
  /\ dataFd' = 0 /\ buffer' = <<>>
  /\ backlog' = <<>> /\ conn' = ConnAfterClose
  /\ UNCHANGED inbox

----------------------------------------------------------------------------
(* getChar(), which returns the byte `key`, or NoKey. *)

NoKey == [key |-> "none", from |-> 0]

(* Take the byte to return, if any, from `buf`. *)
TakeFrom(buf, byte) ==
  IF buf = <<>> THEN byte = NoKey /\ buffer' = <<>>
                ELSE byte = Head(buf) /\ buffer' = Tail(buf)

(* The connection to receive from. *)
Polled == IF dataFd # 0 THEN dataFd
          ELSE IF future # 0 /\ threads[future].state = "done"
               THEN threads[future].conn ELSE 0

(* No player has connected yet. *)
NobodyConnected(byte) ==
  /\ dataFd = 0 /\ future # 0
  /\ threads[future].state \in {"starting", "accepting"}
  /\ byte = NoKey
  /\ UNCHANGED <<readerVars, networkVars>>

(* The future has no promise, or a broken one: wait_for() or get() throws, *)
(* and getChar() is noexcept.                                              *)
GetCharThrows ==
  /\ dataFd = 0
  /\ future # 0 => threads[future].state = "failed"

(* "Copy received bytes to the buffer, removing consecutive keystrokes to  *)
(* avoid inertia."                                                         *)
BufferWith(bytes) ==
  LET After[n \in 0..Len(bytes)] ==      \* The buffer after the first n bytes.
        IF n = 0 THEN buffer
        ELSE IF After[n - 1] # <<>> /\ Last(After[n - 1]).key = bytes[n].key
             THEN After[n - 1]
             ELSE Append(After[n - 1], bytes[n])
  IN After[Len(bytes)]

(* receiveAvailableBytes() until there is nothing more to receive. *)
Receive(byte) ==
  /\ Polled # 0 /\ conn[Polled] = "open"
  /\ dataFd' = Polled /\ future' = 0
  /\ inbox' = [inbox EXCEPT ![Polled] = <<>>]
  /\ TakeFrom(BufferWith(inbox[Polled]), byte)
  /\ UNCHANGED <<socketFd, threads, listening, backlog, conn>>

(* "Connection was closed by the sender - please reconnect": the bytes     *)
(* received so far are dropped, and the reader listens again.              *)
(* Two mutants: in `ReopenKeepingConnection` m_dataFd is not reset, and    *)
(* `StayConnected` takes an empty recv() for "nothing to read yet".        *)
StayConnected(byte) ==
  /\ Polled # 0 /\ conn[Polled] = "closed"
  /\ dataFd' = Polled /\ future' = 0
  /\ inbox' = [inbox EXCEPT ![Polled] = <<>>]
  /\ UNCHANGED <<socketFd, threads, listening, backlog, conn>>
  /\ TakeFrom(buffer, byte)

ReopenKeepingConnection(byte) ==
  /\ Polled # 0 /\ conn[Polled] = "closed"
  /\ dataFd' = Polled
  /\ inbox' = [inbox EXCEPT ![Polled] = <<>>]
  /\ Listen \/ ListenFails
  /\ backlog' = <<>> /\ conn' = ConnAfterClose
  /\ TakeFrom(buffer, byte)

Reopen(byte) ==
  /\ Polled # 0 /\ conn[Polled] = "closed"
  /\ dataFd' = 0
  /\ inbox' = [inbox EXCEPT ![Polled] = <<>>]
  /\ Listen \/ ListenFails
  /\ backlog' = <<>> /\ conn' = ConnAfterClose
  /\ TakeFrom(buffer, byte)

(* Any other error of recv(): reported, and that is all.                   *)
(* `ForgetConnection` is a mutant: m_dataFd is reset, nothing is reopened. *)
ForgetConnection(byte) ==
  /\ Polled # 0 /\ conn[Polled] = "reset"
  /\ dataFd' = 0 /\ future' = 0
  /\ inbox' = [inbox EXCEPT ![Polled] = <<>>]
  /\ TakeFrom(buffer, byte)
  /\ UNCHANGED <<socketFd, threads, listening, backlog, conn>>

ReceiveFails(byte) ==
  /\ Polled # 0 /\ conn[Polled] = "reset"
  /\ dataFd' = Polled /\ future' = 0
  /\ inbox' = [inbox EXCEPT ![Polled] = <<>>]
  /\ TakeFrom(buffer, byte)
  /\ UNCHANGED <<socketFd, threads, listening, backlog, conn>>

GetChar(byte) ==
  \/ NobodyConnected(byte)
  \/ Receive(byte)
  \/ Reopen(byte)
  \/ ReceiveFails(byte)

(* clear(). *)
Clear == buffer' = <<>> /\ UNCHANGED <<socketFd, future, dataFd, networkVars>>

----------------------------------------------------------------------------
(* Steps of others, while the caller does something else. *)

Network ==
  \/ \E c \in Connections :
       \/ Connect(c)
       \/ \E k \in Keys : PressKey(c, k)
       \/ Disconnect(c)
       \/ Abort(c)
  \/ \E t \in DOMAIN threads : EnterAccept(t) \/ Accept(t) \/ AcceptFails(t)

=============================================================================
