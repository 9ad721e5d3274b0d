------------------------- MODULE DeviceAgentProofs -------------------------
(***************************************************************************)
(* What holds of the plugin's Device Agent and its SocketReader, whatever  *)
(* the number of players, keys, socket numbers and frames: the reader      *)
(* waits for a connection or has one, and a keystroke that is acted on is  *)
(* that of the player who is connected.                                    *)
(***************************************************************************)
EXTENDS DeviceAgent, InductionLemmas, SequenceTheorems

(* What is received from a connection was sent over it.                    *)
BytesFrom(c) == {b \in Bytes : b.from = c}

InboxesApart == \A c \in Connections : inbox[c] \in Seq(BytesFrom(c))

(* Keystrokes wait in the buffer only between getChar() and clear(), and   *)
(* they, and the one that getChar() returned, are of the connected player. *)
BufferIsOfPlayer ==
  IF pc = "key" THEN byte \in BytesFrom(dataFd) /\ buffer \in Seq(BytesFrom(dataFd))
                ELSE byte = NoKey /\ buffer = <<>>

IInv == AgentTypeOK /\ OneSource /\ InboxesApart /\ BufferIsOfPlayer

----------------------------------------------------------------------------
(* getChar() copies bytes to the buffer one by one: if those that wait and *)
(* those that are received are of one kind, so are those that wait then.   *)
LEMMA BufferWithType ==
  ASSUME NEW T, buffer \in Seq(T), NEW bytes \in Seq(T)
  PROVE  BufferWith(bytes) \in Seq(T)
  <1> DEFINE n == Len(bytes)
             Next1(buf, i) == IF buf # <<>> /\ Last(buf).key = bytes[i].key THEN buf
                              ELSE Append(buf, bytes[i])
             Steps(g) == g = [i \in 0..n |-> IF i = 0 THEN buffer ELSE Next1(g[i - 1], i)]
             step == [p \in Seq(T) \X (1..n) |-> Next1(p[1], p[2])]
             After == CHOOSE g : Steps(g)
  <1>1. n \in Nat /\ \A i \in 1..n : bytes[i] \in T
    OBVIOUS
  <1>2. \A buf \in Seq(T), i \in 1..n : Next1(buf, i) \in Seq(T)
    BY <1>1
  <1>3. \E g \in [0..n -> Seq(T)] : Steps(g)
    <2>1. step \in [Seq(T) \X (1..n) -> Seq(T)]
      BY <1>2
    <2>2. PICK g : g \in Computations(Seq(T), buffer, n, step)
      <3> HIDE DEF n, step
      <3> QED
        BY <1>1, <2>1, ComputationExists
    <2>3. /\ g \in [0..n -> Seq(T)] /\ g[0] = buffer
          /\ \A i \in 1..n : g[i] = step[<<g[i - 1], i>>]
      <3> HIDE DEF n, step
      <3> QED
        BY <2>2 DEF Computations
    <2>4. \A i \in 1..n : g[i] = Next1(g[i - 1], i)
      <3> SUFFICES ASSUME NEW i \in 1..n PROVE g[i] = Next1(g[i - 1], i)
        OBVIOUS
      <3> HIDE DEF n, Next1
      <3>1. i - 1 \in 0..n
        BY <1>1
      <3>2. g[i - 1] \in Seq(T)
        BY <2>3, <3>1
      <3> QED
        BY <2>3, <3>2
    <2>5. Steps(g)
      <3> HIDE DEF n, Next1
      <3> QED
        BY <1>1, <2>3, <2>4
    <2> QED
      BY <2>3, <2>5
  <1>4. Steps(After)
    <2> HIDE DEF Steps
    <2> QED
      BY <1>3
  <1>5. \A i \in 0..n : After[i] \in Seq(T)
    <2> DEFINE Bad == {i \in 0..n : After[i] \notin Seq(T)}
    <2> SUFFICES ASSUME Bad # {} PROVE FALSE
      OBVIOUS
    <2>1. PICK k \in Bad : \A m \in Bad : k <= m
      <3>1. Bad \in SUBSET Nat
        BY <1>1
      <3> HIDE DEF Bad
      <3> QED
        BY <3>1, LeastNumber
    <2>2. After[0] = buffer /\ \A i \in 1..n : After[i] = Next1(After[i - 1], i)
      <3> HIDE DEF After, Next1, n
      <3> QED
        BY <1>1, <1>4
    <2> HIDE DEF After, Next1, n
    <2>3. k \in 1..n /\ k - 1 \in 0..n /\ k - 1 \notin Bad
      BY <1>1, <2>1, <2>2
    <2> QED
      BY <1>2, <2>1, <2>2, <2>3
  <1>6. BufferWith(bytes) = After[n]
    BY DEF BufferWith
  <1> HIDE DEF After, n
  <1> QED
    BY <1>1, <1>5, <1>6

----------------------------------------------------------------------------
LEMMA FrameIsCounted ==
  FramePeriod \in Nat /\ \A i \in Nat : i % FramePeriod \in 0..FramePeriod - 1
                       /\ 0 \in 0..FramePeriod - 1
  BY AgentAssumption

LEMMA Initially == Init => IInv
  <1> SUFFICES ASSUME Init PROVE IInv
    OBVIOUS
  <1> USE ReaderAssumption, AgentAssumption DEF Init, ReaderInit
  <1>1. ReaderTypeOK
    <2>1. /\ buffer \in Seq(Bytes) /\ threads \in Seq(Threads) /\ backlog \in Seq(Connections)
          /\ Len(threads) = 0 /\ <<>> \in Seq(Bytes)
      BY EmptySeq
    <2>2. dataFd \in 0..MaxConnections /\ future \in 0..Len(threads)
      BY <2>1
    <2> QED
      BY <2>1, <2>2 DEF ReaderTypeOK
  <1>2. AgentTypeOK
    BY <1>1, FrameIsCounted DEF AgentTypeOK
  <1>3. OneSource /\ InboxesApart /\ BufferIsOfPlayer
    BY DEF OneSource, InboxesApart, BufferIsOfPlayer
  <1> QED
    BY <1>2, <1>3 DEF IInv

(* The connection to receive from, if there is one, was accepted on the    *)
(* socket of the reader.                                                   *)
LEMMA PolledIsAccepted ==
  ASSUME IInv
  PROVE  /\ Polled \in 0..MaxConnections
         /\ Polled # 0 => Polled \in Connections /\ socketFd \in Handles
         /\ dataFd # 0 => Polled = dataFd
  <1> USE ReaderAssumption
      DEF IInv, AgentTypeOK, ReaderTypeOK, OneSource, Polled, Connections
  <1>1. CASE dataFd # 0
    BY <1>1
  <1>2. CASE dataFd = 0 /\ future # 0
    <2>1. threads[future] \in Threads
      BY <1>2
    <2> QED
      BY <1>2, <2>1 DEF Threads
  <1>3. CASE dataFd = 0 /\ future = 0
    BY <1>3
  <1> QED
    BY <1>1, <1>2, <1>3

(* The socket is closed, and opened again or not.                          *)
LEMMA CloseStep ==
  ASSUME IInv, backlog' = <<>>, conn' = ConnAfterClose, Listen \/ ListenFails
  PROVE  /\ socketFd' \in Handles \union {NoFd}
         /\ threads' \in Seq(Threads) /\ future' \in 0..Len(threads')
         /\ listening' \in BOOLEAN /\ backlog' \in Seq(Connections)
         /\ conn' \in [Connections -> {"new", "open", "closed", "reset"}]
         /\ future' # 0 => /\ listening' /\ threads'[future'].fd = socketFd'
                           /\ threads'[future'].state # "done"
  <1> USE DEF IInv, AgentTypeOK, ReaderTypeOK
  <1>1. conn' \in [Connections -> {"new", "open", "closed", "reset"}]
    BY DEF ConnAfterClose
  <1>2. ThreadsAfterClose \in Seq(Threads) /\ Len(ThreadsAfterClose) = Len(threads)
    <2>1. \A t \in 1..Len(threads) : threads[t] \in Threads
      OBVIOUS
    <2>2. \A r \in Threads : [r EXCEPT !.state = "failed"] \in Threads
      BY DEF Threads
    <2>3. /\ ThreadsAfterClose \in [1..Len(threads) -> Threads]
          /\ Len(threads) \in Nat /\ ThreadsAfterClose = [t \in 1..Len(threads) |-> ThreadsAfterClose[t]]
      BY <2>1, <2>2 DEF ThreadsAfterClose
    <2> HIDE DEF ThreadsAfterClose
    <2>4. ThreadsAfterClose \in UNION {[1..n -> Threads] : n \in Nat}
      BY <2>3
    <2>5. ThreadsAfterClose \in Seq(Threads)
      BY <2>4, SeqDef, Zenon
    <2>6. Len(ThreadsAfterClose) = Len(threads)
      BY <2>3, <2>5, LenProperties
    <2> QED
      BY <2>5, <2>6
  <1>3. CASE Listen
    <2>1. PICK fd \in Handles :
            /\ socketFd' = fd
            /\ threads' = Append(ThreadsAfterClose,
                                 [fd |-> fd, state |-> "starting", conn |-> 0])
      BY <1>3 DEF Listen
    <2>2. [fd |-> fd, state |-> "starting", conn |-> 0] \in Threads
      BY ReaderAssumption DEF Threads
    <2>3. future' = Len(threads) + 1 /\ listening' = TRUE
      BY <1>3 DEF Listen
    <2> HIDE DEF ThreadsAfterClose
    <2>4. /\ threads' \in Seq(Threads) /\ Len(threads') = Len(threads) + 1
          /\ threads'[Len(threads) + 1] = [fd |-> fd, state |-> "starting", conn |-> 0]
      BY <1>2, <2>1, <2>2
    <2> QED
      BY <1>1, <2>1, <2>3, <2>4
  <1>4. CASE ListenFails
    <2>1. /\ socketFd' \in Handles \union {NoFd} /\ threads' = ThreadsAfterClose
          /\ future' = 0 /\ listening' = FALSE
      BY <1>4 DEF ListenFails
    <2>2. Len(threads') \in Nat /\ threads' \in Seq(Threads)
      BY <1>2, <2>1
    <2>3. backlog' \in Seq(Connections)
      BY EmptySeq
    <2>4. listening' \in BOOLEAN
      BY <2>1, Zenon
    <2>5. future' \in 0..Len(threads')
      BY <2>1, <2>2
    <2> QED
      BY <1>1, <2>1, <2>2, <2>3, <2>4, <2>5
  <1> QED
    BY <1>3, <1>4

----------------------------------------------------------------------------
(* The steps of the Server's calls. *)

LEMMA ReplaceStep ==
  ASSUME IInv, SetNeededMetadataTypes
  PROVE  IInv'
  <1> USE AgentAssumption, ReaderAssumption DEF IInv, IsCalled, SetNeededMetadataTypes
  <1>1. \E succeeds \in BOOLEAN : ReplaceReader(succeeds)
    OBVIOUS
  <1>2. /\ dataFd' = 0 /\ buffer' = <<>> /\ backlog' = <<>> /\ conn' = ConnAfterClose
        /\ UNCHANGED inbox /\ (Listen \/ ListenFails)
    BY <1>1 DEF ReplaceReader
  <1>3. ReaderTypeOK'
    BY <1>2, CloseStep DEF AgentTypeOK, ReaderTypeOK
  <1>4. AgentTypeOK'
    <2>1. readers' \in 0..MaxReaders /\ UNCHANGED <<pc, byte, frameIndex>>
      BY DEF AgentTypeOK
    <2>2. game' \in {"none", "ok", "lost", "win"} /\ fatal' \in {"no", "exit", "terminate"}
      BY DEF AgentTypeOK
    <2> QED
      BY <1>3, <2>1, <2>2 DEF AgentTypeOK
  <1>5. OneSource'
    BY <1>2, CloseStep DEF OneSource
  <1>6. InboxesApart' /\ BufferIsOfPlayer'
    BY <1>2 DEF InboxesApart, BufferIsOfPlayer
  <1> QED
    BY <1>4, <1>5, <1>6

(* getChar() takes the first byte of a buffer that is the player's, or     *)
(* finds it empty.                                                         *)
LEMMA TakeStep ==
  ASSUME NEW c \in Connections, NEW buf \in Seq(BytesFrom(c)), TakeFrom(buf, byte')
  PROVE  \/ byte' = NoKey /\ buffer' = <<>>
         \/ byte' \in BytesFrom(c) /\ buffer' \in Seq(BytesFrom(c)) /\ byte' # NoKey
  <1>1. CASE buf = <<>>
    BY <1>1 DEF TakeFrom
  <1>2. CASE buf # <<>>
    <2>1. byte' \in BytesFrom(c) /\ buffer' \in Seq(BytesFrom(c))
      BY <1>2 DEF TakeFrom
    <2>2. byte'.from # 0
      BY <2>1 DEF BytesFrom, Connections
    <2> QED
      BY <2>1, <2>2 DEF NoKey
  <1> QED
    BY <1>1, <1>2

LEMMA PollStep ==
  ASSUME IInv, PollKey
  PROVE  IInv'
  <1> USE AgentAssumption, ReaderAssumption DEF IInv, IsCalled
  <1>1. pc = "idle" /\ buffer = <<>> /\ byte = NoKey
    BY DEF PollKey, BufferIsOfPlayer
  <1>2. frameIndex' \in 0..FramePeriod - 1 /\ UNCHANGED <<game, readers, fatal>>
        /\ pc' = (IF byte' = NoKey THEN "vampires" ELSE "key")
    BY DEF PollKey, NextFrame, AgentTypeOK
  <1>3. CASE NobodyConnected(byte')
    <2>1. UNCHANGED <<readerVars, networkVars>> /\ byte' = NoKey
      BY <1>3 DEF NobodyConnected
    <2> QED
      BY <1>1, <1>2, <2>1
      DEF readerVars, networkVars, AgentTypeOK, ReaderTypeOK, OneSource, InboxesApart,
          BufferIsOfPlayer
  <1>4. CASE Receive(byte')
    <2>1. /\ Polled \in Connections /\ socketFd \in Handles /\ dataFd' = Polled
          /\ future' = 0 /\ inbox' = [inbox EXCEPT ![Polled] = <<>>]
          /\ UNCHANGED <<socketFd, threads, listening, backlog, conn>>
      BY <1>4, PolledIsAccepted DEF Receive
    <2>2. BufferWith(inbox[Polled]) \in Seq(BytesFrom(Polled))
      <3>1. inbox[Polled] \in Seq(BytesFrom(Polled)) /\ buffer \in Seq(BytesFrom(Polled))
        BY <1>1, <2>1 DEF InboxesApart
      <3> QED
        BY <3>1, BufferWithType
    <2>3. \/ byte' = NoKey /\ buffer' = <<>>
          \/ /\ byte' \in BytesFrom(Polled) /\ buffer' \in Seq(BytesFrom(Polled))
             /\ byte' # NoKey
      BY <1>4, <2>1, <2>2, TakeStep DEF Receive
    <2>4. InboxesApart'
      BY <2>1, EmptySeq DEF InboxesApart
    <2>5. OneSource'
      BY <2>1 DEF OneSource, Connections
    <2>6. BufferIsOfPlayer'
      BY <1>2, <2>1, <2>3 DEF BufferIsOfPlayer
    <2>7. byte' \in Bytes \union {NoKey} /\ buffer' \in Seq(Bytes)
      BY <2>3, EmptySeq, SeqMonotonic DEF BytesFrom
    <2>8. inbox' \in [Connections -> Seq(Bytes)]
      BY <2>1, EmptySeq DEF AgentTypeOK, ReaderTypeOK
    <2>9. ReaderTypeOK'
      BY <2>1, <2>7, <2>8 DEF AgentTypeOK, ReaderTypeOK, Connections
    <2>10. AgentTypeOK'
      BY <1>2, <2>7, <2>9 DEF AgentTypeOK
    <2> QED
      BY <2>4, <2>5, <2>6, <2>10
  <1>5. CASE Reopen(byte')
    <2>1. /\ Polled \in Connections /\ dataFd' = 0 /\ backlog' = <<>>
          /\ inbox' = [inbox EXCEPT ![Polled] = <<>>]
          /\ conn' = ConnAfterClose /\ (Listen \/ ListenFails)
          /\ byte' = NoKey /\ buffer' = <<>>
      BY <1>1, <1>5, PolledIsAccepted DEF Reopen, TakeFrom
    <2>2. InboxesApart'
      BY <2>1, EmptySeq DEF InboxesApart
    <2>3. OneSource'
      BY <2>1, CloseStep DEF OneSource
    <2>4. BufferIsOfPlayer'
      BY <1>2, <2>1 DEF BufferIsOfPlayer
    <2>5. byte' \in Bytes \union {NoKey} /\ buffer' \in Seq(Bytes)
      BY <2>1, EmptySeq
    <2>6. inbox' \in [Connections -> Seq(Bytes)]
      BY <2>1, EmptySeq DEF AgentTypeOK, ReaderTypeOK
    <2>7. ReaderTypeOK'
      BY <2>1, <2>5, <2>6, CloseStep DEF ReaderTypeOK
    <2>8. AgentTypeOK'
      BY <1>2, <2>5, <2>7 DEF AgentTypeOK
    <2> QED
      BY <2>2, <2>3, <2>4, <2>8
  <1>6. CASE ReceiveFails(byte')
    <2>1. /\ Polled \in Connections /\ socketFd \in Handles /\ dataFd' = Polled
          /\ future' = 0 /\ inbox' = [inbox EXCEPT ![Polled] = <<>>]
          /\ UNCHANGED <<socketFd, threads, listening, backlog, conn>>
          /\ byte' = NoKey /\ buffer' = <<>>
      BY <1>1, <1>6, PolledIsAccepted DEF ReceiveFails, TakeFrom
    <2>2. InboxesApart'
      BY <2>1, EmptySeq DEF InboxesApart
    <2>3. OneSource'
      BY <2>1 DEF OneSource, Connections
    <2>4. BufferIsOfPlayer'
      BY <1>2, <2>1 DEF BufferIsOfPlayer
    <2>5. byte' \in Bytes \union {NoKey} /\ buffer' \in Seq(Bytes)
      BY <2>1, EmptySeq
    <2>6. inbox' \in [Connections -> Seq(Bytes)]
      BY <2>1, EmptySeq DEF AgentTypeOK, ReaderTypeOK
    <2>7. ReaderTypeOK'
      BY <2>1, <2>5, <2>6 DEF AgentTypeOK, ReaderTypeOK, Connections
    <2>8. AgentTypeOK'
      BY <1>2, <2>5, <2>7 DEF AgentTypeOK
    <2> QED
      BY <2>2, <2>3, <2>4, <2>8
  <1> QED
    BY <1>3, <1>4, <1>5, <1>6 DEF PollKey, GetChar

LEMMA FrameStep ==
  ASSUME IInv, Frame
  PROVE  IInv'
  <1> USE AgentAssumption
      DEF IInv, IsCalled, readerVars, networkVars, AgentTypeOK, ReaderTypeOK, OneSource,
          InboxesApart, BufferIsOfPlayer
  <1>1. CASE RefuseFrame
    BY <1>1 DEF RefuseFrame, NextFrame
  <1>2. CASE PollKey
    BY <1>2, PollStep
  <1>3. CASE PollThrows
    BY <1>3 DEF PollThrows, NextFrame
  <1>4. CASE ActOnKey
    BY <1>4 DEF ActOnKey, Clear
  <1>5. CASE StartOver
    BY <1>5 DEF StartOver
  <1>6. CASE MoveVampires
    BY <1>6 DEF MoveVampires
  <1>7. CASE PullMetadataPackets
    BY <1>7 DEF PullMetadataPackets
  <1> QED
    BY <1>1, <1>2, <1>3, <1>4, <1>5, <1>6, <1>7 DEF Frame

(* The players, the network and the threads touch neither the reader nor   *)
(* the call of the Server, and a thread that accepts has a connection.     *)
LEMMA NetworkStep ==
  ASSUME IInv, Network, UNCHANGED agentVars
  PROVE  IInv'
  <1> USE ReaderAssumption DEF IInv
  <1>1. AgentTypeOK' /\ OneSource' /\ InboxesApart'
        /\ UNCHANGED readerVars
    <2>1. CASE \E c \in Connections : Connect(c) \/ Disconnect(c) \/ Abort(c)
      <3>1. /\ UNCHANGED <<readerVars, threads, listening, inbox>>
            /\ backlog' \in Seq(Connections)
            /\ conn' \in [Connections -> {"new", "open", "closed", "reset"}]
        <4>1. PICK c \in Connections : Connect(c) \/ Disconnect(c) \/ Abort(c)
          BY <2>1
        <4>2. CASE Connect(c)
          <5>1. Append(backlog, c) \in Seq(Connections)
            BY AppendProperties DEF AgentTypeOK, ReaderTypeOK
          <5> QED
            BY <4>2, <5>1 DEF Connect, AgentTypeOK, ReaderTypeOK
        <4>3. CASE Disconnect(c) \/ Abort(c)
          BY <4>3 DEF Disconnect, Abort, AgentTypeOK, ReaderTypeOK
        <4> QED
          BY <4>1, <4>2, <4>3
      <3> QED
        BY <3>1
        DEF agentVars, readerVars, AgentTypeOK, ReaderTypeOK, OneSource, InboxesApart
    <2>2. CASE \E c \in Connections, k \in Keys : PressKey(c, k)
      <3>1. PICK c \in Connections, k \in Keys : PressKey(c, k)
        BY <2>2
      <3> DEFINE b == [key |-> k, from |-> c]
      <3>2. b \in BytesFrom(c) /\ b \in Bytes
        BY DEF BytesFrom, Bytes
      <3>3. /\ inbox' = [inbox EXCEPT ![c] = Append(inbox[c], b)]
            /\ UNCHANGED <<readerVars, threads, listening, backlog, conn>>
        BY <3>1 DEF PressKey
      <3>4. Append(inbox[c], b) \in Seq(BytesFrom(c)) /\ Append(inbox[c], b) \in Seq(Bytes)
        BY <3>2, AppendProperties DEF AgentTypeOK, ReaderTypeOK, InboxesApart
      <3> HIDE DEF b
      <3> QED
        BY <3>3, <3>4
        DEF agentVars, readerVars, AgentTypeOK, ReaderTypeOK, OneSource, InboxesApart
    <2>3. CASE \E t \in DOMAIN threads : EnterAccept(t) \/ Accept(t) \/ AcceptFails(t)
      <3>1. PICK t \in DOMAIN threads : EnterAccept(t) \/ Accept(t) \/ AcceptFails(t)
        BY <2>3
      <3>2. /\ t \in 1..Len(threads) /\ threads[t] \in Threads
            /\ UNCHANGED <<readerVars, listening, conn, inbox>>
        BY <3>1, LenProperties, ElementOfSeq
        DEF EnterAccept, Accept, AcceptFails, AgentTypeOK, ReaderTypeOK
      <3>3. PICK r \in Threads :
              /\ threads' = [threads EXCEPT ![t] = r]
              /\ r.fd = threads[t].fd /\ (r.state = "done" => r.conn # 0)
        <4>1. ASSUME NEW s \in {"accepting", "failed"}
              PROVE  [threads[t] EXCEPT !.state = s] \in Threads
          BY <3>2 DEF Threads
        <4>2. CASE EnterAccept(t)
          <5>1. PICK s \in {"accepting", "failed"} : threads' = [threads EXCEPT ![t].state = s]
            BY <4>2 DEF EnterAccept
          <5> QED
            BY <3>2, <4>1, <5>1 DEF Threads
        <4>3. CASE AcceptFails(t)
          BY <3>2, <4>1, <4>3 DEF AcceptFails, Threads
        <4>4. CASE Accept(t)
          <5>1. Head(backlog) \in Connections
            BY <4>4, HeadTailProperties DEF Accept, AgentTypeOK, ReaderTypeOK
          <5> DEFINE r == [threads[t] EXCEPT !.state = "done", !.conn = Head(backlog)]
          <5>2. r \in Threads /\ r.fd = threads[t].fd /\ r.conn # 0
            <6>1. [threads[t] EXCEPT !.state = "done"] \in Threads
              BY <3>2 DEF Threads
            <6>2. Head(backlog) \in 0..MaxConnections /\ Head(backlog) # 0
              BY <5>1 DEF Connections
            <6>3. r = [[threads[t] EXCEPT !.state = "done"] EXCEPT !.conn = Head(backlog)]
              OBVIOUS
            <6> QED
              BY <3>2, <6>1, <6>2, <6>3 DEF Threads
          <5>3. threads' = [threads EXCEPT ![t] = r]
            BY <3>2, <4>4 DEF Accept, Threads
          <5> QED
            BY <5>2, <5>3
        <4> QED
          BY <3>1, <4>2, <4>3, <4>4
      <3>4. /\ threads' \in Seq(Threads) /\ Len(threads') = Len(threads)
            /\ \A j \in 1..Len(threads) : threads'[j] = IF j = t THEN r ELSE threads[j]
        BY <3>2, <3>3, ExceptSeq DEF AgentTypeOK, ReaderTypeOK
      <3>5. backlog' \in Seq(Connections)
        <4>1. backlog # <<>> => Tail(backlog) \in Seq(Connections)
          BY HeadTailProperties DEF AgentTypeOK, ReaderTypeOK
        <4>2. backlog' = backlog \/ (backlog # <<>> /\ backlog' = Tail(backlog))
          BY <3>1 DEF EnterAccept, Accept, AcceptFails
        <4> QED
          BY <4>1, <4>2 DEF AgentTypeOK, ReaderTypeOK
      <3>6. AgentTypeOK'
        BY <3>2, <3>4, <3>5 DEF agentVars, readerVars, AgentTypeOK, ReaderTypeOK
      <3>7. OneSource'
        <4>1. future # 0 => future \in 1..Len(threads)
          BY LenProperties DEF AgentTypeOK, ReaderTypeOK
        <4> QED
          BY <3>2, <3>3, <3>4, <4>1 DEF readerVars, OneSource
      <3> QED
        BY <3>2, <3>6, <3>7 DEF InboxesApart
    <2> QED
      BY <2>1, <2>2, <2>3 DEF Network
  <1>2. BufferIsOfPlayer'
    BY <1>1 DEF agentVars, readerVars, BufferIsOfPlayer
  <1> QED
    BY <1>1, <1>2

----------------------------------------------------------------------------

(* The inductive invariant of the Device Agent holds in all states.        *)
THEOREM AgentInvariance == Spec => []IInv
  <1>1. IInv /\ [Next]_vars => IInv'
    <2> SUFFICES ASSUME IInv, [Next]_vars PROVE IInv'
      OBVIOUS
    <2>1. CASE UNCHANGED vars
      BY <2>1
      DEF vars, readerVars, networkVars, agentVars, IInv, AgentTypeOK, ReaderTypeOK,
          OneSource, InboxesApart, BufferIsOfPlayer
    <2>2. CASE Next
      BY <2>2, ReplaceStep, FrameStep, NetworkStep DEF Next
    <2> QED
      BY <2>1, <2>2
  <1> QED
    BY <1>1, Initially, PTL DEF Spec

(* The members of both classes, the call's local variables and what the    *)
(* operating system keeps stay in their types.                             *)
THEOREM AgentIsTyped == Spec => []AgentTypeOK
  <1>1. IInv => AgentTypeOK
    BY DEF IInv
  <1> QED
    BY <1>1, AgentInvariance, PTL

(* What startListening() asserts: the reader never has a connection and a  *)
(* future at once, and the thread it waits for accepts on its own socket.  *)
THEOREM ReaderHasOneSource == Spec => []OneSource
  <1>1. IInv => OneSource
    BY DEF IInv
  <1> QED
    BY <1>1, AgentInvariance, PTL

(* The keystroke that pushCompressedVideoFrame() acts on was pressed by    *)
(* the player who is connected, not by a former one.                       *)
THEOREM KeysAreOfPlayer == Spec => []NoKeyOutlivesItsConnection
  <1>1. IInv => NoKeyOutlivesItsConnection
    BY DEF IInv, BufferIsOfPlayer, BytesFrom, NoKeyOutlivesItsConnection
  <1> QED
    BY <1>1, AgentInvariance, PTL

(* getChar() leaves a connection only when the player has disconnected,    *)
(* and takes up no other one in the same call.                             *)
THEOREM PlayersTakeTurns == Spec => ServedUntilGone
  <1> DEFINE Turn == (dataFd # 0 /\ dataFd' # dataFd /\ readers' = readers)
                        => (conn[dataFd] = "closed" /\ dataFd' = 0)
  <1>1. IInv /\ [Next]_vars => [Turn]_vars
    <2> SUFFICES ASSUME IInv, Next, dataFd # 0, dataFd' # dataFd, readers' = readers
                 PROVE  conn[dataFd] = "closed" /\ dataFd' = 0
      OBVIOUS
    <2>1. ~SetNeededMetadataTypes
      <3>1. readers \in Int
        BY AgentAssumption DEF IInv, AgentTypeOK
      <3>2. SetNeededMetadataTypes => readers' = readers + 1
        BY DEF SetNeededMetadataTypes
      <3> QED
        BY <3>1, <3>2
    <2>2. ~Network
      BY DEF Network, Connect, PressKey, Disconnect, Abort, EnterAccept, Accept,
             AcceptFails, readerVars
    <2>3. CASE PollKey
      <3>1. Polled = dataFd
        BY PolledIsAccepted
      <3> QED
        BY <2>3, <3>1
        DEF PollKey, GetChar, NobodyConnected, Receive, Reopen, ReceiveFails, readerVars
    <2>4. CASE Frame /\ ~PollKey
      BY <2>4
      DEF Frame, RefuseFrame, PollThrows, ActOnKey, Clear, StartOver, MoveVampires,
          PullMetadataPackets, readerVars
    <2> QED
      BY <2>1, <2>2, <2>3, <2>4 DEF Next
  <1> QED
    BY <1>1, AgentInvariance, PTL DEF Spec, ServedUntilGone

=============================================================================
