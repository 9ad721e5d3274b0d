---------------------------- MODULE HttpRequests ----------------------------
(***************************************************************************)
(* The stub plugin's http_requests/device_agent.cpp: from time to time a   *)
(* frame sends a request through the Server and waits for the answer, on a *)
(* promise that belongs to the handler of the request.  A thread of the    *)
(* Server answers, at any time.                                            *)
(*                                                                         *)
(* The calls of the Server to the Device Agent do not overlap.  The Server *)
(* keeps a reference to the handler until it has executed it, and gives a  *)
(* reference to the text of the answer away with it, as the rules of the   *)
(* SDK are (i_ref_countable.h).                                            *)
(***************************************************************************)
EXTENDS Integers, Sequences

CONSTANTS
  RequestTimes,     (* Timestamps of frames; they may go back.             *)
  RequestPeriods,   (* Values of "HTTP request time period".               *)
  DefaultPeriod,    (* Of m_requestContext.                                *)
  MaxRequests       (* Bound: the requests ever sent.                      *)

ASSUME RequestAssumption ==
  /\ RequestTimes \subseteq Nat /\ RequestPeriods \subseteq Nat \ {0}
  /\ DefaultPeriod \in Nat \ {0} /\ MaxRequests \in Nat

VARIABLES
  frameTime,      (* m_lastFrameTimestampUs                                *)
  eventTime,      (* m_lastEventTimestampUs                                *)
  requestPeriod,  (* m_requestContext.periodSeconds                        *)
  isInFrame,      (* Whether pushCompressedVideoFrame() waits for its      *)
                  (* request, the last one.                                *)
  requests,       (* Their handlers and what the Server does with them.    *)
  httpEvents      (* The events that were pushed.                          *)

httpVars == <<frameTime, eventTime, requestPeriod, isInFrame, requests, httpEvents>>

(* Result<IString*>: an error may have a message, and a success a value.   *)
NoResult == [isOk |-> FALSE, hasText |-> FALSE, isSet |-> FALSE]
HttpResults == [isOk : BOOLEAN, hasText : BOOLEAN, isSet : {TRUE}]

HttpInit ==
  /\ frameTime = 0 /\ eventTime = 0 /\ requestPeriod = DefaultPeriod
  /\ isInFrame = FALSE /\ requests = <<>> /\ httpEvents = <<>>

(* settingsReceived()                                                      *)
ReceivePeriod(period) ==
  /\ ~isInFrame /\ period # requestPeriod
  /\ requestPeriod' = period
  /\ UNCHANGED <<frameTime, eventTime, isInFrame, requests, httpEvents>>

(* A frame that comes too early.                                           *)
PassFrame(time) ==
  /\ ~isInFrame /\ time < eventTime + requestPeriod
  /\ frameTime' = time
  /\ UNCHANGED <<eventTime, requestPeriod, isInFrame, requests, httpEvents>>

(* A frame that sends a request.  The handler has two references then:     *)
(* that of the frame, which is left when the one for the argument has been *)
(* released, and that of the Server, which is assumed to have taken it, as *)
(* RefCounting has it for a pointer that is given and kept.                *)
SendHttpRequest(time) ==
  /\ ~isInFrame /\ time >= eventTime + requestPeriod
  /\ Len(requests) < MaxRequests
  /\ frameTime' = time /\ eventTime' = time
  /\ requests' = Append(requests, [sentAt |-> time, server |-> "requests", refs |-> 2,
                                   promise |-> NoResult, textRefs |-> 0])
  /\ isInFrame' = TRUE
  /\ UNCHANGED <<requestPeriod, httpEvents>>

(* The Server calls execute(), which fulfils the promise.                  *)
Execute(i, result) ==
  /\ requests[i].server = "requests"
  /\ requests' = [requests EXCEPT ![i].server = "executes", ![i].promise = result,
                                  ![i].textRefs = IF result.hasText THEN 1 ELSE 0]
  /\ UNCHANGED <<frameTime, eventTime, requestPeriod, isInFrame, httpEvents>>

(* execute() returns, and the Server releases the handler.                 *)
EndExecute(i) ==
  /\ requests[i].server = "executes"
  /\ requests' = [requests EXCEPT ![i].server = "done", ![i].refs = @ - 1]
  /\ UNCHANGED <<frameTime, eventTime, requestPeriod, isInFrame, httpEvents>>

(* fillMetadata(): what is said in the event of the answer, and whether    *)
(* its text is released.  A mutant, `FillAndKeepErrors`, forgets the text  *)
(* of an error.                                                            *)
FillAndKeepErrors(result) ==
  [caption |-> IF ~result.isOk THEN "Request error"
               ELSE IF result.hasText THEN "HTTP response"
               ELSE "Request response is not filled",
   isTextReleased |-> result.isOk /\ result.hasText]

FillMetadata(result) ==
  [caption |-> IF ~result.isOk THEN "Request error"
               ELSE IF result.hasText THEN "HTTP response"
               ELSE "Request response is not filled",
   isTextReleased |-> result.hasText]

(* The frame goes on when the promise is fulfilled, pushes the event and   *)
(* returns, which releases the handler.                                    *)
FinishFrame ==
  LET i == Len(requests)
      metadata == FillMetadata(requests[i].promise)
  IN /\ isInFrame /\ requests[i].promise.isSet
     /\ httpEvents' = Append(httpEvents, [timestamp |-> frameTime, caption |-> metadata.caption])
     /\ requests' = [requests EXCEPT
          ![i].refs = @ - 1,
          ![i].textRefs = IF metadata.isTextReleased THEN @ - 1 ELSE @]
     /\ isInFrame' = FALSE
     /\ UNCHANGED <<frameTime, eventTime, requestPeriod>>

HttpNext ==
  \/ \E period \in RequestPeriods : ReceivePeriod(period)
  \/ \E time \in RequestTimes : PassFrame(time) \/ SendHttpRequest(time)
  \/ \E i \in DOMAIN requests :
       EndExecute(i) \/ \E result \in HttpResults : Execute(i, result)
  \/ FinishFrame

HttpSpec == HttpInit /\ [][HttpNext]_httpVars

----------------------------------------------------------------------------
(* Neither thread is in a handler that the other has deleted: the promise  *)
(* is fulfilled while its waiter may go on at once and return.             *)
NoHandlerDiesInUse ==
  \A i \in DOMAIN requests :
    requests[i].server # "done" \/ (isInFrame /\ i = Len(requests)) => requests[i].refs > 0

(* Every request is answered by one event, of its own time and of its own  *)
(* answer, and in the end nothing of it is left, whichever thread ends     *)
(* last.                                                                   *)
RequestsAreAnswered ==
  /\ NoHandlerDiesInUse
  /\ ~isInFrame =>
       /\ Len(httpEvents) = Len(requests)
       /\ \A i \in DOMAIN requests :
            /\ httpEvents[i].timestamp = requests[i].sentAt
            /\ (httpEvents[i].caption = "HTTP response") <=>
                 requests[i].promise.isOk /\ requests[i].promise.hasText
            /\ requests[i].textRefs = 0
            /\ requests[i].server = "done" => requests[i].refs = 0

=============================================================================
