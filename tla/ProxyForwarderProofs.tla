------------------------- MODULE ProxyForwarderProofs -------------------------
(***************************************************************************)
(* The safety properties of ProxyForwarder for any number of calls and     *)
(* responses.  The invariant adds that a registered call expects its       *)
(* answer, so that whatever ends the call unregisters it, and that no more *)
(* responses are under way than were sent.  AnswerInv follows an answer    *)
(* from the client to the call, up to the end of the stream, and every     *)
(* step becomes one of CallbackContract or none.                           *)
(***************************************************************************)
EXTENDS ProxyForwarder, TLAPS

(* A registered call, or one about to register, expects its answer.        *)
PendingExpects == \A c \in Calls : c \in pending \/ thread[c] = "register" => expects[c]

(* What is under way was sent.                                             *)
InboundSent == \A c \in Calls : inbound[c] <= responses[c]

IInv ==
  /\ TypeOK /\ NoSendOnClosed /\ PendingIsLive /\ HandlesAreOwned
  /\ PendingExpects /\ InboundSent

-----------------------------------------------------------------------------
LEMMA Initially == Init => IInv
BY ProxyAssumption DEF Init, IInv, TypeOK, NoSendOnClosed, PendingIsLive,
   HandlesAreOwned, PendingExpects, InboundSent

(* A calling thread.                                                       *)
LEMMA InvokeKeeps ==
  ASSUME IInv, NEW c \in Calls, Invoke(c), UNCHANGED interface
  PROVE  IInv'
<1> USE ProxyAssumption DEF Invoke, At, client
<1>1. TypeOK'
  BY DEF IInv, TypeOK
<1>2. NoSendOnClosed'
  BY DEF IInv, NoSendOnClosed
<1>3. PendingIsLive'
  BY DEF IInv, PendingIsLive
<1>4. HandlesAreOwned'
  BY DEF IInv, TypeOK, HandlesAreOwned
<1>5. PendingExpects'
  BY DEF IInv, TypeOK, PendingExpects, PendingIsLive
<1>6. InboundSent'
  BY DEF IInv, InboundSent
<1>7. QED
  BY <1>1, <1>2, <1>3, <1>4, <1>5, <1>6 DEF IInv

LEMMA RegisterPendingKeeps ==
  ASSUME IInv, NEW c \in Calls, RegisterPending(c), UNCHANGED interface
  PROVE  IInv'
<1> USE ProxyAssumption DEF RegisterPending, At, PendingMuFree, client
<1>1. TypeOK'
  BY DEF IInv, TypeOK
<1>2. NoSendOnClosed'
  BY DEF IInv, TypeOK, NoSendOnClosed
<1>3. PendingIsLive'
  BY DEF IInv, TypeOK, PendingIsLive
<1>4. HandlesAreOwned'
  BY DEF IInv, HandlesAreOwned
<1>5. PendingExpects'
  BY DEF IInv, PendingExpects
<1>6. InboundSent'
  BY DEF IInv, InboundSent
<1>7. QED
  BY <1>1, <1>2, <1>3, <1>4, <1>5, <1>6 DEF IInv

LEMMA LockSendKeeps ==
  ASSUME IInv, NEW c \in Calls, LockSend(c), UNCHANGED interface
  PROVE  IInv'
<1> USE ProxyAssumption DEF LockSend, At, SendMuFree, client
<1>1. TypeOK'
  BY DEF IInv, TypeOK
<1>2. NoSendOnClosed'
  BY DEF IInv, NoSendOnClosed
<1>3. PendingIsLive'
  BY DEF IInv, PendingIsLive
<1>4. HandlesAreOwned'
  BY DEF IInv, HandlesAreOwned
<1>5. PendingExpects'
  BY DEF IInv, PendingExpects
<1>6. InboundSent'
  BY DEF IInv, InboundSent
<1>7. QED
  BY <1>1, <1>2, <1>3, <1>4, <1>5, <1>6 DEF IInv

LEMMA SendSucceedsKeeps ==
  ASSUME IInv, NEW c \in Calls, SendSucceeds(c), UNCHANGED interface
  PROVE  IInv'
<1> USE ProxyAssumption DEF SendSucceeds, At, client
<1>1. TypeOK'
  BY DEF IInv, TypeOK
<1>2. NoSendOnClosed'
  BY DEF IInv, NoSendOnClosed
<1>3. PendingIsLive'
  BY DEF IInv, PendingExpects, PendingIsLive
<1>4. HandlesAreOwned'
  BY DEF IInv, HandlesAreOwned
<1>5. PendingExpects'
  BY DEF IInv, PendingExpects
<1>6. InboundSent'
  BY DEF IInv, InboundSent
<1>7. QED
  BY <1>1, <1>2, <1>3, <1>4, <1>5, <1>6 DEF IInv

LEMMA SendFailsKeeps ==
  ASSUME IInv, NEW c \in Calls, SendFails(c), UNCHANGED interface
  PROVE  IInv'
<1> USE ProxyAssumption DEF SendFails, At, ReleaseArgHandles, client
<1>1. TypeOK'
  BY DEF IInv, TypeOK
<1>2. NoSendOnClosed'
  BY DEF IInv, NoSendOnClosed
<1>3. PendingIsLive'
  BY DEF IInv, PendingExpects, PendingIsLive
<1>4. HandlesAreOwned'
  BY DEF IInv, HandlesAreOwned
<1>5. PendingExpects'
  BY DEF IInv, PendingExpects
<1>6. InboundSent'
  BY DEF IInv, InboundSent
<1>7. QED
  BY <1>1, <1>2, <1>3, <1>4, <1>5, <1>6 DEF IInv

LEMMA AwaitResponseKeeps ==
  ASSUME IInv, NEW c \in Calls, AwaitResponse(c), UNCHANGED interface
  PROVE  IInv'
<1> USE ProxyAssumption DEF AwaitResponse, At, Answered, client
<1>1. TypeOK'
  BY DEF IInv, TypeOK
<1>2. NoSendOnClosed'
  BY DEF IInv, NoSendOnClosed
<1>3. PendingIsLive'
  BY DEF IInv, PendingIsLive
<1>4. HandlesAreOwned'
  BY DEF IInv, HandlesAreOwned
<1>5. PendingExpects'
  BY DEF IInv, PendingExpects
<1>6. InboundSent'
  BY DEF IInv, InboundSent
<1>7. QED
  BY <1>1, <1>2, <1>3, <1>4, <1>5, <1>6 DEF IInv

LEMMA UnregisterPendingKeeps ==
  ASSUME IInv, NEW c \in Calls, UnregisterPending(c), UNCHANGED interface
  PROVE  IInv'
<1> USE ProxyAssumption DEF UnregisterPending, At, PendingMuFree, Forget, client
<1>1. TypeOK'
  BY DEF IInv, TypeOK
<1>2. NoSendOnClosed'
  BY DEF IInv, NoSendOnClosed
<1>3. PendingIsLive'
  BY DEF IInv, PendingIsLive
<1>4. HandlesAreOwned'
  BY DEF IInv, HandlesAreOwned
<1>5. PendingExpects'
  BY DEF IInv, PendingExpects
<1>6. InboundSent'
  BY DEF IInv, InboundSent
<1>7. QED
  BY <1>1, <1>2, <1>3, <1>4, <1>5, <1>6 DEF IInv

(* The handler.                                                            *)
LEMMA ReceiveResponseKeeps ==
  ASSUME IInv, NEW c \in Calls, ReceiveResponse(c), UNCHANGED interface
  PROVE  IInv'
<1> USE ProxyAssumption DEF ReceiveResponse, client
<1>1. TypeOK'
  BY DEF IInv, TypeOK
<1>2. NoSendOnClosed'
  BY DEF IInv, TypeOK, NoSendOnClosed
<1>3. PendingIsLive'
  BY DEF IInv, PendingIsLive
<1>4. HandlesAreOwned'
  BY DEF IInv, HandlesAreOwned
<1>5. PendingExpects'
  BY DEF IInv, PendingExpects
<1>6. InboundSent'
  BY DEF IInv, TypeOK, InboundSent
<1>7. QED
  BY <1>1, <1>2, <1>3, <1>4, <1>5, <1>6 DEF IInv

LEMMA DeliverBlockedKeeps ==
  ASSUME IInv, DeliverBlocked, UNCHANGED interface
  PROVE  IInv'
<1> USE ProxyAssumption DEF DeliverBlocked, client
<1>1. TypeOK'
  BY DEF IInv, TypeOK
<1>2. NoSendOnClosed'
  BY DEF IInv, NoSendOnClosed
<1>3. PendingIsLive'
  BY DEF IInv, PendingIsLive
<1>4. HandlesAreOwned'
  BY DEF IInv, HandlesAreOwned
<1>5. PendingExpects'
  BY DEF IInv, PendingExpects
<1>6. InboundSent'
  BY DEF IInv, InboundSent
<1>7. QED
  BY <1>1, <1>2, <1>3, <1>4, <1>5, <1>6 DEF IInv

LEMMA ClosePendingKeeps ==
  ASSUME IInv, ClosePending, UNCHANGED interface
  PROVE  IInv'
<1> USE ProxyAssumption DEF ClosePending, ChannelsClosed, client
<1>1. TypeOK'
  BY DEF IInv, TypeOK
<1>2. NoSendOnClosed'
  BY DEF NoSendOnClosed
<1>3. PendingIsLive'
  BY DEF PendingIsLive
<1>4. HandlesAreOwned'
  BY DEF IInv, HandlesAreOwned
<1>5. PendingExpects'
  BY DEF IInv, PendingExpects
<1>6. InboundSent'
  BY DEF IInv, InboundSent
<1>7. QED
  BY <1>1, <1>2, <1>3, <1>4, <1>5, <1>6 DEF IInv

(* The other steps of the handler move it and nothing else.                *)
HandlerMoves ==
  \/ OpeningFails
  \/ CreateProxy
  \/ ConstructAdapter
  \/ LockAnnounce
  \/ Announce
  \/ StreamEnds
  \/ CloseDetector
  \/ HandlerReturns

LEMMA HandlerMovesKeeps ==
  ASSUME IInv, HandlerMoves, UNCHANGED interface
  PROVE  IInv'
<1>1. /\ UNCHANGED <<delivering, stream, thread, expects, result, pending, channel, sender,
                    client, argHandles>>
      /\ handler' # "blocked"
      /\ handler' \in {"constructing", "created", "announcing", "receiving",
                      "draining", "detectorClosed", "returned"}
  <2>1. CASE OpeningFails
    BY <2>1 DEF OpeningFails
  <2>2. CASE CreateProxy
    BY <2>2 DEF CreateProxy
  <2>3. CASE ConstructAdapter
    BY <2>3 DEF ConstructAdapter
  <2>4. CASE LockAnnounce
    BY <2>4 DEF LockAnnounce
  <2>5. CASE Announce
    BY <2>5 DEF Announce
  <2>6. CASE StreamEnds
    BY <2>6 DEF StreamEnds
  <2>7. CASE CloseDetector
    BY <2>7 DEF CloseDetector
  <2>8. CASE HandlerReturns
    BY <2>8 DEF HandlerReturns
  <2>9. QED
    BY <2>1, <2>2, <2>3, <2>4, <2>5, <2>6, <2>7, <2>8 DEF HandlerMoves
<1>2. QED
  BY <1>1 DEF IInv, TypeOK, NoSendOnClosed, PendingIsLive, HandlesAreOwned,
     PendingExpects, InboundSent, client

(* The client.                                                             *)
LEMMA RespondKeeps ==
  ASSUME IInv, NEW c \in Calls, Respond(c), UNCHANGED interface
  PROVE  IInv'
<1> USE ProxyAssumption DEF Respond, client
<1>1. TypeOK'
  BY DEF IInv, TypeOK, InboundSent
<1>2. NoSendOnClosed'
  BY DEF IInv, NoSendOnClosed
<1>3. PendingIsLive'
  BY DEF IInv, PendingIsLive
<1>4. HandlesAreOwned'
  BY DEF IInv, HandlesAreOwned
<1>5. PendingExpects'
  BY DEF IInv, PendingExpects
<1>6. InboundSent'
  BY DEF IInv, TypeOK, InboundSent
<1>7. QED
  BY <1>1, <1>2, <1>3, <1>4, <1>5, <1>6 DEF IInv

LEMMA ReleaseHandleKeeps ==
  ASSUME IInv, NEW c \in Calls, ReleaseHandle(c), UNCHANGED interface
  PROVE  IInv'
<1> USE ProxyAssumption DEF ReleaseHandle, client
<1>1. TypeOK'
  BY DEF IInv, TypeOK
<1>2. NoSendOnClosed'
  BY DEF IInv, NoSendOnClosed
<1>3. PendingIsLive'
  BY DEF IInv, PendingIsLive
<1>4. HandlesAreOwned'
  BY DEF IInv, HandlesAreOwned
<1>5. PendingExpects'
  BY DEF IInv, PendingExpects
<1>6. InboundSent'
  BY DEF IInv, InboundSent
<1>7. QED
  BY <1>1, <1>2, <1>3, <1>4, <1>5, <1>6 DEF IInv

LEMMA EndStreamKeeps ==
  ASSUME IInv, EndStream, UNCHANGED interface
  PROVE  IInv'
<1> USE ProxyAssumption DEF EndStream, client
<1>1. TypeOK'
  BY DEF IInv, TypeOK
<1>2. NoSendOnClosed'
  BY DEF IInv, NoSendOnClosed
<1>3. PendingIsLive'
  BY DEF IInv, PendingIsLive
<1>4. HandlesAreOwned'
  BY DEF IInv, HandlesAreOwned
<1>5. PendingExpects'
  BY DEF IInv, PendingExpects
<1>6. InboundSent'
  BY DEF IInv, InboundSent
<1>7. QED
  BY <1>1, <1>2, <1>3, <1>4, <1>5, <1>6 DEF IInv

-----------------------------------------------------------------------------
LEMMA StepKeeps ==
  ASSUME IInv, [Next]_vars
  PROVE  IInv'
<1>1. CASE UNCHANGED vars
  BY <1>1 DEF IInv, TypeOK, NoSendOnClosed, PendingIsLive, HandlesAreOwned,
     PendingExpects, InboundSent, vars, client
<1>2. ASSUME NEW c \in Calls, Invoke(c) \/ ThreadStep(c), UNCHANGED interface
      PROVE  IInv'
  BY <1>2, InvokeKeeps, RegisterPendingKeeps, LockSendKeeps, SendSucceedsKeeps,
     SendFailsKeeps, AwaitResponseKeeps, UnregisterPendingKeeps DEF ThreadStep
<1>3. ASSUME HandlerStep
      PROVE  IInv'
  BY <1>3, ReceiveResponseKeeps, DeliverBlockedKeeps, ClosePendingKeeps,
     HandlerMovesKeeps DEF HandlerStep, HandlerMoves
<1>4. ASSUME ClientStep, UNCHANGED interface
      PROVE  IInv'
  BY <1>4, RespondKeeps, ReleaseHandleKeeps, EndStreamKeeps DEF ClientStep
<1>5. QED
  BY <1>1, <1>2, <1>3, <1>4 DEF Next

(* The invariant above holds of every behaviour.                           *)
THEOREM Inductive == Spec => []IInv
<1>1. Init => IInv
  BY Initially
<1>2. IInv /\ [Next]_vars => IInv'
  BY StepKeeps
<1>3. QED
  BY <1>1, <1>2, PTL DEF Spec

(* Every variable keeps its type, and sendMu's holder is who is sending.   *)
THEOREM TypeCorrect == Spec => []TypeOK
<1>1. IInv => TypeOK
  BY DEF IInv
<1>2. QED
  BY <1>1, Inductive, PTL

(* A response never reaches a closed channel, whatever ends when.          *)
THEOREM NoSendOnClosedHolds == Spec => []NoSendOnClosed
<1>1. IInv => NoSendOnClosed
  BY DEF IInv
<1>2. QED
  BY <1>1, Inductive, PTL

(* Neither an entry of pending nor an argument handle outlives its call.   *)
THEOREM NothingLeaksHolds == Spec => []NothingLeaks
<1>1. IInv => NothingLeaks
  BY DEF IInv, NothingLeaks
<1>2. QED
  BY <1>1, Inductive, PTL

-----------------------------------------------------------------------------
(* Answers.  What CallbackContract promises rests on the end of the stream *)
(* coming after the last response.                                         *)

Over == handler \in {"drained", "detectorClosed", "returned"}

(* No response is under way and none will be, or the client has cancelled. *)
NoMore == stream = "cancelled" \/ (stream = "halfClosed" /\ \A c \in Calls : inbound[c] = 0)

(* The receive loop has ended after the last response, or the handler      *)
(* returned before a call could ask anything.                              *)
EndIsLast ==
  /\ handler \in {"draining", "drained", "detectorClosed"} => NoMore
  /\ handler = "returned" => NoMore \/ \A c \in Calls : ~expects[c]
  /\ handler = "opening" => \A c \in Calls : ~expects[c]
  /\ handler = "constructing" => ~interface
  /\ \A c \in Calls : expects[c] => interface

(* Who has been asked, and who has answered.                               *)
AskedFirst ==
  \A c \in Calls :
    /\ c \in events => thread[c] \in {"await", "unregister", "done"}
    /\ responses[c] > 0 => c \in events /\ expects[c]
    /\ thread[c] = "await" => c \in events /\ expects[c]
    /\ thread[c] \notin {"unregister", "done"} => result[c] = "none"

(* The channel of a call that may still need it is registered, or closed.  *)
ChannelIsThere ==
  \A c \in Calls :
    /\ channel[c] \in {"closed", "closedFull"} => Over
    /\ expects[c] /\ thread[c] \in {"send", "sending", "await"} /\ c \notin pending
         => channel[c] \in {"closed", "closedFull"}
    /\ channel[c] \in {"full", "closedFull"} => responses[c] > 0
    /\ handler = "blocked" /\ delivering = c =>
         responses[c] > 0 /\ (thread[c] = "await" => channel[c] = "full")

(* An answer that was sent is on its way, or in the channel.               *)
AnswerIsKept ==
  \A c \in Calls :
    thread[c] = "await" /\ responses[c] > 0 /\ stream # "cancelled"
      => inbound[c] > 0 \/ channel[c] \in {"full", "closedFull"}

AnswerInv == EndIsLast /\ AskedFirst /\ ChannelIsThere /\ AnswerIsKept

LEMMA AnswersInitially == Init => AnswerInv
BY DEF Init, AnswerInv, EndIsLast, AskedFirst, ChannelIsThere, AnswerIsKept, Over, NoMore

(* A calling thread.                                                       *)
LEMMA InvokeAnswers ==
  ASSUME IInv, AnswerInv, NEW c \in Calls, Invoke(c), UNCHANGED interface
  PROVE  AnswerInv'
<1> USE ProxyAssumption DEF Invoke, client, At, MayExpect, MayNotExpect,
       ProxyRegistered
<1>0. TypeOK /\ InboundSent /\ NoSendOnClosed /\ AnswerInv
  BY DEF IInv
<1>1. EndIsLast'
  BY <1>0 DEF NoMore, EndIsLast, AnswerInv
<1>2. AskedFirst'
  BY <1>0 DEF AskedFirst, AnswerInv
<1>3. ChannelIsThere'
  BY <1>0 DEF TypeOK, Over, ChannelIsThere, AnswerInv
<1>4. AnswerIsKept'
  BY <1>0 DEF AnswerIsKept, AnswerInv
<1>5. QED
  BY <1>1, <1>2, <1>3, <1>4 DEF AnswerInv

LEMMA RegisterPendingAnswers ==
  ASSUME IInv, AnswerInv, NEW c \in Calls, RegisterPending(c), UNCHANGED interface
  PROVE  AnswerInv'
<1> USE ProxyAssumption DEF RegisterPending, client, At
<1>0. TypeOK /\ InboundSent /\ NoSendOnClosed /\ AnswerInv
  BY DEF IInv
<1>1. EndIsLast'
  BY <1>0 DEF NoMore, EndIsLast, AnswerInv
<1>2. AskedFirst'
  BY <1>0 DEF AskedFirst, AnswerInv
<1>3. ChannelIsThere'
  BY <1>0 DEF Over, ChannelIsThere, AnswerInv
<1>4. AnswerIsKept'
  BY <1>0 DEF AnswerIsKept, AnswerInv
<1>5. QED
  BY <1>1, <1>2, <1>3, <1>4 DEF AnswerInv

LEMMA LockSendAnswers ==
  ASSUME IInv, AnswerInv, NEW c \in Calls, LockSend(c), UNCHANGED interface
  PROVE  AnswerInv'
<1> USE ProxyAssumption DEF LockSend, client, At
<1>0. TypeOK /\ InboundSent /\ NoSendOnClosed /\ AnswerInv
  BY DEF IInv
<1>1. EndIsLast'
  BY <1>0 DEF NoMore, EndIsLast, AnswerInv
<1>2. AskedFirst'
  BY <1>0 DEF AskedFirst, AnswerInv
<1>3. ChannelIsThere'
  BY <1>0 DEF Over, ChannelIsThere, AnswerInv
<1>4. AnswerIsKept'
  BY <1>0 DEF AnswerIsKept, AnswerInv
<1>5. QED
  BY <1>1, <1>2, <1>3, <1>4 DEF AnswerInv

(* An event just sent has no answer yet.                                   *)
LEMMA SendSucceedsAnswers ==
  ASSUME IInv, AnswerInv, NEW c \in Calls, SendSucceeds(c), UNCHANGED interface
  PROVE  AnswerInv'
<1> USE ProxyAssumption DEF SendSucceeds, client, At
<1>0. TypeOK /\ InboundSent /\ NoSendOnClosed /\ AnswerInv
  BY DEF IInv
<1>1. EndIsLast'
  BY <1>0 DEF NoMore, EndIsLast, AnswerInv
<1>2. AskedFirst'
  BY <1>0 DEF TypeOK, AskedFirst, AnswerInv
<1>3. ChannelIsThere'
  BY <1>0 DEF Over, AskedFirst, ChannelIsThere, AnswerInv
<1>4. AnswerIsKept'
  BY <1>0 DEF AskedFirst, AnswerIsKept, AnswerInv
<1>5. QED
  BY <1>1, <1>2, <1>3, <1>4 DEF AnswerInv

LEMMA SendFailsAnswers ==
  ASSUME IInv, AnswerInv, NEW c \in Calls, SendFails(c), UNCHANGED interface
  PROVE  AnswerInv'
<1> USE ProxyAssumption DEF SendFails, client, At
<1>0. TypeOK /\ InboundSent /\ NoSendOnClosed /\ AnswerInv
  BY DEF IInv
<1>1. EndIsLast'
  BY <1>0 DEF NoMore, EndIsLast, AnswerInv
<1>2. AskedFirst'
  BY <1>0 DEF TypeOK, AskedFirst, AnswerInv
<1>3. ChannelIsThere'
  BY <1>0 DEF Over, ChannelIsThere, AnswerInv
<1>4. AnswerIsKept'
  BY <1>0 DEF AnswerIsKept, AnswerInv
<1>5. QED
  BY <1>1, <1>2, <1>3, <1>4 DEF AnswerInv

(* What is taken was an answer, or nothing was there and never will be.    *)
LEMMA AwaitResponseAnswers ==
  ASSUME IInv, AnswerInv, NEW c \in Calls, AwaitResponse(c), UNCHANGED interface
  PROVE  AnswerInv'
<1> USE ProxyAssumption DEF AwaitResponse, client, At, Answered
<1>0. TypeOK /\ InboundSent /\ NoSendOnClosed /\ AnswerInv
  BY DEF IInv
<1>1. EndIsLast'
  BY <1>0 DEF NoMore, EndIsLast, AnswerInv
<1>2. AskedFirst'
  BY <1>0 DEF TypeOK, AskedFirst, AnswerInv
<1>3. ChannelIsThere'
  BY <1>0 DEF TypeOK, Over, ChannelIsThere, AnswerInv
<1>4. AnswerIsKept'
  BY <1>0 DEF TypeOK, AnswerIsKept, AnswerInv
<1>5. QED
  BY <1>1, <1>2, <1>3, <1>4 DEF AnswerInv

LEMMA UnregisterPendingAnswers ==
  ASSUME IInv, AnswerInv, NEW c \in Calls, UnregisterPending(c), UNCHANGED interface
  PROVE  AnswerInv'
<1> USE ProxyAssumption DEF UnregisterPending, client, At, Forget
<1>0. TypeOK /\ InboundSent /\ NoSendOnClosed /\ AnswerInv
  BY DEF IInv
<1>1. EndIsLast'
  BY <1>0 DEF NoMore, EndIsLast, AnswerInv
<1>2. AskedFirst'
  BY <1>0 DEF AskedFirst, AnswerInv
<1>3. ChannelIsThere'
  BY <1>0 DEF Over, ChannelIsThere, AnswerInv
<1>4. AnswerIsKept'
  BY <1>0 DEF AnswerIsKept, AnswerInv
<1>5. QED
  BY <1>1, <1>2, <1>3, <1>4 DEF AnswerInv

(* The handler.                                                            *)

(* A response to a waiting call finds its channel: only ClosePending takes *)
(* one out of pending, and the loop has ended by then.                     *)
LEMMA ReceiveResponseAnswers ==
  ASSUME IInv, AnswerInv, NEW c \in Calls, ReceiveResponse(c), UNCHANGED interface
  PROVE  AnswerInv'
<1> USE ProxyAssumption DEF ReceiveResponse, client
<1>0. TypeOK /\ InboundSent /\ NoSendOnClosed /\ AnswerInv
  BY DEF IInv
<1>1. EndIsLast'
  BY <1>0 DEF EndIsLast, AnswerInv
<1>2. AskedFirst'
  BY <1>0 DEF AskedFirst, AnswerInv
<1>3. ChannelIsThere'
  BY <1>0 DEF TypeOK, InboundSent, Over, ChannelIsThere, AnswerInv
<1>4. AnswerIsKept'
  BY <1>0 DEF TypeOK, Over, AskedFirst, ChannelIsThere, AnswerIsKept, AnswerInv
<1>5. QED
  BY <1>1, <1>2, <1>3, <1>4 DEF AnswerInv

LEMMA DeliverBlockedAnswers ==
  ASSUME IInv, AnswerInv, DeliverBlocked, UNCHANGED interface
  PROVE  AnswerInv'
<1> USE ProxyAssumption DEF DeliverBlocked, client
<1>0. TypeOK /\ InboundSent /\ NoSendOnClosed /\ AnswerInv
  BY DEF IInv
<1>1. EndIsLast'
  BY <1>0 DEF EndIsLast, AnswerInv
<1>2. AskedFirst'
  BY <1>0 DEF AskedFirst, AnswerInv
<1>3. ChannelIsThere'
  BY <1>0 DEF Over, ChannelIsThere, AnswerInv
<1>4. AnswerIsKept'
  BY <1>0 DEF AnswerIsKept, AnswerInv
<1>5. QED
  BY <1>1, <1>2, <1>3, <1>4 DEF AnswerInv

(* Nothing was lost: all responses were received before, or the client has *)
(* cancelled; and what the channels hold they keep.                        *)
LEMMA ClosePendingAnswers ==
  ASSUME IInv, AnswerInv, ClosePending, UNCHANGED interface
  PROVE  AnswerInv'
<1> USE ProxyAssumption DEF ClosePending, client, ChannelsClosed
<1>0. TypeOK /\ InboundSent /\ NoSendOnClosed /\ AnswerInv
  BY DEF IInv
<1>1. EndIsLast'
  BY <1>0 DEF NoMore, EndIsLast, AnswerInv
<1>2. AskedFirst'
  BY <1>0 DEF AskedFirst, AnswerInv
<1>3. ChannelIsThere'
  BY <1>0 DEF Over, ChannelIsThere, AnswerInv
<1>4. AnswerIsKept'
  BY <1>0 DEF Over, ChannelIsThere, AnswerIsKept, AnswerInv
<1>5. QED
  BY <1>1, <1>2, <1>3, <1>4 DEF AnswerInv

(* The loop ends after the last response or with the cancellation.         *)
LEMMA HandlerMovesAnswers ==
  ASSUME IInv, AnswerInv, HandlerMoves, UNCHANGED interface
  PROVE  AnswerInv'
<1> USE ProxyAssumption DEF HandlerMoves, client, OpeningFails, CreateProxy,
       ConstructAdapter, LockAnnounce, Announce, SendAccepted, StreamEnds,
       CloseDetector, HandlerReturns
<1>0. TypeOK /\ InboundSent /\ NoSendOnClosed /\ AnswerInv
  BY DEF IInv
<1>1. EndIsLast'
  BY <1>0 DEF NoMore, EndIsLast, AnswerInv
<1>2. AskedFirst'
  BY <1>0 DEF AskedFirst, AnswerInv
<1>3. ChannelIsThere'
  BY <1>0 DEF Over, ChannelIsThere, AnswerInv
<1>4. AnswerIsKept'
  BY <1>0 DEF AnswerIsKept, AnswerInv
<1>5. QED
  BY <1>1, <1>2, <1>3, <1>4 DEF AnswerInv

(* The client.                                                             *)

(* A response leaves while the stream is open: no end has come yet.        *)
LEMMA RespondAnswers ==
  ASSUME IInv, AnswerInv, NEW c \in Calls, Respond(c), UNCHANGED interface
  PROVE  AnswerInv'
<1> USE ProxyAssumption DEF Respond, client
<1>0. TypeOK /\ InboundSent /\ NoSendOnClosed /\ AnswerInv
  BY DEF IInv
<1>1. EndIsLast'
  BY <1>0 DEF NoMore, EndIsLast, AnswerInv
<1>2. AskedFirst'
  BY <1>0 DEF AskedFirst, AnswerInv
<1>3. ChannelIsThere'
  BY <1>0 DEF TypeOK, Over, ChannelIsThere, AnswerInv
<1>4. AnswerIsKept'
  BY <1>0 DEF TypeOK, AnswerIsKept, AnswerInv
<1>5. QED
  BY <1>1, <1>2, <1>3, <1>4 DEF AnswerInv

LEMMA ReleaseHandleAnswers ==
  ASSUME IInv, AnswerInv, NEW c \in Calls, ReleaseHandle(c), UNCHANGED interface
  PROVE  AnswerInv'
<1> USE ProxyAssumption DEF ReleaseHandle, client
<1>0. TypeOK /\ InboundSent /\ NoSendOnClosed /\ AnswerInv
  BY DEF IInv
<1>1. EndIsLast'
  BY <1>0 DEF NoMore, EndIsLast, AnswerInv
<1>2. AskedFirst'
  BY <1>0 DEF AskedFirst, AnswerInv
<1>3. ChannelIsThere'
  BY <1>0 DEF Over, ChannelIsThere, AnswerInv
<1>4. AnswerIsKept'
  BY <1>0 DEF AnswerIsKept, AnswerInv
<1>5. QED
  BY <1>1, <1>2, <1>3, <1>4 DEF AnswerInv

LEMMA EndStreamAnswers ==
  ASSUME IInv, AnswerInv, EndStream, UNCHANGED interface
  PROVE  AnswerInv'
<1> USE ProxyAssumption DEF EndStream, client
<1>0. TypeOK /\ InboundSent /\ NoSendOnClosed /\ AnswerInv
  BY DEF IInv
<1>1. EndIsLast'
  BY <1>0 DEF NoMore, EndIsLast, AnswerInv
<1>2. AskedFirst'
  BY <1>0 DEF AskedFirst, AnswerInv
<1>3. ChannelIsThere'
  BY <1>0 DEF Over, ChannelIsThere, AnswerInv
<1>4. AnswerIsKept'
  BY <1>0 DEF AnswerIsKept, AnswerInv
<1>5. QED
  BY <1>1, <1>2, <1>3, <1>4 DEF AnswerInv

LEMMA AnswersStep ==
  ASSUME IInv, AnswerInv, [Next]_vars
  PROVE  AnswerInv'
<1>1. CASE UNCHANGED vars
  BY <1>1 DEF AnswerInv, EndIsLast, AskedFirst, ChannelIsThere, AnswerIsKept, Over, NoMore,
     vars, client
<1>2. ASSUME NEW c \in Calls, Invoke(c) \/ ThreadStep(c), UNCHANGED interface
      PROVE  AnswerInv'
  BY <1>2, InvokeAnswers, RegisterPendingAnswers, LockSendAnswers, SendSucceedsAnswers,
     SendFailsAnswers, AwaitResponseAnswers, UnregisterPendingAnswers DEF ThreadStep
<1>3. ASSUME HandlerStep
      PROVE  AnswerInv'
  BY <1>3, ReceiveResponseAnswers, DeliverBlockedAnswers, ClosePendingAnswers,
     HandlerMovesAnswers DEF HandlerStep, HandlerMoves
<1>4. ASSUME ClientStep, UNCHANGED interface
      PROVE  AnswerInv'
  BY <1>4, RespondAnswers, ReleaseHandleAnswers, EndStreamAnswers DEF ClientStep
<1>5. QED
  BY <1>1, <1>2, <1>3, <1>4 DEF Next

-----------------------------------------------------------------------------
(* The refinement.  Seen through CallState and Line, a step is one of the  *)
(* contract's or none.                                                     *)

CallMoves(c, from, to) ==
  /\ CallState(c) = from /\ CallState(c)' = to
  /\ \A d \in Calls \ {c} : CallState(d)' = CallState(d)
  /\ Line' = Line

Still == (\A d \in Calls : CallState(d)' = CallState(d)) /\ Line' = Line

LEMMA MovesBecome ==
  ASSUME NEW c \in Calls, NEW from, NEW to, CallMoves(c, from, to)
  PROVE  Contract!Becomes(c, from, to)
BY DEF CallMoves, Contract!Becomes

LEMMA StillStutters == ASSUME Still PROVE UNCHANGED Contract!vars
BY DEF Still, Contract!vars

(* A step of one thread, or of the client for one call, leaves the others  *)
(* as they are.                                                            *)
LEMMA OthersStay ==
  ASSUME NEW c \in Calls, UNCHANGED <<handler, stream>>,
         \A d \in Calls \ {c} :
           /\ thread'[d] = thread[d] /\ responses'[d] = responses[d]
           /\ result'[d] = result[d]
  PROVE  Line' = Line /\ \A d \in Calls \ {c} : CallState(d)' = CallState(d)
BY DEF Line, CallState

(* An event sent asks, or tells.                                           *)
LEMMA SendSucceedsImplements ==
  ASSUME IInv, AnswerInv, NEW c \in Calls, SendSucceeds(c)
  PROVE  Contract!Ask(c) \/ Contract!Tell(c)
<1> USE DEF SendSucceeds, At
<1>1. TypeOK /\ AskedFirst
  BY DEF IInv, AnswerInv
<1>2. /\ UNCHANGED <<handler, stream, responses, result>>
      /\ \A d \in Calls \ {c} : thread'[d] = thread[d]
  BY <1>1 DEF TypeOK, client
<1>3. Line' = Line /\ \A d \in Calls \ {c} : CallState(d)' = CallState(d)
  BY <1>2, OthersStay
<1>4. thread[c] = "sending" /\ responses[c] = 0 /\ result[c] = "none"
  BY <1>1 DEF TypeOK, AskedFirst
<1>5. CallState(c) = "none"
  BY <1>4 DEF CallState
<1>6. CASE expects[c]
  <2>1. thread'[c] = "await"
    BY <1>1, <1>6 DEF TypeOK
  <2>2. CallState(c)' = "asked"
    BY <1>2, <1>4, <2>1 DEF CallState
  <2>3. Line # "cancelled"
    BY DEF SendAccepted, Line
  <2>4. QED
    BY <1>3, <1>5, <2>2, <2>3, MovesBecome DEF CallMoves, Contract!Ask
<1>7. CASE ~expects[c]
  <2>1. thread'[c] = "done"
    BY <1>1, <1>7 DEF TypeOK
  <2>2. CallState(c)' = "told"
    BY <1>2, <1>4, <2>1 DEF CallState
  <2>3. QED
    BY <1>3, <1>5, <2>2, MovesBecome DEF CallMoves, Contract!Tell
<1>8. QED
  BY <1>6, <1>7

(* A send is refused when the stream is over.                              *)
LEMMA SendFailsImplements ==
  ASSUME IInv, AnswerInv, NEW c \in Calls, SendFails(c)
  PROVE  Contract!Fail(c) \/ Contract!Tell(c)
<1> USE DEF SendFails, At
<1>1. TypeOK
  BY DEF IInv
<1>2. /\ UNCHANGED <<handler, stream, responses>>
      /\ \A d \in Calls \ {c} : thread'[d] = thread[d] /\ result'[d] = result[d]
  BY <1>1 DEF TypeOK, client
<1>3. Line' = Line /\ \A d \in Calls \ {c} : CallState(d)' = CallState(d)
  BY <1>2, OthersStay
<1>4. CallState(c) = "none"
  BY DEF CallState
<1>5. thread'[c] \in {"unregister", "done"} /\ result'[c] \in {"none", "error"}
  BY <1>1 DEF TypeOK
<1>6. CASE result'[c] = "error"
  <2>1. CallState(c)' = "failed"
    BY <1>5, <1>6 DEF CallState
  <2>2. Line # "open"
    BY DEF SendAccepted, Line
  <2>3. QED
    BY <1>3, <1>4, <2>1, <2>2, MovesBecome DEF CallMoves, Contract!Fail
<1>7. CASE result'[c] = "none"
  <2>1. CallState(c)' = "told"
    BY <1>5, <1>7 DEF CallState
  <2>2. QED
    BY <1>3, <1>4, <2>1, MovesBecome DEF CallMoves, Contract!Tell
<1>8. QED
  BY <1>5, <1>6, <1>7

(* The answer a call takes is the client's.  A call that finds its channel *)
(* closed was not answered before the stream ended, or the client has      *)
(* cancelled: AnswerIsKept, and no response comes after the end.           *)
LEMMA AwaitResponseImplements ==
  ASSUME IInv, AnswerInv, NEW c \in Calls, AwaitResponse(c)
  PROVE  Contract!Return(c) \/ Contract!Fail(c)
<1> USE DEF AwaitResponse, At
<1>1. TypeOK /\ EndIsLast /\ AskedFirst /\ ChannelIsThere /\ AnswerIsKept
  BY DEF IInv, AnswerInv
<1>2. /\ UNCHANGED <<handler, stream, responses>>
      /\ \A d \in Calls \ {c} : thread'[d] = thread[d] /\ result'[d] = result[d]
  BY <1>1 DEF TypeOK, client
<1>3. Line' = Line /\ \A d \in Calls \ {c} : CallState(d)' = CallState(d)
  BY <1>2, OthersStay
<1>4. thread'[c] = "unregister"
  BY <1>1 DEF TypeOK
<1>5. CASE channel[c] # "closed"
  <2>1. channel[c] \in {"full", "closedFull"}
    BY <1>1, <1>5 DEF Answered, TypeOK
  <2>2. CallState(c) = "answered"
    BY <1>1, <2>1 DEF CallState, ChannelIsThere
  <2>3. result'[c] = "answer"
    BY <1>1, <1>5 DEF TypeOK
  <2>4. CallState(c)' = "returned"
    BY <1>4, <2>3 DEF CallState
  <2>5. QED
    BY <1>3, <2>2, <2>4, MovesBecome DEF CallMoves, Contract!Return
<1>6. CASE channel[c] = "closed"
  <2>1. result'[c] = "error"
    BY <1>1, <1>6 DEF TypeOK
  <2>2. CallState(c)' = "failed"
    BY <1>4, <2>1 DEF CallState
  <2>3. Over
    BY <1>1, <1>6 DEF ChannelIsThere
  <2>4. Line # "open"
    BY <2>3 DEF Over, Line
  <2>5. CASE responses[c] = 0
    <3>1. CallState(c) = "asked"
      BY <2>5 DEF CallState
    <3>2. QED
      BY <1>3, <2>2, <2>4, <3>1, MovesBecome DEF CallMoves, Contract!Fail
  <2>6. CASE responses[c] # 0
    <3>1. CallState(c) = "answered"
      BY <2>6 DEF CallState
    <3>2. responses[c] > 0 /\ expects[c]
      BY <1>1, <2>6 DEF TypeOK, AskedFirst
    <3>3. NoMore
      BY <1>1, <2>3, <3>2 DEF EndIsLast, Over
    <3>4. stream = "cancelled"
      BY <1>1, <1>6, <3>2, <3>3 DEF AnswerIsKept, NoMore
    <3>5. Line = "cancelled"
      BY <3>4 DEF Line
    <3>6. QED
      BY <1>3, <2>2, <3>1, <3>5, MovesBecome DEF CallMoves, Contract!Fail
  <2>7. QED
    BY <2>5, <2>6
<1>7. QED
  BY <1>5, <1>6

(* The first response answers, while the server still listens.             *)
LEMMA RespondImplements ==
  ASSUME IInv, AnswerInv, NEW c \in Calls, Respond(c)
  PROVE  Contract!Answer(c) \/ UNCHANGED Contract!vars
<1> USE DEF Respond
<1>1. TypeOK /\ EndIsLast /\ AskedFirst
  BY DEF IInv, AnswerInv
<1>2. /\ UNCHANGED <<handler, stream, thread, result>>
      /\ \A d \in Calls \ {c} : responses'[d] = responses[d]
      /\ responses'[c] = responses[c] + 1 /\ responses[c] \in Nat
  BY <1>1, ProxyAssumption DEF TypeOK
<1>3. Line' = Line /\ \A d \in Calls \ {c} : CallState(d)' = CallState(d)
  BY <1>2, OthersStay
<1>4. thread[c] \in {"await", "unregister", "done"}
  BY <1>1 DEF AskedFirst
<1>5. CASE thread[c] = "await" /\ responses[c] = 0
  <2>1. CallState(c) = "asked" /\ CallState(c)' = "answered"
    BY <1>2, <1>5 DEF CallState
  <2>2. Line = "open"
    BY <1>1 DEF EndIsLast, NoMore, Line
  <2>3. QED
    BY <1>3, <2>1, <2>2, MovesBecome DEF CallMoves, Contract!Answer
<1>6. CASE ~(thread[c] = "await" /\ responses[c] = 0)
  <2>1. CallState(c)' = CallState(c)
    BY <1>2, <1>4, <1>6 DEF CallState
  <2>2. QED
    BY <1>3, <2>1, StillStutters DEF Still
<1>7. QED
  BY <1>5, <1>6

(* What ends the stream.                                                   *)
LEMMA LineMoves ==
  ASSUME UNCHANGED <<thread, responses, result>>,
         Line' = Line \/ (Line = "open" /\ Line' = "closed")
           \/ (Line # "cancelled" /\ Line' = "cancelled")
  PROVE  [Contract!Next]_Contract!vars
<1>1. \A d \in Calls : CallState(d)' = CallState(d)
  BY DEF CallState
<1>2. [d \in Calls |-> CallState(d)]' = [d \in Calls |-> CallState(d)]
  BY <1>1
<1>3. QED
  BY <1>2 DEF Contract!Next, Contract!Close, Contract!Cancel, Contract!vars

(* The handler closes the line once, and answers no call itself.           *)
LEMMA HandlerImplements ==
  ASSUME IInv, AnswerInv, HandlerStep
  PROVE  [Contract!Next]_Contract!vars
<1>1. UNCHANGED <<stream, thread, responses, result>>
  BY DEF HandlerStep, OpeningFails, CreateProxy, ConstructAdapter, LockAnnounce, Announce,
     ReceiveResponse, DeliverBlocked, StreamEnds, ClosePending, CloseDetector,
     HandlerReturns, client
<1>2. Over => Over'
  BY DEF HandlerStep, OpeningFails, CreateProxy, ConstructAdapter, LockAnnounce, Announce,
     ReceiveResponse, DeliverBlocked, StreamEnds, ClosePending, CloseDetector,
     HandlerReturns, Over
<1>3. Line' = Line \/ (Line = "open" /\ Line' = "closed")
  BY <1>1, <1>2 DEF Line, Over
<1>4. QED
  BY <1>1, <1>3, LineMoves

(* The steps of a thread before its event is sent, and its return, change  *)
(* nothing the contract speaks of.                                         *)
LEMMA ThreadImplements ==
  ASSUME IInv, AnswerInv, NEW c \in Calls, Invoke(c) \/ ThreadStep(c)
  PROVE  [Contract!Next]_Contract!vars
<1>1. TypeOK
  BY DEF IInv
<1>2. ASSUME UNCHANGED <<handler, stream, responses, result>>,
             \A d \in Calls \ {c} : thread'[d] = thread[d],
             \/ /\ thread[c] \in {"idle", "register", "send"}
                /\ thread'[c] \in {"register", "send", "sending"}
             \/ thread[c] = "unregister" /\ thread'[c] = "done"
      PROVE  UNCHANGED Contract!vars
  <2>1. Line' = Line /\ \A d \in Calls \ {c} : CallState(d)' = CallState(d)
    BY <1>2, OthersStay
  <2>2. CASE thread[c] = "unregister" /\ thread'[c] = "done"
    <3>1. CallState(c)' = CallState(c)
      BY <1>1, <1>2, <2>2 DEF CallState, TypeOK
    <3>2. QED
      BY <2>1, <3>1, StillStutters DEF Still
  <2>3. CASE /\ thread[c] \in {"idle", "register", "send"}
             /\ thread'[c] \in {"register", "send", "sending"}
    <3>1. CallState(c)' = CallState(c)
      BY <2>3 DEF CallState
    <3>2. QED
      BY <2>1, <3>1, StillStutters DEF Still
  <2>4. QED
    BY <1>2, <2>2, <2>3
<1>3. CASE Invoke(c)
  BY <1>1, <1>2, <1>3 DEF TypeOK, Invoke, At, client
<1>4. CASE RegisterPending(c)
  BY <1>1, <1>2, <1>4 DEF TypeOK, RegisterPending, At, client
<1>5. CASE LockSend(c)
  BY <1>1, <1>2, <1>5 DEF TypeOK, LockSend, At, client
<1>6. CASE UnregisterPending(c)
  BY <1>1, <1>2, <1>6 DEF TypeOK, UnregisterPending, At, client
<1>7. CASE SendSucceeds(c) \/ SendFails(c) \/ AwaitResponse(c)
  BY <1>7, SendSucceedsImplements, SendFailsImplements, AwaitResponseImplements
     DEF Contract!Next
<1>8. QED
  BY <1>3, <1>4, <1>5, <1>6, <1>7 DEF ThreadStep

(* Handles are not the contract's; the end it sees is the cancellation.    *)
LEMMA ClientImplements ==
  ASSUME IInv, AnswerInv, ClientStep
  PROVE  [Contract!Next]_Contract!vars
<1>1. ASSUME NEW c \in Calls, Respond(c)
      PROVE  [Contract!Next]_Contract!vars
  BY <1>1, RespondImplements DEF Contract!Next
<1>2. ASSUME NEW c \in Calls, ReleaseHandle(c)
      PROVE  [Contract!Next]_Contract!vars
  BY <1>2, LineMoves DEF ReleaseHandle, client, Line
<1>3. CASE EndStream
  <2>1. UNCHANGED <<handler, thread, responses, result>>
    BY <1>3 DEF EndStream, client
  <2>2. Line' = Line \/ (Line # "cancelled" /\ Line' = "cancelled")
    BY <1>3, <2>1 DEF EndStream, Line
  <2>3. QED
    BY <2>1, <2>2, LineMoves
<1>4. QED
  BY <1>1, <1>2, <1>3 DEF ClientStep

(* Every behaviour of the stream is one of the contract: no answer is lost *)
(* but to a client that cancels, and no call fails on an open stream.      *)
THEOREM ImplementsContract == Spec => ContractSpec
<1>1. Init => AnswerInv
  BY AnswersInitially
<1>2. Init => Contract!Init
  BY DEF Init, Contract!Init, CallState, Line
<1>3. IInv /\ AnswerInv /\ [Next]_vars => AnswerInv' /\ [Contract!Next]_Contract!vars
  <2> SUFFICES ASSUME IInv, AnswerInv, [Next]_vars
               PROVE  AnswerInv' /\ [Contract!Next]_Contract!vars
    OBVIOUS
  <2>1. CASE UNCHANGED vars
    <3>1. Still
      BY <2>1 DEF Still, vars, client, CallState, Line
    <3>2. QED
      BY <2>1, <3>1, AnswersStep, StillStutters
  <2>2. CASE Next
    BY <2>2, AnswersStep, ThreadImplements, HandlerImplements, ClientImplements DEF Next
  <2>3. QED
    BY <2>1, <2>2
<1>4. QED
  BY <1>1, <1>2, <1>3, Inductive, PTL DEF Spec, ContractSpec, Contract!Spec
=============================================================================
