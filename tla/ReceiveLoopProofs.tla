------------------------- MODULE ReceiveLoopProofs -------------------------
(***************************************************************************)
(* The task that receives does not sleep through a page, for any number of *)
(* messages, frames and clients, whatever is wrong with the frames, and    *)
(* any sizes of the buffers.                                               *)
(*                                                                         *)
(* The flag of the blocked mesh stands for one wait.  A page that nobody   *)
(* is about to signal was signalled before, so the actor does not wait,    *)
(* and either its result is still to be noticed or the task will ask the   *)
(* mesh before it waits again.                                             *)
(***************************************************************************)
EXTENDS ReceiveLoop, TLAPS

\* What is in a hand is a message, and a call that has not published its last
\* page yet has one left.
InHand ==
  /\ pc \in {"forward", "sending"} => hand \in Messages
  /\ \A c \in Clients : handler[c] = "send" => holding[c] \in Frames
  /\ \A i \in 1 .. Len(outgoing) : ~outgoing[i].notify => outgoing[i].left > 0

\* This call of try_recv_stream, or the next, has yet to come to the mesh.
ToAsk ==
  \/ pc \in {"begin", "forward", "sending"}
  \/ pc = "ask" /\ (tries = 0 \/ (tries = 1 /\ current = "iox2"))

Noticed ==
  buffer # <<>> /\ ~Signalled /\ pc # "ended" =>
     /\ actor # "waiting"
     /\ returned > 0 \/ (~blocked /\ ToAsk)

Inductive == TypeOK /\ InHand /\ BlockedIsWaiting /\ Noticed

\* The call in progress is replaced by what is left of it.
LEMMA FirstReplaced ==
  ASSUME NEW S, NEW s \in Seq(S), s # <<>>, NEW e \in S
  PROVE  LET t == [s EXCEPT ![1] = e] IN
         /\ t \in Seq(S) /\ Len(t) = Len(s) /\ t # <<>> /\ Head(t) = e
         /\ \A i \in 1 .. Len(t) : t[i] = IF i = 1 THEN e ELSE s[i]
OBVIOUS

\* The call in progress is the first.
LEMMA FirstCall ==
  ASSUME NEW S, NEW s \in Seq(S), s # <<>>
  PROVE  1 \in 1 .. Len(s) /\ Head(s) = s[1] /\ s[1] \in S
OBVIOUS

\* What is left when the first has gone.
LEMMA RestKept ==
  ASSUME NEW S, NEW s \in Seq(S), s # <<>>
  PROVE  /\ Tail(s) \in Seq(S) /\ Len(Tail(s)) = Len(s) - 1
         /\ \A i \in 1 .. Len(Tail(s)) : i + 1 \in 1 .. Len(s) /\ Tail(s)[i] = s[i + 1]
OBVIOUS

\* A call that has a page left publishes it, and notifies.
LEMMA CallProgress ==
  ASSUME NEW call \in Calls, call.left > 0
  PROVE  /\ Published(call) \in Calls /\ Published(call).notify
         /\ Notified(call) \in Calls /\ Notified(call).left > 0
<1>1. call.left - 1 \in 0 .. 2
  BY DEF Calls
<1> QED
  BY <1>1 DEF Calls, Published, Notified

\* An attempt more is a call with its pages left.
LEMMA AttemptMade ==
  ASSUME TypeOK, InHand, NEW m \in Messages, Attempt(m)
  PROVE  /\ outgoing' \in Seq(Calls) /\ attempt' \in [Messages -> Nat]
         /\ \A i \in 1 .. Len(outgoing') : ~outgoing'[i].notify => outgoing'[i].left > 0
         /\ outgoing' # <<>> /\ (Head(outgoing').notify <=> outgoing # <<>> /\ Head(outgoing).notify)
<1> DEFINE call == [msg |-> m, left |-> Pages(m), notify |-> FALSE]
<1>1. call \in Calls /\ call.left > 0 /\ ~call.notify
  BY DEF Pages, Calls
<1>2. outgoing' = Append(outgoing, call) /\ attempt' = [attempt EXCEPT ![m] = @ + 1]
  BY DEF Attempt
<1> HIDE DEF call
<1>3. outgoing \in Seq(Calls) /\ \A i \in 1 .. Len(outgoing) : ~outgoing[i].notify => outgoing[i].left > 0
  BY DEF TypeOK, InHand
<1>4. /\ outgoing' \in Seq(Calls)
      /\ \A i \in 1 .. Len(outgoing') : ~outgoing'[i].notify => outgoing'[i].left > 0
      /\ outgoing' # <<>> /\ (Head(outgoing').notify <=> outgoing # <<>> /\ Head(outgoing).notify)
  BY <1>1, <1>2, <1>3
<1>5. attempt' \in [Messages -> Nat]
  BY <1>2 DEF TypeOK
<1> QED
  BY <1>4, <1>5

\* Initially nothing is published and nothing waits.
LEMMA InitInductive == Init => Inductive
<1> SUFFICES ASSUME Init PROVE Inductive
  OBVIOUS
<1>1. TypeOK
  <2>1. expired \in BOOLEAN /\ blocked \in BOOLEAN /\ event \in BOOLEAN /\ fresh \in BOOLEAN
    BY Zenon DEF Init
  <2>2. /\ buffer \in Seq(PagesSent) /\ Len(buffer) <= BufferSize
        /\ inbox \in Seq(Frames) /\ Len(inbox) <= ChannelSize
        /\ queue \in Seq(Messages)
        /\ outgoing \in Seq(Calls)
        /\ attempt \in [Messages -> Nat] /\ failures \in 0 .. MaxFailures
    BY ReceiveAssumption DEF Init
  <2>3. /\ outbox \in [Clients -> Seq(Messages)]
        /\ \A c \in Clients : Len(outbox[c]) <= ChannelSize
    BY ReceiveAssumption DEF Init
  <2> QED
    BY <2>1, <2>2, <2>3 DEF Init, TypeOK
<1>2. InHand /\ BlockedIsWaiting /\ Noticed
  BY DEF Init, InHand, BlockedIsWaiting, Noticed
<1> QED
  BY <1>1, <1>2 DEF Inductive

\* Every step keeps the types and what is in hand.
LEMMA TypeStep == TypeOK /\ InHand /\ BlockedIsWaiting /\ [Next]_vars => TypeOK' /\ InHand'
<1> SUFFICES ASSUME TypeOK, InHand, BlockedIsWaiting, [Next]_vars PROVE TypeOK' /\ InHand'
  OBVIOUS
<1> USE ReceiveAssumption DEF TypeOK, InHand, BlockedIsWaiting, loop, waiting, sending, mesh, gateway, Messages
<1>1. CASE Tick
  BY <1>1 DEF Tick
<1>2. CASE Begin
  <2>1. blocked' \in BOOLEAN
    BY <1>2, Zenon DEF Begin
  <2>2. current' \in Backings \union {None} /\ expired' \in BOOLEAN
    BY <1>2 DEF Begin, PassTurn, Other, Backings
  <2> QED
    BY <1>2, <2>1, <2>2 DEF Begin
<1>3. CASE Skip
  BY <1>3 DEF Skip
<1>4. CASE AskNothing
  <2>1. tries' \in 0 .. 2
    BY <1>4 DEF AskNothing
  <2>2. current' \in Backings \union {None} /\ expired' \in BOOLEAN
    BY <1>4 DEF AskNothing, PassTurn, Other, Backings
  <2> QED
    BY <1>4, <2>1, <2>2 DEF AskNothing
<1>5. CASE AskMesh
  <2>1. buffer # <<>> /\ buffer' = Tail(buffer) /\ Head(buffer) \in PagesSent
    BY <1>5, FirstCall DEF AskMesh
  <2>2. buffer' \in Seq(PagesSent) /\ Len(buffer') <= BufferSize
    BY <2>1, RestKept
  <2>3. merged' \subseteq PagesSent /\ hand' \in Messages \union {None}
        /\ pc' \in {"begin", "forward"} /\ (pc' = "forward" => hand' \in Messages)
    <3>1. \/ pc' = "forward" /\ merged' \subseteq merged /\ hand' = Head(buffer).msg
          \/ pc' = "begin" /\ hand' = hand /\ merged' \subseteq merged \union {Head(buffer)}
      BY <1>5 DEF AskMesh
    <3>2. Head(buffer).msg \in Messages
      BY <2>1 DEF PagesSent
    <3> QED
      BY <2>1, <3>1, <3>2
  <2> QED
    BY <1>5, <2>2, <2>3 DEF AskMesh
<1>6. CASE AskGateway
  <2> DEFINE m == Head(inbox)
  <2>1. inbox # <<>> /\ Attempt(m)
    BY <1>6 DEF AskGateway
  <2>2. m \in Frames /\ m \in Messages
    BY <2>1, FirstCall
  <2>3. /\ outgoing' \in Seq(Calls) /\ attempt' \in [Messages -> Nat]
        /\ \A i \in 1 .. Len(outgoing') : ~outgoing'[i].notify => outgoing'[i].left > 0
    BY <2>1, <2>2, AttemptMade
  <2>4. inbox' \in Seq(Frames) /\ Len(inbox') <= ChannelSize
    <3>1. inbox' = Tail(inbox)
      BY <1>6 DEF AskGateway
    <3> QED
      BY <2>1, <3>1, RestKept
  <2>5. pc' = "sending" /\ hand' \in Messages
    BY <1>6, <2>2 DEF AskGateway
  <2> QED
    BY <1>6, <2>3, <2>4, <2>5 DEF AskGateway
<1>25. CASE AskGatewayPanics
  <2>1. inbox # <<>> /\ inbox' = Tail(inbox)
    BY <1>25 DEF AskGatewayPanics
  <2>2. inbox' \in Seq(Frames) /\ Len(inbox') <= ChannelSize
    BY <2>1, RestKept
  <2> QED
    BY <1>25, <2>2 DEF AskGatewayPanics
<1>26. CASE Refuse
  <2>1. outgoing # <<>> /\ outgoing' = Tail(outgoing)
    BY <1>26 DEF Refuse
  <2>2. /\ outgoing' \in Seq(Calls)
        /\ \A i \in 1 .. Len(outgoing') : ~outgoing'[i].notify => outgoing'[i].left > 0
    BY <2>1, RestKept
  <2> QED
    BY <1>26, <2>2 DEF Refuse
<1>21. CASE AskFails
  BY <1>21 DEF AskFails, Fails
<1>7. CASE Forward
  BY <1>7 DEF Forward, Connected, Room
<1>8. CASE Out
  BY <1>8 DEF Out
<1>9. CASE Wait
  BY <1>9 DEF Wait
<1>10. CASE Wake
  <2>1. blocked' \in BOOLEAN
    BY <1>10, Zenon DEF Wake
  <2>2. returned' \in 0 .. 1
    BY <1>10 DEF Wake
  <2> QED
    BY <1>10, <2>1, <2>2 DEF Wake
<1>11. CASE ActorReturn
  <2>1. returned' \in 0 .. 1
    BY <1>11 DEF ActorReturn
  <2> QED
    BY <1>11, <2>1 DEF ActorReturn
<1>12. CASE SendPage
  <2> DEFINE call == outgoing[1]
  <2>1. outgoing # <<>> /\ ~Head(outgoing).notify
    BY <1>12 DEF SendPage
  <2>2. 1 \in 1 .. Len(outgoing) /\ Head(outgoing) = call /\ call \in Calls
    BY <2>1, FirstCall
  <2>3. Published(call) \in Calls /\ Published(call).notify
    BY <2>1, <2>2, CallProgress
  <2>4. outgoing' = [outgoing EXCEPT ![1] = Published(call)]
    BY <1>12 DEF SendPage
  <2>5. /\ outgoing' \in Seq(Calls)
        /\ \A i \in 1 .. Len(outgoing') : ~outgoing'[i].notify => outgoing'[i].left > 0
    BY <2>1, <2>3, <2>4, FirstReplaced
  <2>6. buffer' \in Seq(PagesSent) /\ Len(buffer') <= BufferSize
    <3>1. Page(call) \in PagesSent
      BY <2>1, <2>2 DEF Calls, Page, PagesSent
    <3> QED
      BY <1>12, <2>2, <3>1 DEF SendPage
  <2> QED
    BY <1>12, <2>5, <2>6 DEF SendPage
<1>13. CASE Notify
  <2>1. pc' \in {"begin", "ask", "forward", "sending", "out", "wait", "ended"} /\ hand' \in Messages \union {None}
    BY <1>13 DEF Notify
  <2>2. pc' \in {"forward", "sending"} => hand' \in Messages
    BY <1>13 DEF Notify
  <2> DEFINE call == outgoing[1]
  <2>3. outgoing # <<>>
    BY <1>13 DEF Notify
  <2>4. 1 \in 1 .. Len(outgoing) /\ Head(outgoing) = call /\ call \in Calls
    BY <2>3, FirstCall
  <2>5. /\ outgoing' \in Seq(Calls)
        /\ \A i \in 1 .. Len(outgoing') : ~outgoing'[i].notify => outgoing'[i].left > 0
    <3>1. CASE call.left > 0
      <4>1. outgoing' = [outgoing EXCEPT ![1] = Notified(call)]
        BY <1>13, <2>4, <3>1 DEF Notify
      <4>2. Notified(call) \in Calls /\ Notified(call).left > 0
        BY <2>4, <3>1, CallProgress
      <4> QED
        BY <2>3, <4>1, <4>2, FirstReplaced
    <3>2. CASE ~(call.left > 0)
      <4>1. outgoing' = Tail(outgoing)
        BY <1>13, <2>4, <3>2 DEF Notify
      <4> QED
        BY <2>3, <4>1, RestKept
    <3> QED
      BY <3>1, <3>2
  <2>6. event' \in BOOLEAN
    BY <1>13 DEF Notify
  <2> QED
    BY <2>1, <2>2, <2>5, <2>6, <1>13 DEF Notify
<1>14. CASE \E m \in AppMessages : AppSend(m)
  <2>1. PICK m \in AppMessages : AppSend(m)
    BY <1>14
  <2>2. /\ outgoing' \in Seq(Calls) /\ attempt' \in [Messages -> Nat]
        /\ \A i \in 1 .. Len(outgoing') : ~outgoing'[i].notify => outgoing'[i].left > 0
    BY <2>1, AttemptMade DEF AppSend
  <2> QED
    BY <2>1, <2>2 DEF AppSend
<1>22. CASE PageFails
  <2> DEFINE call == outgoing[1]
  <2>1. outgoing # <<>> /\ ~Head(outgoing).notify
    BY <1>22 DEF PageFails
  <2>2. 1 \in 1 .. Len(outgoing) /\ Head(outgoing) = call /\ call \in Calls
    BY <2>1, FirstCall
  <2>3. Published(call) \in Calls /\ Published(call).notify
    BY <2>1, <2>2, CallProgress
  <2>4. outgoing' = outgoing \/ outgoing' = [outgoing EXCEPT ![1] = Published(call)]
    BY <1>22 DEF PageFails
  <2>5. /\ outgoing' \in Seq(Calls)
        /\ \A i \in 1 .. Len(outgoing') : ~outgoing'[i].notify => outgoing'[i].left > 0
    <3>1. CASE outgoing' = outgoing
      BY <3>1 DEF TypeOK, InHand
    <3>2. CASE outgoing' = [outgoing EXCEPT ![1] = Published(call)]
      BY <2>1, <2>3, <3>2, FirstReplaced
    <3> QED
      BY <2>4, <3>1, <3>2
  <2>6. buffer' \in Seq(PagesSent) /\ Len(buffer') <= BufferSize
    <3>1. Page(call) \in PagesSent
      BY <2>1, <2>2 DEF Calls, Page, PagesSent
    <3>2. \/ buffer' = buffer
          \/ Len(buffer) < BufferSize /\ buffer' = Append(buffer, Page(call))
      BY <1>22, <2>2 DEF PageFails
    <3>3. CASE buffer' = buffer
      BY <3>3 DEF TypeOK
    <3>4. CASE Len(buffer) < BufferSize /\ buffer' = Append(buffer, Page(call))
      BY <3>1, <3>4 DEF TypeOK
    <3> QED
      BY <3>2, <3>3, <3>4
  <2>7. failed' \subseteq Messages /\ failures' \in 0 .. MaxFailures
    BY <1>22, <2>2 DEF PageFails, Fails, Calls
  <2> QED
    BY <1>22, <2>5, <2>6, <2>7 DEF PageFails
<1>23. CASE NotifyFails
  <2>1. outgoing # <<>> /\ outgoing' = Tail(outgoing)
    BY <1>23 DEF NotifyFails
  <2>2. Head(outgoing) \in Calls
    BY <2>1, FirstCall
  <2>3. /\ outgoing' \in Seq(Calls)
        /\ \A i \in 1 .. Len(outgoing') : ~outgoing'[i].notify => outgoing'[i].left > 0
    BY <2>1
  <2>4. failed' \subseteq Messages /\ failures' \in 0 .. MaxFailures
    BY <1>23, <2>2 DEF NotifyFails, Fails, Calls
  <2> QED
    BY <1>23, <2>3, <2>4 DEF NotifyFails
<1>24. CASE \E m \in Messages : Retry(m)
  <2>1. PICK m \in Messages : Retry(m)
    BY <1>24
  <2>2. /\ outgoing' \in Seq(Calls) /\ attempt' \in [Messages -> Nat]
        /\ \A i \in 1 .. Len(outgoing') : ~outgoing'[i].notify => outgoing'[i].left > 0
    BY <2>1, AttemptMade DEF Retry
  <2> QED
    BY <2>1, <2>2 DEF Retry
<1>15. CASE \E c \in Clients : Connect(c)
  BY <1>15 DEF Connect
<1>16. CASE \E c \in Clients : ForwardFrame(c)
  BY <1>16 DEF ForwardFrame, Room
<1>17. CASE \E c \in Clients : WriteFrame(c)
  BY <1>17 DEF WriteFrame
<1>18. CASE \E c \in Clients : Disconnect(c)
  BY <1>18 DEF Disconnect
<1>19. CASE \E c \in Clients, f \in Frames : ReadFrame(c, f)
  BY <1>19 DEF ReadFrame
<1>20. CASE UNCHANGED vars
  BY <1>20 DEF vars, loop, waiting, sending, mesh, gateway
<1> QED
  BY <1>1, <1>2, <1>3, <1>4, <1>5, <1>6, <1>7, <1>8, <1>9, <1>10, <1>11, <1>12, <1>13, <1>14, <1>15, <1>16, <1>17, <1>18, <1>19, <1>20, <1>21, <1>22, <1>23, <1>24, <1>25, <1>26 DEF Next, Receive

\* The flag of the blocked mesh stands for one wait.
LEMMA BlockedStep == TypeOK /\ BlockedIsWaiting /\ [Next]_vars => BlockedIsWaiting'
<1> SUFFICES ASSUME TypeOK, BlockedIsWaiting, [Next]_vars PROVE BlockedIsWaiting'
  OBVIOUS
<1> USE DEF TypeOK, BlockedIsWaiting, loop, waiting, sending, mesh, gateway
<1>1. CASE Tick
  BY <1>1 DEF Tick
<1>2. CASE Begin
  <2>1. actor' = actor /\ returned' = 0 /\ (blocked' <=> blocked /\ returned = 0)
    BY <1>2 DEF Begin
  <2> QED
    BY <2>1
<1>3. CASE Skip
  BY <1>3 DEF Skip
<1>4. CASE AskNothing
  BY <1>4 DEF AskNothing
<1>5. CASE AskMesh
  BY <1>5 DEF AskMesh
<1>6. CASE AskGateway
  BY <1>6 DEF AskGateway
<1>7. CASE Forward
  BY <1>7 DEF Forward
<1>8. CASE Out
  BY <1>8 DEF Out
<1>9. CASE Wait
  BY <1>9 DEF Wait
<1>10. CASE Wake
  BY <1>10 DEF Wake
<1>11. CASE ActorReturn
  BY <1>11 DEF ActorReturn
<1>12. CASE SendPage
  BY <1>12 DEF SendPage
<1>13. CASE Notify
  BY <1>13 DEF Notify
<1>25. CASE AskGatewayPanics
  BY <1>25 DEF AskGatewayPanics
<1>26. CASE Refuse
  BY <1>26 DEF Refuse
<1>21. CASE AskFails
  BY <1>21 DEF AskFails
<1>22. CASE PageFails
  BY <1>22 DEF PageFails
<1>23. CASE NotifyFails
  BY <1>23 DEF NotifyFails
<1>24. CASE \E m \in Messages : Retry(m)
  BY <1>24 DEF Retry
<1>14. CASE \E m \in AppMessages : AppSend(m)
  BY <1>14 DEF AppSend
<1>15. CASE \E c \in Clients : Connect(c)
  BY <1>15 DEF Connect
<1>16. CASE \E c \in Clients : ForwardFrame(c)
  BY <1>16 DEF ForwardFrame
<1>17. CASE \E c \in Clients : WriteFrame(c)
  BY <1>17 DEF WriteFrame
<1>18. CASE \E c \in Clients : Disconnect(c)
  BY <1>18 DEF Disconnect
<1>19. CASE \E c \in Clients, f \in Frames : ReadFrame(c, f)
  BY <1>19 DEF ReadFrame
<1>20. CASE UNCHANGED vars
  BY <1>20 DEF vars, loop, waiting, sending, mesh, gateway
<1> QED
  BY <1>1, <1>2, <1>3, <1>4, <1>5, <1>6, <1>7, <1>8, <1>9, <1>10, <1>11, <1>12, <1>13, <1>14, <1>15, <1>16, <1>17, <1>18, <1>19, <1>20, <1>21, <1>22, <1>23, <1>24, <1>25, <1>26 DEF Next, Receive

\* A page that nobody is about to signal is noticed.
LEMMA NoticedStep == Inductive /\ [Next]_vars => Noticed'
<1> SUFFICES ASSUME TypeOK, InHand, BlockedIsWaiting, Noticed, [Next]_vars PROVE Noticed'
  BY DEF Inductive
<1> USE DEF TypeOK, BlockedIsWaiting, Noticed, Signalled, ToAsk, loop, waiting, sending, mesh, gateway
<1>1. CASE Tick
  BY <1>1 DEF Tick
<1>2. CASE Begin
  BY <1>2 DEF Begin
<1>3. CASE Skip
  BY <1>3 DEF Skip, Blocked
<1>4. CASE AskNothing
  BY <1>4 DEF AskNothing, PassTurn, Other, Blocked
<1>5. CASE AskMesh
  BY <1>5 DEF AskMesh, Blocked
<1>6. CASE AskGateway
  <2>1. inbox # <<>> /\ Attempt(Head(inbox))
    BY <1>6 DEF AskGateway
  <2>2. Head(inbox) \in Messages
    BY <2>1, FirstCall DEF Messages
  <2>3. event' = event /\ failed' = failed /\ (Signalled' <=> Signalled)
    BY <1>6, <2>1, <2>2, AttemptMade DEF AskGateway
  <2> QED
    BY <1>6, <2>3 DEF AskGateway
<1>7. CASE Forward
  BY <1>7 DEF Forward
<1>8. CASE Out
  BY <1>8 DEF Out
<1>9. CASE Wait
  BY <1>9 DEF Wait
<1>10. CASE Wake
  BY <1>10 DEF Wake
<1>11. CASE ActorReturn
  BY <1>11 DEF ActorReturn
<1>12. CASE SendPage
  <2>1. outgoing # <<>> /\ ~Head(outgoing).notify
    BY <1>12 DEF SendPage
  <2>2. 1 \in 1 .. Len(outgoing) /\ Head(outgoing) = outgoing[1] /\ outgoing[1] \in Calls
    BY <2>1, FirstCall
  <2>3. Published(outgoing[1]) \in Calls /\ Published(outgoing[1]).notify
    BY <2>1, <2>2, CallProgress DEF InHand
  <2>4. outgoing' = [outgoing EXCEPT ![1] = Published(outgoing[1])]
    BY <1>12 DEF SendPage
  <2> QED
    BY <2>1, <2>3, <2>4, FirstReplaced
<1>13. CASE Notify
  BY <1>13 DEF Notify
<1>14. CASE \E m \in AppMessages : AppSend(m)
  <2>1. PICK m \in AppMessages : AppSend(m)
    BY <1>14
  <2>2. m \in Messages /\ Attempt(m)
    BY <2>1 DEF AppSend, Messages
  <2>3. event' = event /\ failed' = failed /\ (Signalled' <=> Signalled)
    BY <2>1, <2>2, AttemptMade DEF AppSend
  <2> QED
    BY <2>1, <2>3 DEF AppSend
<1>25. CASE AskGatewayPanics
  BY <1>25 DEF AskGatewayPanics
<1>26. CASE Refuse
  BY <1>26 DEF Refuse
<1>21. CASE AskFails
  BY <1>21 DEF AskFails, Blocked
<1>22. CASE PageFails
  BY <1>22 DEF PageFails
<1>23. CASE NotifyFails
  BY <1>23 DEF NotifyFails
<1>24. CASE \E m \in Messages : Retry(m)
  BY <1>24 DEF Retry
<1>15. CASE \E c \in Clients : Connect(c)
  BY <1>15 DEF Connect
<1>16. CASE \E c \in Clients : ForwardFrame(c)
  BY <1>16 DEF ForwardFrame
<1>17. CASE \E c \in Clients : WriteFrame(c)
  BY <1>17 DEF WriteFrame
<1>18. CASE \E c \in Clients : Disconnect(c)
  BY <1>18 DEF Disconnect
<1>19. CASE \E c \in Clients, f \in Frames : ReadFrame(c, f)
  BY <1>19 DEF ReadFrame
<1>20. CASE UNCHANGED vars
  BY <1>20 DEF vars, loop, waiting, sending, mesh, gateway
<1> QED
  BY <1>1, <1>2, <1>3, <1>4, <1>5, <1>6, <1>7, <1>8, <1>9, <1>10, <1>11, <1>12, <1>13, <1>14, <1>15, <1>16, <1>17, <1>18, <1>19, <1>20, <1>21, <1>22, <1>23, <1>24, <1>25, <1>26 DEF Next, Receive

\* The invariant of the receive loop.
THEOREM Invariant == Spec => []Inductive
<1>1. Inductive /\ [Next]_vars => Inductive'
  BY TypeStep, BlockedStep, NoticedStep DEF Inductive
<1> QED
  BY InitInductive, <1>1, PTL DEF Spec

\* Every variable keeps its type, the channels and the buffer their bounds.
THEOREM TypeCorrect == Spec => []TypeOK
<1>1. Inductive => TypeOK
  BY DEF Inductive
<1> QED
  BY Invariant, <1>1, PTL

\* The mesh is blocked exactly while one wait is under way or unnoticed.
THEOREM OneWait == Spec => []BlockedIsWaiting
<1>1. Inductive => BlockedIsWaiting
  BY DEF Inductive
<1> QED
  BY Invariant, <1>1, PTL

\* The task does not sleep through a page.
THEOREM NoPageSleptThrough == Spec => []SleepsOnEmptyBuffer
<1>1. Inductive => SleepsOnEmptyBuffer
  BY DEF Inductive, TypeOK, BlockedIsWaiting, Noticed, ToAsk, SleepsOnEmptyBuffer
<1> QED
  BY Invariant, <1>1, PTL
============================================================================
