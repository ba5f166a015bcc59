---------------------------- MODULE ReceiveLoop ----------------------------
(***************************************************************************)
(* How a skycurrent process receives (combined.rs, ws_gateway.rs, iox2.rs, *)
(* tokio.rs).  One task calls recv_stream for ever.  It asks two backings: *)
(* the mesh (iceoryx2), by way of an actor thread, and the websocket       *)
(* gateway, by way of a channel.  What comes from the mesh goes to the     *)
(* clients of the gateway and to the queue; what comes from a client goes  *)
(* to the mesh and is delivered when its echo comes back.                  *)
(*                                                                         *)
(* Of iceoryx2 is modelled what this code and its configuration rely on: a *)
(* publisher blocks while the buffer of a subscriber is full, and an event *)
(* stays pending until the listener waits.  Of postage: a subscriber sees  *)
(* what is sent after it subscribed, and a sender waits for the slowest.   *)
(*                                                                         *)
(* Sending, notifying and receiving may fail, and a client may send what   *)
(* is no message, which ends the task.  Waits that fail, closing and       *)
(* initialisation are in Lifecycle.                                        *)
(***************************************************************************)
EXTENDS Integers, Sequences

CONSTANTS AppMessages,   \* what the application sends, each message once
          Frames,        \* what the websocket clients send, each frame once
          Long,          \* the messages that take two pages of the mesh
          Collected,     \* the messages whose header should_collect accepts
          Short,         \* the frames too short for the size of a header
          Refused,       \* the frames whose header send_stream refuses
          Clients,       \* the websocket clients
          BufferSize,    \* pages in the buffer of the subscriber, 10 in the code
          ChannelSize,   \* messages in each of the channels, 100 in the code
          MaxFailures,   \* bound: calls of iceoryx2 that fail
          None

Messages == AppMessages \union Frames

ASSUME ReceiveAssumption ==
  /\ AppMessages \intersect Frames = {} /\ None \notin Messages
  /\ Long \subseteq Messages /\ Collected \subseteq Messages
  /\ MaxFailures \in Nat
  /\ Short \subseteq Frames /\ Refused \subseteq Frames
  /\ BufferSize \in Nat \ {0} /\ ChannelSize \in Nat \ {0}

VARIABLES
  pc,        \* where the receiving task is, "ended" once it panicked
  current,   \* CURRENT_BACKING, None before the first call
  expired,   \* its 10 ms are over
  tries,     \* the backings this call of try_recv_stream has tried
  hand,      \* the message the task is forwarding
  merged,    \* MERGE_ALLOCS: the pages of long messages that lack the other one
  queue,     \* what was pushed to the link message queue
  blocked,   \* WAIT_STREAM_LOCKS, of the mesh
  returned,  \* the results in WAIT_STREAM_RECEIVER
  actor,     \* the receiving actor thread of the mesh: "idle", "waiting"
  event,     \* an event is pending at the listener
  buffer,    \* the pages in the buffer of the subscriber
  outgoing,  \* the calls at the sending actor thread, the first in progress
  sent,      \* the messages that were ever sent
  attempt,   \* the attempts at each, with an identification of its own
  failed,    \* the messages with a page or notification that failed, to be sent again
  failures,  \* how many calls have failed
  inbox,     \* the receiving channel of the gateway
  fresh,     \* the channel's subscriber in wait_stream has something
  handler,   \* the task of each client
  holding,   \* the frame it forwards
  outbox     \* its subscription to the broadcast channel

loop    == <<pc, current, expired, tries, hand, merged, queue>>
waiting == <<blocked, returned, actor>>
sending == <<outgoing, attempt, failed, failures>>
mesh    == <<event, buffer, sending, sent>>
gateway == <<inbox, fresh, handler, holding, outbox>>
vars    == <<loop, waiting, mesh, gateway>>

Backings == {"iox2", "ws"}
Pages(m) == IF m \in Long THEN 2 ELSE 1

\* A call of send_stream: the pages it has left, and whether it has published
\* one without having notified yet.
Calls == [msg : Messages, left : 0 .. 2, notify : BOOLEAN]
Published(call) == [msg |-> call.msg, left |-> call.left - 1, notify |-> TRUE]
Notified(call) == [call EXCEPT !.notify = FALSE]

\* A page on the mesh; the first of two has left = 2, the last page left = 1.
PagesSent == [msg : Messages, attempt : Nat, left : 1 .. 2]
Page(call) == [msg |-> call.msg, attempt |-> attempt[call.msg], left |-> call.left]
Rest(page) == [page EXCEPT !.left = 3 - @]

Room(channel) == Len(channel) < ChannelSize

TypeOK ==
  /\ pc \in {"begin", "ask", "forward", "sending", "out", "wait", "ended"}
  /\ current \in Backings \union {None} /\ expired \in BOOLEAN /\ tries \in 0 .. 2
  /\ hand \in Messages \union {None} /\ merged \subseteq PagesSent
  /\ queue \in Seq(Messages)
  /\ blocked \in BOOLEAN /\ returned \in 0 .. 1 /\ actor \in {"idle", "waiting"}
  /\ event \in BOOLEAN
  /\ buffer \in Seq(PagesSent) /\ Len(buffer) <= BufferSize
  /\ outgoing \in Seq(Calls)
  /\ sent \subseteq Messages
  /\ attempt \in [Messages -> Nat] /\ failed \subseteq Messages /\ failures \in 0 .. MaxFailures
  /\ inbox \in Seq(Frames) /\ Len(inbox) <= ChannelSize /\ fresh \in BOOLEAN
  /\ handler \in [Clients -> {"off", "select", "send"}]
  /\ holding \in [Clients -> Frames \union {None}]
  /\ outbox \in [Clients -> Seq(Messages)]
  /\ \A c \in Clients : Len(outbox[c]) <= ChannelSize

Init ==
  /\ pc = "begin" /\ current = None /\ expired = FALSE /\ tries = 0
  /\ hand = None /\ merged = {} /\ queue = <<>>
  /\ blocked = FALSE /\ returned = 0 /\ actor = "idle"
  /\ event = FALSE /\ buffer = <<>> /\ outgoing = <<>> /\ sent = {}
  /\ attempt = [m \in Messages |-> 0] /\ failed = {} /\ failures = 0
  /\ inbox = <<>> /\ fresh = FALSE
  /\ handler = [c \in Clients |-> "off"]
  /\ holding = [c \in Clients |-> None]
  /\ outbox = [c \in Clients |-> <<>>]

-----------------------------------------------------------------------------
(* The receiving task. *)

Other(backing) == IF backing = "iox2" THEN "ws" ELSE "iox2"

\* The turn goes to the other backing, with 10 ms of its own.
PassTurn == current' = Other(current) /\ expired' = FALSE

\* 10 ms pass.
Tick ==
  /\ current # None /\ ~expired
  /\ expired' = TRUE
  /\ UNCHANGED <<pc, current, tries, hand, merged, queue, waiting, mesh, gateway>>

\* try_recv_stream begins: whose turn it is, and what wait_stream returned.
Begin ==
  /\ pc = "begin"
  /\ pc' = "ask" /\ tries' = 0
  /\ IF current = None \/ expired THEN PassTurn ELSE UNCHANGED <<current, expired>>
  /\ blocked' = (blocked /\ returned = 0)
  /\ returned' = 0
  /\ UNCHANGED <<hand, merged, queue, actor, mesh, gateway>>

\* Mutant: a backing that waits is asked as well.
Blocked_Never == FALSE

Blocked == current = "iox2" /\ blocked

\* A backing that is blocked is not asked; it keeps its turn.
Skip ==
  /\ pc = "ask" /\ tries < 2
  /\ Blocked
  /\ tries' = tries + 1
  /\ UNCHANGED <<pc, current, expired, hand, merged, queue, waiting, mesh, gateway>>

\* A backing that has nothing loses its turn.
AskNothing ==
  /\ pc = "ask" /\ tries < 2
  /\ \/ current = "iox2" /\ ~Blocked /\ actor = "idle" /\ buffer = <<>>
     \/ current = "ws" /\ inbox = <<>>
  /\ tries' = tries + 1
  /\ PassTurn
  /\ UNCHANGED <<pc, hand, merged, queue, waiting, mesh, gateway>>

\* The mesh has a page: it is passed over, merged, or completes its message.
AskMesh ==
  /\ pc = "ask" /\ tries < 2
  /\ current = "iox2" /\ ~Blocked /\ actor = "idle" /\ buffer # <<>>
  /\ LET page  == Head(buffer)
         taken == page.msg \in Collected
         whole == page.msg \notin Long \/ Rest(page) \in merged
     IN  IF taken /\ whole
           THEN pc' = "forward" /\ merged' = merged \ {Rest(page)} /\ hand' = page.msg
           ELSE /\ pc' = "begin" /\ UNCHANGED hand
                /\ merged' = IF taken THEN merged \union {page} ELSE merged
  /\ buffer' = Tail(buffer)
  /\ UNCHANGED <<current, expired, tries, queue, waiting, event, sending, sent, gateway>>

Fails == failures < MaxFailures /\ failures' = failures + 1

\* Receiving fails: try_recv_stream returns, and the task calls it again.
AskFails ==
  /\ pc = "ask" /\ tries < 2
  /\ current = "iox2" /\ ~Blocked /\ actor = "idle"
  /\ Fails
  /\ pc' = "begin"
  /\ UNCHANGED <<current, expired, tries, hand, merged, queue, waiting, event, buffer,
                 outgoing, attempt, failed, sent, gateway>>

\* An attempt at sending is queued at the sending thread.
Attempt(m) ==
  /\ outgoing' = Append(outgoing, [msg |-> m, left |-> Pages(m), notify |-> FALSE])
  /\ attempt' = [attempt EXCEPT ![m] = @ + 1]

\* The gateway has a frame: it is sent to the mesh while the task waits.
AskGateway ==
  /\ pc = "ask" /\ tries < 2
  /\ current = "ws" /\ inbox # <<>> /\ Head(inbox) \notin Short
  /\ pc' = "sending" /\ hand' = Head(inbox)
  /\ inbox' = Tail(inbox)
  /\ Attempt(Head(inbox))
  /\ UNCHANGED <<current, expired, tries, merged, queue, waiting, event, buffer, failed, failures,
                 sent, fresh, handler, holding, outbox>>

\* The frame does not have the eight bytes that are cut off: the task panics.
AskGatewayPanics ==
  /\ pc = "ask" /\ tries < 2
  /\ current = "ws" /\ inbox # <<>> /\ Head(inbox) \in Short
  /\ pc' = "ended"
  /\ inbox' = Tail(inbox)
  /\ UNCHANGED <<current, expired, tries, hand, merged, queue, waiting, mesh,
                 fresh, handler, holding, outbox>>

Connected == {c \in Clients : handler[c] # "off"}

\* send_copy waits for room with every client; then the message is pushed.
Forward ==
  /\ pc = "forward"
  /\ \A c \in Connected : Room(outbox[c])
  /\ outbox' = [c \in Clients |-> IF c \in Connected THEN Append(outbox[c], hand) ELSE outbox[c]]
  /\ queue' = Append(queue, hand)
  /\ pc' = "begin" /\ hand' = None
  /\ UNCHANGED <<current, expired, tries, merged, waiting, mesh, inbox, fresh, handler, holding>>

Out ==
  /\ pc = "ask" /\ tries = 2
  /\ pc' = "out"
  /\ UNCHANGED <<current, expired, tries, hand, merged, queue, waiting, mesh, gateway>>

\* Mutant: the events so far are cleared before the wait.
Wait_ClearsEvents ==
  /\ pc = "out"
  /\ pc' = "wait"
  /\ blocked' = TRUE
  /\ actor' = IF blocked THEN actor ELSE "waiting"
  /\ event' = FALSE
  /\ fresh' = FALSE
  /\ UNCHANGED <<current, expired, tries, hand, merged, queue, returned, buffer, sending, sent,
                 inbox, handler, holding, outbox>>

\* The future of wait_stream is polled for the first time: it asks the mesh to
\* wait unless it does so already, and only now subscribes to the gateway.
Wait ==
  /\ pc = "out"
  /\ pc' = "wait"
  /\ blocked' = TRUE
  /\ actor' = IF blocked THEN actor ELSE "waiting"
  /\ fresh' = FALSE
  /\ UNCHANGED <<current, expired, tries, hand, merged, queue, returned, mesh,
                 inbox, handler, holding, outbox>>

\* Mutant: a frame, too, takes back the flag of the mesh.
Wake_Unblocks ==
  /\ pc = "wait"
  /\ returned > 0 \/ fresh
  /\ pc' = "begin"
  /\ blocked' = FALSE
  /\ returned' = 0 /\ fresh' = FALSE
  /\ UNCHANGED <<current, expired, tries, hand, merged, queue, actor, mesh,
                 inbox, handler, holding, outbox>>

\* wait_stream returns with a result of the mesh, or with a frame.
Wake ==
  /\ pc = "wait"
  /\ \/ returned > 0 /\ returned' = 0 /\ blocked' = FALSE
     \/ fresh /\ UNCHANGED <<returned, blocked>>
  /\ pc' = "begin"
  /\ fresh' = FALSE
  /\ UNCHANGED <<current, expired, tries, hand, merged, queue, actor, mesh,
                 inbox, handler, holding, outbox>>

-----------------------------------------------------------------------------
(* The actor threads of the mesh. *)

\* blocking_wait_all returns and takes all events.
ActorReturn ==
  /\ actor = "waiting" /\ event
  /\ actor' = "idle" /\ event' = FALSE
  /\ returned' = returned + 1
  /\ UNCHANGED <<loop, blocked, buffer, sending, sent, gateway>>

\* The application calls send_stream.
AppSend(m) ==
  /\ m \notin sent
  /\ sent' = sent \union {m}
  /\ Attempt(m)
  /\ UNCHANGED <<loop, waiting, event, buffer, failed, failures, gateway>>

\* The first call publishes a page ...
SendPage ==
  /\ outgoing # <<>> /\ ~Head(outgoing).notify /\ Head(outgoing).msg \notin Refused
  /\ Len(buffer) < BufferSize
  /\ buffer' = Append(buffer, Page(Head(outgoing)))
  /\ outgoing' = [outgoing EXCEPT ![1] = Published(@)]
  /\ failed' = failed \ {Head(outgoing).msg}
  /\ UNCHANGED <<loop, waiting, event, attempt, failures, sent, gateway>>

\* ... or fails to, though the page may have come here; one of several is sent
\* again by the same call, while the only one is notified and the call fails.
PageFails ==
  /\ outgoing # <<>> /\ ~Head(outgoing).notify /\ Head(outgoing).msg \notin Refused
  /\ Fails
  /\ \/ UNCHANGED buffer
     \/ Len(buffer) < BufferSize /\ buffer' = Append(buffer, Page(Head(outgoing)))
  /\ outgoing' = IF Head(outgoing).msg \in Long THEN outgoing ELSE [outgoing EXCEPT ![1] = Published(@)]
  /\ failed' = failed \union {Head(outgoing).msg}
  /\ UNCHANGED <<loop, waiting, event, attempt, sent, gateway>>

\* ... and notifies; after its last page it returns to its caller.
Notify ==
  /\ outgoing # <<>> /\ Head(outgoing).notify
  /\ event' = TRUE
  /\ IF Head(outgoing).left > 0
       THEN outgoing' = [outgoing EXCEPT ![1] = Notified(@)] /\ UNCHANGED <<pc, hand>>
       ELSE /\ outgoing' = Tail(outgoing)
            /\ IF Head(outgoing).msg = hand /\ pc = "sending" /\ hand \notin failed
                 THEN pc' = "begin" /\ hand' = None
                 ELSE UNCHANGED <<pc, hand>>
  /\ UNCHANGED <<current, expired, tries, merged, queue, waiting, buffer, attempt, failed, failures,
                 sent, gateway>>

\* Mutant: a call that could not notify counts as done.
NotifyFails_GivesUp ==
  /\ outgoing # <<>> /\ Head(outgoing).notify
  /\ Fails
  /\ outgoing' = Tail(outgoing)
  /\ UNCHANGED <<loop, waiting, event, buffer, attempt, failed, sent, gateway>>

NotifyFails ==
  /\ outgoing # <<>> /\ Head(outgoing).notify
  /\ Fails
  /\ outgoing' = Tail(outgoing)
  /\ failed' = failed \union {Head(outgoing).msg}
  /\ UNCHANGED <<loop, waiting, event, buffer, attempt, sent, gateway>>

\* A header that send_stream does not accept: the error is none of those after
\* which the task tries again, and it panics.
Refuse ==
  /\ outgoing # <<>> /\ Head(outgoing).msg \in Refused
  /\ outgoing' = Tail(outgoing)
  /\ pc' = "ended" /\ hand' = None
  /\ UNCHANGED <<current, expired, tries, merged, queue, waiting, event, buffer, attempt, failed,
                 failures, sent, gateway>>

\* 100 ms after its call failed a message is sent again, by the application's
\* thread or the task.
Retry(m) ==
  /\ m \in failed /\ \A i \in DOMAIN outgoing : outgoing[i].msg # m
  /\ Attempt(m)
  /\ UNCHANGED <<loop, waiting, event, buffer, failed, failures, sent, gateway>>

-----------------------------------------------------------------------------
(* The clients of the gateway. *)

\* A new client subscribes; a broadcast in progress has the channel locked.
Connect(c) ==
  /\ handler[c] = "off" /\ pc # "forward"
  /\ handler' = [handler EXCEPT ![c] = "select"]
  /\ UNCHANGED <<loop, waiting, mesh, inbox, fresh, holding, outbox>>

ReadFrame(c, f) ==
  /\ handler[c] = "select" /\ f \notin sent
  /\ handler' = [handler EXCEPT ![c] = "send"]
  /\ holding' = [holding EXCEPT ![c] = f]
  /\ sent' = sent \union {f}
  /\ UNCHANGED <<loop, waiting, event, buffer, sending, inbox, fresh, outbox>>

\* The frame goes into the receiving channel, and to its subscriber.
ForwardFrame(c) ==
  /\ handler[c] = "send" /\ Room(inbox)
  /\ handler' = [handler EXCEPT ![c] = "select"]
  /\ holding' = [holding EXCEPT ![c] = None]
  /\ inbox' = Append(inbox, holding[c])
  /\ fresh' = (pc = "wait")
  /\ UNCHANGED <<loop, waiting, mesh, outbox>>

WriteFrame(c) ==
  /\ handler[c] = "select" /\ outbox[c] # <<>>
  /\ outbox' = [outbox EXCEPT ![c] = Tail(@)]
  /\ UNCHANGED <<loop, waiting, mesh, inbox, fresh, handler, holding>>

Disconnect(c) ==
  /\ handler[c] = "select"
  /\ handler' = [handler EXCEPT ![c] = "off"]
  /\ outbox' = [outbox EXCEPT ![c] = <<>>]
  /\ UNCHANGED <<loop, waiting, mesh, inbox, fresh, holding>>

-----------------------------------------------------------------------------

Receive ==
  \/ Begin \/ Skip \/ AskNothing \/ AskMesh \/ AskFails \/ AskGateway \/ AskGatewayPanics
  \/ Forward \/ Out \/ Wait \/ Wake

Next ==
  \/ Tick \/ Receive \/ ActorReturn \/ SendPage \/ PageFails \/ Notify \/ NotifyFails \/ Refuse
  \/ \E m \in Messages : Retry(m)
  \/ \E m \in AppMessages : AppSend(m)
  \/ \E c \in Clients : \/ Connect(c) \/ ForwardFrame(c) \/ WriteFrame(c) \/ Disconnect(c)
                        \/ \E f \in Frames : ReadFrame(c, f)

Spec == Init /\ [][Next]_vars

\* Time passes, the task and the threads go on while they can, clients take what
\* is written to them, and who failed to send tries again.  Nobody else has to
\* send anything.
Fairness ==
  /\ WF_vars(Tick) /\ WF_vars(Receive)
  /\ WF_vars(ActorReturn) /\ WF_vars(SendPage) /\ WF_vars(Notify) /\ WF_vars(Refuse)
  /\ \A m \in Messages : WF_vars(Retry(m))
  /\ \A c \in Clients : WF_vars(ForwardFrame(c)) /\ SF_vars(WriteFrame(c))

FairSpec == Spec /\ Fairness

-----------------------------------------------------------------------------

\* "IMPORTANT: Make sure to not do try_recv_stream if this backing is currently
\* blocked on wait_stream": the flag stands for one wait, under way or returned
\* and not yet noticed, whatever the order in which waits and frames return.
BlockedIsWaiting ==
  /\ blocked <=> (actor = "waiting" \/ returned > 0)
  /\ ~(actor = "waiting" /\ returned > 0)

\* The listener is notified, or is about to be, or a sender that failed is to
\* send again.
Signalled == event \/ (outgoing # <<>> /\ Head(outgoing).notify) \/ failed # {}

\* The task does not sleep through a page: when it sleeps and nothing is about
\* to wake it, every published page was received.
SleepsOnEmptyBuffer == pc = "wait" /\ returned = 0 /\ ~Signalled => buffer = <<>>

\* A client sent what is no message, and the task is no more.
Ended == pc = "ended" /\ sent \intersect (Short \union Refused) # {}

\* The task waits for the sending thread, which has to publish a page before it
\* comes to answer, in a buffer that only the task empties.
EchoBlocked ==
  /\ pc = "sending" /\ Len(buffer) = BufferSize
  /\ \/ hand \in failed
     \/ \E i, j \in DOMAIN outgoing :
          i <= j /\ outgoing[i].left > 0 /\ outgoing[i].msg \notin Refused /\ outgoing[j].msg = hand

\* The task waits for room with a client that waits for room with the task.
Circle ==
  /\ pc = "forward" /\ ~Room(inbox)
  /\ \E c \in Connected : handler[c] = "send" /\ ~Room(outbox[c])

\* What was published is received and pushed to the queue if it is collected,
\* whoever else sends and whatever call failed meanwhile, unless the task ended
\* or blocks itself in one of these two ways.
MeshDelivers ==
  \A m \in AppMessages \intersect Collected :
     (\E i \in DOMAIN buffer : buffer[i].msg = m)
       ~> (\E i \in DOMAIN queue : queue[i] = m) \/ Ended \/ EchoBlocked \/ Circle

\* Each call of try_recv_stream returns, unless it panics or blocks in one of
\* these two ways.
TryReturns ==
  pc \in {"ask", "forward", "sending"} ~> pc \in {"begin", "out"} \/ Ended \/ EchoBlocked \/ Circle

\* "This function never blocks": each call of try_recv_stream comes to its end.
NeverBlocks == pc \in {"ask", "forward", "sending"} ~> pc \in {"begin", "out", "ended"}

\* "Wait until new item is available": no frame stays in the channel for ever.
FramesAreFetched ==
  \A f \in Frames : (\E i \in DOMAIN inbox : inbox[i] = f) ~> (\A i \in DOMAIN inbox : inbox[i] # f)
=============================================================================
