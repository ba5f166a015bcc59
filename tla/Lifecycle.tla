------------------------------ MODULE Lifecycle ------------------------------
(***************************************************************************)
(* Initialisation and closing (init and close of combined.rs, init of      *)
(* tokio.rs): an application that starts and stops the library and sends   *)
(* with it, the actor threads of iceoryx2 that each attempt at init        *)
(* starts, and the receive task that each init starts and nothing joins.   *)
(*                                                                         *)
(* An attempt's number names its threads, its channel for the results of   *)
(* wait_stream and its task.  Pages are counted, since they fill the       *)
(* buffers that senders wait for; what is received is in ReceiveLoop.      *)
(***************************************************************************)
EXTENDS Integers, Sequences, FiniteSets

CONSTANTS MaxAttempts,   \* bound: attempts at init
          MaxPages,      \* bound: pages of a message
          BufferSize,    \* pages that a subscriber's buffer holds
          Scenarios,     \* sets of what else may happen: see below
          None

\* "one_thread": the runtime runs tasks only while the application awaits;
\* "own_runtime": close may also drop the runtime (sc_close);
\* "early": init while the last receive task is still there;
\* "unclosed": init again, with no close at all; "wait_fails": wait_stream fails;
\* "deno": should_collect runs on the application's thread, between its calls.
ASSUME LifecycleAssumption ==
  /\ MaxAttempts \in Nat /\ MaxPages \in Nat \ {0} /\ BufferSize \in Nat \ {0}
  /\ Scenarios \subseteq
       SUBSET {"one_thread", "own_runtime", "early", "unclosed", "wait_fails", "deno"}
  /\ None \notin Nat

Attempts == 1 .. MaxAttempts

VARIABLES
  liberties,  \* the scenario, which never changes
  app,        \* where the application is
  toSend,     \* the pages it still has to send
  attempt,    \* the last attempt at init
  started,    \* history: the attempt whose init returned and was not closed
  receiver,   \* WAIT_STREAM_RECEIVER: the attempt it is of
  recvTx,     \* IOX2_RECV_SENDER_TX, likewise
  sendTx,     \* IOX2_SEND_SENDER_TX
  joinR,      \* IOX2_RECV_THREAD_JOIN_HANDLE
  joinS,      \* IOX2_SEND_THREAD_JOIN_HANDLE
  blocked,    \* WAIT_STREAM_LOCKS[Iox2]
  gateway,    \* "unset"; once set, whether its accepting task lives
  recv,       \* the receiving thread of each attempt
  queue,      \* the calls sent to it
  event,      \* its listener has something to report
  pages,      \* the pages in its subscriber's buffer
  results,    \* the results of wait_stream it sent
  send,       \* the sending thread of each attempt
  task,       \* the receive task of each attempt
  answer,     \* what its try_recv_stream was told
  failed      \* history: a wait_stream failed since the last close

globals == <<receiver, recvTx, sendTx, joinR, joinS, gateway>>
threads == <<recv, queue, event, pages, results, send>>
tasks   == <<task, answer>>
call    == <<app, toSend, attempt, started>>
aside   == <<toSend, failed>>
vars    == <<call, globals, blocked, threads, tasks, failed>>

\* Iox2BackingMessage, with the task that asks.
Call(c, g) == [call |-> c, by |-> g]

Alive(g) == task[g] \notin {"none", "ended"}

TypeOK ==
  /\ liberties \in Scenarios
  /\ app \in {"idle", "send", "receiver", "spawn", "recvTx", "sendTx", "gateway",
              "close", "take", "signal", "join", "closeSend", "reset", "forget", "turn", "shut"}
  /\ toSend \in 0 .. MaxPages
  /\ attempt \in 0 .. MaxAttempts
  /\ {started, receiver, recvTx, sendTx, joinR, joinS} \subseteq Attempts \union {None}
  /\ blocked \in BOOLEAN
  /\ gateway \in {"unset", "serves", "gone"}
  /\ recv \in [Attempts -> {"none", "idle", "collect", "waiting", "ended"}]
  /\ queue \in [Attempts -> Seq([call : {"try", "wait", "close"}, by : 0 .. MaxAttempts])]
  /\ event \in [Attempts -> BOOLEAN] /\ pages \in [Attempts -> 0 .. BufferSize]
  /\ results \in [Attempts -> Seq({"ok", "error"})]
  /\ send \in [Attempts -> {"none", "idle", "ended"}]
  /\ task \in [Attempts -> {"none", "try", "ask", "asked", "out", "lock", "await", "ended"}]
  /\ answer \in [Attempts -> {"none", "page", "empty"}]
  /\ failed \in BOOLEAN

Init ==
  /\ liberties \in Scenarios
  /\ app = "idle" /\ toSend = 0 /\ attempt = 0 /\ started = None /\ failed = FALSE
  /\ receiver = None /\ recvTx = None /\ sendTx = None /\ joinR = None /\ joinS = None
  /\ blocked = FALSE /\ gateway = "unset"
  /\ recv = [g \in Attempts |-> "none"] /\ send = [g \in Attempts |-> "none"]
  /\ queue = [g \in Attempts |-> <<>>] /\ results = [g \in Attempts |-> <<>>]
  /\ event = [g \in Attempts |-> FALSE] /\ pages = [g \in Attempts |-> 0]
  /\ task = [g \in Attempts |-> "none"] /\ answer = [g \in Attempts |-> "none"]

-----------------------------------------------------------------------------
(* Locks are held by tasks; the application's steps take and give them.    *)

ReceiverFree == \A g \in Attempts : task[g] # "await"
TurnFree     == \A g \in Attempts : task[g] \notin {"ask", "asked"}
RecvTxUnread == \A g \in Attempts : task[g] # "asked"

\* With one thread, the application runs only between the tasks' awaits.
AtAwaits == "one_thread" \in liberties => \A g \in Attempts : task[g] \in {"none", "try", "await", "ended"}
MayRun   == "one_thread" \in liberties => app = "idle"

Do(from, to) == app = from /\ app' = to

\* An attempt's part of init that may fail and is tried again 3 s later.
MayFail == app' = "receiver" => attempt < MaxAttempts

-----------------------------------------------------------------------------
(* init *)

BeginInit ==
  /\ Do("idle", "receiver") /\ AtAwaits
  /\ attempt < MaxAttempts
  /\ started # None => "unclosed" \in liberties
  /\ (\E g \in Attempts : Alive(g)) => "early" \in liberties \/ started # None
  /\ UNCHANGED <<attempt, started, globals, blocked, threads, tasks, aside>>

\* The channel for wait_stream's results.
StoreReceiver ==
  /\ Do("receiver", "spawn")
  /\ ReceiverFree
  /\ attempt' = attempt + 1
  /\ receiver' = attempt + 1
  /\ UNCHANGED <<started, recvTx, sendTx, joinR, joinS, gateway, blocked, threads, tasks, aside>>

\* The receiving thread, its handle, and the answer to its Init.
SpawnRecv ==
  /\ \E to \in {"recvTx", "receiver"} : Do("spawn", to)
  /\ MayFail
  /\ recv' = [recv EXCEPT ![attempt] = "idle"]
  /\ joinR' = attempt
  /\ UNCHANGED <<attempt, started, receiver, recvTx, sendTx, joinS, gateway, blocked, queue, event, pages, results, send, tasks, aside>>

\* Its sender, and the same for the sending thread.
StoreRecvTx ==
  /\ \E to \in {"sendTx", "receiver"} : Do("recvTx", to)
  /\ MayFail
  /\ RecvTxUnread
  /\ recvTx' = attempt
  /\ send' = [send EXCEPT ![attempt] = "idle"]
  /\ joinS' = attempt
  /\ UNCHANGED <<attempt, started, receiver, sendTx, joinR, gateway, blocked, recv, queue, event, pages, results, tasks, aside>>

StoreSendTx ==
  /\ Do("sendTx", "gateway")
  /\ sendTx' = attempt
  /\ UNCHANGED <<attempt, started, receiver, recvTx, joinR, joinS, gateway, blocked, threads, tasks, aside>>

\* Mutant: the channel is set before the port is bound.
SetGateway_SetsFirst ==
  /\ \E to \in {"idle", "receiver"} : Do("gateway", to)
  /\ MayFail
  /\ app' = "receiver" => gateway = "unset"
  /\ IF app' = "receiver" THEN gateway' = "gone" /\ UNCHANGED <<started, task>> ELSE
       /\ gateway' = IF gateway = "unset" THEN "serves" ELSE gateway
       /\ task' = [task EXCEPT ![attempt] = "try"]
       /\ started' = attempt
  /\ UNCHANGED <<attempt, receiver, recvTx, sendTx, joinR, joinS, blocked, threads, answer, aside>>

\* The gateway is set up once; then the receive task is started.
SetGateway ==
  /\ \E to \in {"idle", "receiver"} : Do("gateway", to)
  /\ MayFail
  /\ app' = "receiver" => gateway = "unset"
  /\ IF app' = "receiver" THEN UNCHANGED <<started, gateway, task>> ELSE
       /\ gateway' = IF gateway = "unset" THEN "serves" ELSE gateway
       /\ task' = [task EXCEPT ![attempt] = "try"]
       /\ started' = attempt
  /\ UNCHANGED <<attempt, receiver, recvTx, sendTx, joinR, joinS, blocked, threads, answer, aside>>

-----------------------------------------------------------------------------
(* close *)

BeginClose ==
  /\ Do("idle", "close") /\ AtAwaits
  /\ "unclosed" \notin liberties
  /\ UNCHANGED <<attempt, started, globals, blocked, threads, tasks, aside>>

\* Close is sent to the receiving thread, if it is there and alive.
CloseRecv ==
  /\ Do("close", "take")
  /\ queue' = IF recvTx # None /\ recv[recvTx] # "ended" THEN [queue EXCEPT ![recvTx] = Append(@, Call("close", 0))] ELSE queue
  /\ UNCHANGED <<attempt, started, globals, blocked, recv, event, pages, results, send, tasks, aside>>

TakeRecvTx ==
  /\ Do("take", "signal")
  /\ RecvTxUnread
  /\ recvTx' = None
  /\ UNCHANGED <<attempt, started, receiver, sendTx, joinR, joinS, gateway, blocked, threads, tasks, aside>>

\* Mutant: no shutdown signal is sent.
Signal_Skipped ==
  /\ Do("signal", "join")
  /\ UNCHANGED <<attempt, started, globals, blocked, threads, tasks, aside>>

\* The shutdown signal is an event for every listener; a thread that already
\* ended or was never started is reported only.
Signal ==
  /\ Do("signal", "join")
  /\ event' = IF sendTx = None THEN event ELSE [g \in Attempts |-> event[g] \/ recv[g] \in {"idle", "collect", "waiting"}]
  /\ UNCHANGED <<attempt, started, globals, blocked, recv, queue, pages, results, send, tasks, aside>>

\* Mutant: the thread is not joined.
JoinRecv_DoesNotWait ==
  /\ Do("join", "closeSend")
  /\ joinR' = None
  /\ UNCHANGED <<attempt, started, receiver, recvTx, sendTx, joinS, gateway, blocked, threads, tasks, aside>>

JoinRecv ==
  /\ Do("join", "closeSend")
  /\ joinR # None => recv[joinR] = "ended"
  /\ joinR' = None
  /\ UNCHANGED <<attempt, started, receiver, recvTx, sendTx, joinS, gateway, blocked, threads, tasks, aside>>

\* The sending thread is told to close, and joined.
CloseSend ==
  /\ Do("closeSend", "reset")
  /\ send' = IF sendTx = None THEN send ELSE [send EXCEPT ![sendTx] = "ended"]
  /\ joinS # None => send'[joinS] = "ended"
  /\ sendTx' = None
  /\ joinS' = None
  /\ UNCHANGED <<attempt, started, receiver, recvTx, joinR, gateway, blocked, recv, queue, event, pages, results, tasks, aside>>

\* Mutant: the flags of the backings are not reset.
Reset_KeepsLocks ==
  /\ Do("reset", "forget")
  /\ UNCHANGED <<attempt, started, globals, blocked, threads, tasks, aside>>

Reset ==
  /\ Do("reset", "forget")
  /\ blocked' = FALSE
  /\ failed' = FALSE
  /\ UNCHANGED <<attempt, started, globals, threads, tasks, toSend>>

ForgetReceiver ==
  /\ Do("forget", "turn")
  /\ ReceiverFree
  /\ receiver' = None
  /\ UNCHANGED <<attempt, started, recvTx, sendTx, joinR, joinS, gateway, blocked, threads, tasks, aside>>

\* Whose turn it is starts anew; close returns.
ResetTurn ==
  /\ \/ Do("turn", "idle")
     \/ "own_runtime" \in liberties /\ Do("turn", "shut")
  /\ TurnFree
  /\ started' = None
  /\ UNCHANGED <<attempt, globals, blocked, threads, tasks, aside>>

\* sc_close drops the runtime, with the receive task and the gateway's.
ShutRuntime ==
  /\ Do("shut", "idle")
  /\ \A g \in Attempts : task[g] \in {"none", "try", "await", "ended"}
  /\ task' = [g \in Attempts |-> IF task[g] = "none" THEN "none" ELSE "ended"]
  /\ gateway' = IF gateway = "unset" THEN "unset" ELSE "gone"
  /\ UNCHANGED <<attempt, started, receiver, recvTx, sendTx, joinR, joinS, blocked, threads, answer, aside>>

-----------------------------------------------------------------------------
(* send_stream *)

\* The subscribers a page is sent to: whoever drains them.
Subscribed == {g \in Attempts : recv[g] \in {"idle", "collect", "waiting"}}

BeginSend ==
  /\ Do("idle", "send") /\ AtAwaits
  /\ started # None
  /\ toSend' \in 1 .. MaxPages
  /\ UNCHANGED <<attempt, started, globals, blocked, threads, tasks, failed>>

\* The sending thread sends one page and notifies; it waits for room in every
\* subscriber's buffer, and the application for it.
SendPage ==
  /\ app = "send" /\ toSend > 0
  /\ \A g \in Subscribed : pages[g] < BufferSize
  /\ pages' = [g \in Attempts |-> IF g \in Subscribed THEN pages[g] + 1 ELSE pages[g]]
  /\ event' = [g \in Attempts |-> event[g] \/ g \in Subscribed]
  /\ toSend' = toSend - 1
  /\ app' = IF toSend = 1 THEN "idle" ELSE "send"
  /\ UNCHANGED <<attempt, started, globals, blocked, recv, queue, results, send, tasks, failed>>

Calls ==
  \/ BeginInit \/ StoreReceiver \/ SpawnRecv \/ StoreRecvTx \/ StoreSendTx \/ SetGateway
  \/ BeginClose \/ CloseRecv \/ TakeRecvTx \/ Signal \/ JoinRecv \/ CloseSend
  \/ Reset \/ ForgetReceiver \/ ResetTurn \/ ShutRuntime
  \/ BeginSend \/ SendPage

-----------------------------------------------------------------------------
(* The actor threads. *)

\* A sender for its channel is still around.
Reachable(g) == recvTx = g \/ (app \in {"spawn", "recvTx"} /\ attempt = g)

\* try_recv_stream takes a page and asks should_collect about it.
TakeTry(g) ==
  LET by == Head(queue[g]).by IN
  \/ /\ pages[g] = 0
     /\ answer' = [answer EXCEPT ![by] = "empty"]
     /\ queue' = [queue EXCEPT ![g] = Tail(@)]
     /\ UNCHANGED <<recv, pages>>
  \/ /\ pages[g] > 0
     /\ pages' = [pages EXCEPT ![g] = @ - 1]
     /\ recv' = [recv EXCEPT ![g] = "collect"]
     /\ UNCHANGED <<answer, queue>>

\* What is queued behind a close is dropped.
TakeCall(g) ==
  /\ recv[g] = "idle" /\ queue[g] # <<>>
  /\ LET c == Head(queue[g]).call IN
     \/ c = "try" /\ TakeTry(g)
     \/ /\ c = "wait"
        /\ recv' = [recv EXCEPT ![g] = "waiting"]
        /\ queue' = [queue EXCEPT ![g] = Tail(@)]
        /\ UNCHANGED <<pages, answer>>
     \/ /\ c = "close"
        /\ recv' = [recv EXCEPT ![g] = "ended"]
        /\ queue' = [queue EXCEPT ![g] = <<>>]
        /\ pages' = [pages EXCEPT ![g] = 0]
        /\ UNCHANGED answer
  /\ UNCHANGED <<call, globals, blocked, event, results, send, task, failed>>

\* should_collect answers, whatever it answers: in Deno, on the event loop.
Collected(g) ==
  /\ recv[g] = "collect"
  /\ "deno" \in liberties => app = "idle"
  /\ recv' = [recv EXCEPT ![g] = "idle"]
  /\ answer' = [answer EXCEPT ![Head(queue[g]).by] = "page"]
  /\ queue' = [queue EXCEPT ![g] = Tail(@)]
  /\ UNCHANGED <<call, globals, blocked, event, pages, results, send, task, failed>>

\* With the receiver gone the result is lost.
Result(g, r) == results' = [results EXCEPT ![g] = IF receiver = g THEN Append(@, r) ELSE @]

\* wait_stream returns; nobody may be there to receive the result.
WaitReturns(g) ==
  /\ recv[g] = "waiting"
  /\ recv' = [recv EXCEPT ![g] = "idle"]
  /\ \/ event[g] /\ Result(g, "ok") /\ UNCHANGED failed
     \/ "wait_fails" \in liberties /\ Result(g, "error") /\ failed' = TRUE
  /\ event' = [event EXCEPT ![g] = FALSE]
  /\ UNCHANGED <<call, globals, blocked, queue, pages, send, tasks>>

\* All its senders were dropped.
RecvEnds(g) ==
  /\ recv[g] = "idle" /\ queue[g] = <<>> /\ ~Reachable(g)
  /\ recv' = [recv EXCEPT ![g] = "ended"]
  /\ pages' = [pages EXCEPT ![g] = 0]
  /\ UNCHANGED <<call, globals, blocked, queue, event, results, send, tasks, failed>>

SendEnds(g) ==
  /\ send[g] = "idle" /\ sendTx # g /\ ~(app = "sendTx" /\ attempt = g)
  /\ send' = [send EXCEPT ![g] = "ended"]
  /\ UNCHANGED <<call, globals, blocked, recv, queue, event, pages, results, tasks, failed>>

\* Another process sends a page, or only notifies, as close does.
Arrive(g) ==
  /\ g \in Subscribed
  /\ event' = [event EXCEPT ![g] = TRUE]
  /\ pages' \in {pages, [pages EXCEPT ![g] = IF @ < BufferSize THEN @ + 1 ELSE @]}
  /\ UNCHANGED <<call, globals, blocked, recv, queue, results, send, tasks, failed>>

-----------------------------------------------------------------------------
(* The receive task. *)

At(g, from) == MayRun /\ task[g] = from
Step(g, from, to) == MayRun /\ task[g] = from /\ task' = [task EXCEPT ![g] = to]

\* Mutant: the task tries again whatever the error.
Fails_TriesAgain(g, from) == Step(g, from, "try")
\* Nothing is initialised: the task panics.
Fails(g, from) == Step(g, from, "ended")

\* Mutant: the results are only taken.
HandleResults_OnlyTakes ==
  /\ UNCHANGED blocked
  /\ results' = [results EXCEPT ![receiver] = <<>>]

\* The first n results are handled: all, or those up to an error, which leaves
\* the flag alone and those behind it in the channel.
HandleResults ==
  LET r == results[receiver] IN
  \E n \in 0 .. Len(r) :
    /\ \A i \in 1 .. n - 1 : r[i] = "ok"
    /\ n < Len(r) => n > 0 /\ r[n] = "error"
    /\ blocked' = IF \E i \in 1 .. n : r[i] = "ok" THEN FALSE ELSE blocked
    /\ results' = [results EXCEPT ![receiver] = SubSeq(r, n + 1, Len(r))]

\* try_recv_stream drains the results if it gets the lock, and skips iceoryx2
\* while that waits.
Drain(g) ==
  /\ At(g, "try")
  /\ TurnFree
  /\ IF ReceiverFree /\ receiver = None THEN Fails(g, "try") /\ UNCHANGED <<blocked, results>>
     ELSE IF ReceiverFree
       THEN HandleResults /\ Step(g, "try", IF "error" \in {results[receiver][i] : i \in DOMAIN results[receiver]}
                                              THEN "try" ELSE IF blocked' THEN "out" ELSE "ask")
       ELSE Step(g, "try", IF blocked THEN "out" ELSE "ask") /\ UNCHANGED <<blocked, results>>
  /\ UNCHANGED <<call, globals, recv, queue, event, pages, send, answer, failed>>

\* The receiving thread is asked, and its sender kept locked for the answer.
Ask(g) ==
  /\ At(g, "ask")
  /\ IF recvTx = None \/ recv[recvTx] = "ended"
       THEN Fails(g, "ask") /\ UNCHANGED queue
       ELSE Step(g, "ask", "asked") /\ queue' = [queue EXCEPT ![recvTx] = Append(@, Call("try", g))]
  /\ answer' = [answer EXCEPT ![g] = "none"]
  /\ UNCHANGED <<call, globals, blocked, recv, event, pages, results, send, failed>>

Answered(g) ==
  /\ At(g, "asked")
  /\ \/ answer[g] = "page" /\ Step(g, "asked", "try")
     \/ answer[g] = "empty" /\ Step(g, "asked", "out")
     \/ answer[g] = "none" /\ recv[recvTx] = "ended" /\ Fails(g, "asked")
  /\ UNCHANGED <<call, globals, blocked, threads, answer, failed>>

\* wait_stream asks the receiving thread to wait, unless it does.
AskToWait(g) ==
  /\ At(g, "out")
  /\ IF blocked THEN Step(g, "out", "lock") /\ UNCHANGED <<blocked, queue>>
     ELSE IF recvTx = None \/ recv[recvTx] = "ended"
       THEN Fails(g, "out") /\ UNCHANGED <<blocked, queue>>
       ELSE /\ Step(g, "out", "lock")
            /\ blocked' = TRUE
            /\ queue' = [queue EXCEPT ![recvTx] = Append(@, Call("wait", g))]
  /\ UNCHANGED <<call, globals, recv, event, pages, results, send, answer, failed>>

LockReceiver(g) ==
  /\ ReceiverFree
  /\ IF receiver = None THEN Fails(g, "lock") ELSE Step(g, "lock", "await")
  /\ UNCHANGED <<call, globals, blocked, threads, answer, failed>>

\* A result, the end of the channel, or a frame of the gateway.
Initialising(g) == attempt = g /\ app \in {"spawn", "recvTx", "sendTx", "gateway"}
Closed(g) == recv[g] = "ended" /\ ~Initialising(g)

Woken(g) ==
  /\ Step(g, "await", "try")
  /\ \/ results[receiver] # <<>> /\ HandleResults
     \/ results[receiver] = <<>> /\ Closed(receiver) /\ UNCHANGED <<blocked, results>>
  /\ UNCHANGED <<call, globals, recv, queue, event, pages, send, answer, failed>>

Framed(g) ==
  /\ Step(g, "await", "try")
  /\ gateway = "serves"
  /\ UNCHANGED <<call, globals, blocked, threads, answer, failed>>

Runs(g) == Drain(g) \/ Ask(g) \/ Answered(g) \/ AskToWait(g) \/ LockReceiver(g) \/ Woken(g)

-----------------------------------------------------------------------------

Threads(g) == TakeCall(g) \/ Collected(g) \/ WaitReturns(g) \/ RecvEnds(g)

Next ==
  /\ \/ Calls
     \/ \E g \in Attempts : Threads(g) \/ SendEnds(g) \/ Arrive(g) \/ Runs(g) \/ Framed(g)
  /\ UNCHANGED liberties

Going == Calls /\ app # "idle"

Fairness ==
  /\ SF_vars(Going)
  /\ \A g \in Attempts :
       /\ WF_vars(TakeCall(g)) /\ WF_vars(Collected(g)) /\ WF_vars(WaitReturns(g)) /\ WF_vars(RecvEnds(g))
       /\ SF_vars(Runs(g))

Spec == Init /\ [][Next]_<<vars, liberties>>
FairSpec == Spec /\ Fairness

-----------------------------------------------------------------------------

\* What the comments and the README take for granted: an application with a
\* runtime of several threads closes before it initialises again, when the last
\* receive task is gone, and waits do not fail.
Expected == liberties \subseteq {"own_runtime"}

\* close, init and send_stream return then, whatever the task and the threads
\* are about to do.
CallsReturn == Expected => (app # "idle" ~> app = "idle")

\* They do in any case.
CloseReturns == app = "close" ~> app = "idle"
InitReturns  == app = "receiver" ~> app = "idle"
SendReturns  == app = "send" ~> app = "idle"

\* The application waits in a call, and nobody in this process can go on.
Hangs ==
  /\ app # "idle"
  /\ ~ENABLED Calls
  /\ \A g \in Attempts : ~ENABLED (Threads(g) \/ Runs(g))

\* What these steps wait for.
CallGoesOn ==
  \/ app \in {"spawn", "sendTx", "gateway", "close", "signal", "reset"}
  \/ app \in {"receiver", "forget"} /\ ReceiverFree
  \/ app \in {"recvTx", "take"} /\ RecvTxUnread
  \/ app = "join" /\ (joinR # None => recv[joinR] = "ended")
  \/ app = "closeSend" /\ (joinS # None => sendTx = joinS \/ send[joinS] = "ended")
  \/ app = "turn" /\ TurnFree
  \/ app = "shut" /\ \A g \in Attempts : task[g] \in {"none", "try", "await", "ended"}
  \/ app = "send" /\ toSend > 0 /\ \A g \in Subscribed : pages[g] < BufferSize

ThreadGoesOn(g) ==
  \/ recv[g] = "idle" /\ (queue[g] # <<>> \/ ~Reachable(g))
  \/ recv[g] = "collect" /\ ("deno" \in liberties => app = "idle")
  \/ recv[g] = "waiting" /\ (event[g] \/ "wait_fails" \in liberties)

TaskGoesOn(g) ==
  /\ MayRun
  /\ \/ task[g] = "try" /\ TurnFree
     \/ task[g] \in {"ask", "out"}
     \/ task[g] = "asked" /\ (answer[g] # "none" \/ recv[recvTx] = "ended")
     \/ task[g] = "lock" /\ ReceiverFree
     \/ task[g] = "await" /\ (results[receiver] # <<>> \/ Closed(receiver))

Stalls == app # "idle" /\ ~CallGoesOn /\ \A g \in Attempts : ~ThreadGoesOn(g) /\ ~TaskGoesOn(g)

\* The task would need the application's thread to run; should_collect would; a
\* wait failed, and the task does not ask for pages any more; there are two tasks;
\* or init finds the receiver locked by the task of an earlier one.
Excused ==
  \/ "one_thread" \in liberties /\ \E g \in Attempts : Alive(g)
  \/ "deno" \in liberties /\ \E g \in Attempts : recv[g] = "collect"
  \/ failed
  \/ \E g, h \in Attempts : g # h /\ Alive(g) /\ Alive(h)
  \/ app = "receiver" /\ \E g \in Attempts : task[g] = "await"

\* Otherwise a call hangs for one of these reasons only; and it hangs when it stalls.
HangsForAReason == (Hangs <=> Stalls) /\ (Stalls => Excused)

\* After close the receive task ends, unless the application starts anew.
TaskEnds ==
  Expected => (app = "forget" ~> (app = "receiver" \/ \A g \in Attempts : ~Alive(g)))

\* Once close has returned the threads of the last attempt have ended, and
\* no thread of any attempt is left waiting for events that are not at hand.
CloseIsFinal ==
  app = "idle" /\ started = None /\ attempt # 0 =>
    /\ recv[attempt] = "ended" /\ send[attempt] = "ended"
    /\ \A g \in Attempts : recv[g] = "waiting" => event[g]

\* iceoryx2 is taken to be waiting only if it is, or was and the result is at
\* hand: otherwise no page would be asked for again.  Also after a new init.
BlockedIsWaiting ==
  blocked /\ app = "idle" /\ started # None =>
    LET g == recvTx IN
    \/ recv[g] = "waiting" \/ results[g] # <<>>
    \/ \E i \in DOMAIN queue[g] : queue[g][i].call = "wait"

\* Only a wait that failed leaves it so, or an init that met the task of another.
BlockedForAReason ==
  failed \/ liberties \intersect {"early", "unclosed"} # {} \/ BlockedIsWaiting

\* One task at a time receives.
OneReceiver == \A g, h \in Attempts : Alive(g) /\ Alive(h) => g = h

\* Between init and close the gateway accepts clients.
GatewayServes == app = "idle" /\ started # None => gateway = "serves"

\* It does over failed attempts, close and init again, if the runtime stays.
GatewayGoesOn == "own_runtime" \in liberties \/ GatewayServes
=============================================================================
