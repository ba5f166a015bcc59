--------------------------- MODULE LifecycleProofs ---------------------------
(***************************************************************************)
(* For any number of attempts, pages and scenarios: what close leaves      *)
(* behind, what the flag of a waiting backing stands for, and why all that *)
(* a call waits for may stand still.                                       *)
(***************************************************************************)
EXTENDS Lifecycle, SequenceTheorems, TLAPS

CallsToThread == [call : {"try", "wait", "close"}, by : 0 .. MaxAttempts]
Queues        == Seq(CallsToThread)
Results       == Seq({"ok", "error"})

\* TypeOK, in parts that steps change together.
CallTypes ==
  /\ app \in {"idle", "send", "receiver", "spawn", "recvTx", "sendTx", "gateway",
              "close", "take", "signal", "join", "closeSend", "reset", "forget", "turn", "shut"}
  /\ toSend \in 0 .. MaxPages
  /\ attempt \in 0 .. MaxAttempts
  /\ {started, receiver, recvTx, sendTx, joinR, joinS} \subseteq Attempts \union {None}
  /\ gateway \in {"unset", "serves", "gone"}

ThreadTypes ==
  /\ recv \in [Attempts -> {"none", "idle", "collect", "waiting", "ended"}]
  /\ queue \in [Attempts -> Queues]
  /\ pages \in [Attempts -> 0 .. BufferSize]
  /\ results \in [Attempts -> Results]
  /\ send \in [Attempts -> {"none", "idle", "ended"}]

TaskTypes ==
  /\ task \in [Attempts -> {"none", "try", "ask", "asked", "out", "lock", "await", "ended"}]
  /\ answer \in [Attempts -> {"none", "page", "empty"}]

Flags == blocked \in BOOLEAN /\ event \in [Attempts -> BOOLEAN] /\ failed \in BOOLEAN

\* There is an attempt to make, or one that is being made.
Room ==
  /\ app = "receiver" => attempt < MaxAttempts
  /\ app \in {"spawn", "recvTx", "sendTx", "gateway"} => attempt # 0

\* A thread that asks should_collect was told to try.
Collecting ==
  \A g \in Attempts : recv[g] = "collect" => queue[g] # <<>> /\ Head(queue[g]).call = "try"

Typed ==
  CallTypes /\ ThreadTypes /\ TaskTypes /\ Flags /\ Room /\ Collecting /\ liberties \in Scenarios

\* The parts give the whole.
LEMMA TypedIsTypeOK == Typed => TypeOK
BY Zenon DEF Typed, CallTypes, ThreadTypes, TaskTypes, Flags, TypeOK, CallsToThread, Queues, Results

\* Queues as things of their own.
LEMMA QueueTypes ==
  /\ <<>> \in Queues /\ <<>> \in Results
  /\ \A q \in Queues : q # <<>> => Tail(q) \in Queues
  /\ \A q \in Queues : /\ Append(q, Call("close", 0)) \in Queues
                       /\ \A g \in Attempts : Append(q, Call("try", g)) \in Queues /\ Append(q, Call("wait", g)) \in Queues
  /\ \A r \in Results : Append(r, "ok") \in Results /\ Append(r, "error") \in Results
<1>1. ASSUME NEW q \in Queues, q # <<>> PROVE Tail(q) \in Queues
  BY <1>1, HeadTailProperties DEF Queues
<1>2. /\ Call("close", 0) \in CallsToThread
      /\ \A g \in Attempts : Call("try", g) \in CallsToThread /\ Call("wait", g) \in CallsToThread
  BY LifecycleAssumption DEF Call, CallsToThread, Attempts
<1>3. \A q \in Queues : \A c \in CallsToThread : Append(q, c) \in Queues
  BY DEF Queues
<1>4. \A r \in Results : \A x \in {"ok", "error"} : Append(r, x) \in Results
  BY DEF Results
<1>5. <<>> \in Queues /\ <<>> \in Results
  BY DEF Queues, Results
<1> QED
  BY <1>1, <1>2, <1>3, <1>4, <1>5

\* Initially nothing was started.
LEMMA InitTyped == Init => Typed
<1> SUFFICES ASSUME Init PROVE Typed
  OBVIOUS
<1>1. CallTypes /\ Room
  BY LifecycleAssumption DEF Init, CallTypes, Room
<1>2. ThreadTypes
  BY LifecycleAssumption, QueueTypes DEF Init, ThreadTypes
<1>3. TaskTypes
  BY DEF Init, TaskTypes
<1>4. Flags /\ liberties \in Scenarios
  BY Zenon DEF Init, Flags
<1>5. Collecting
  BY DEF Init, Collecting
<1> QED
  BY <1>1, <1>2, <1>3, <1>4, <1>5 DEF Typed

\* The application's steps keep its own types.
LEMMA CallTyped == Typed /\ Calls => CallTypes' /\ Room'
<1> SUFFICES ASSUME Typed, Calls PROVE CallTypes' /\ Room'
  OBVIOUS
<1> USE LifecycleAssumption DEF Typed, CallTypes, Room, Attempts, Do, aside
<1>1. CASE BeginInit \/ BeginClose \/ BeginSend
  BY <1>1 DEF BeginInit, BeginClose, BeginSend, globals
<1>2. CASE StoreReceiver \/ SpawnRecv \/ StoreRecvTx \/ StoreSendTx
  BY <1>2 DEF StoreReceiver, SpawnRecv, StoreRecvTx, StoreSendTx, MayFail
<1>3. CASE SetGateway
  BY <1>3 DEF SetGateway, MayFail
<1>4. CASE CloseRecv \/ TakeRecvTx \/ Signal \/ JoinRecv \/ CloseSend
  BY <1>4 DEF CloseRecv, TakeRecvTx, Signal, JoinRecv, CloseSend, globals
<1>5. CASE Reset \/ ForgetReceiver \/ ResetTurn \/ ShutRuntime
  BY <1>5 DEF Reset, ForgetReceiver, ResetTurn, ShutRuntime, globals
<1>6. CASE SendPage
  BY <1>6 DEF SendPage, globals
<1> QED
  BY <1>1, <1>2, <1>3, <1>4, <1>5, <1>6 DEF Calls

\* The other steps leave the application where it is.
LEMMA OthersTyped ==
  ASSUME Typed, NEW g \in Attempts,
         Threads(g) \/ SendEnds(g) \/ Arrive(g) \/ Runs(g) \/ Framed(g)
  PROVE  CallTypes' /\ Room'
<1>1. UNCHANGED <<call, globals>>
  <2>1. CASE Threads(g) \/ SendEnds(g) \/ Arrive(g)
    BY <2>1 DEF Threads, TakeCall, Collected, WaitReturns, RecvEnds, SendEnds, Arrive
  <2>2. CASE Runs(g) \/ Framed(g)
    BY <2>2 DEF Runs, Drain, Ask, Answered, AskToWait, LockReceiver, Woken, Framed
  <2> QED
    BY <2>1, <2>2
<1> QED
  BY <1>1 DEF Typed, CallTypes, Room, call, globals

\* What is left of the results are results.
LEMMA HandledTypes ==
  ASSUME results \in [Attempts -> Results], HandleResults
  PROVE  results' \in [Attempts -> Results]
<1> DEFINE r == results[receiver]
<1>1. PICK n \in 0 .. Len(r) : results' = [results EXCEPT ![receiver] = SubSeq(r, n + 1, Len(r))]
  BY DEF HandleResults
<1>2. CASE receiver \in Attempts
  <2>1. r \in Seq({"ok", "error"})
    BY <1>2 DEF Results
  <2>2. Len(r) \in Nat /\ \A i \in n + 1 .. Len(r) : r[i] \in {"ok", "error"}
    BY <1>1, <2>1, LenProperties
  <2>3. SubSeq(r, n + 1, Len(r)) \in Results
    BY <1>1, <2>2, SubSeqProperties DEF Results
  <2> QED
    BY <1>1, <2>3
<1>3. CASE receiver \notin Attempts
  BY <1>1, <1>3
<1> QED
  BY <1>2, <1>3

\* Every step keeps the types of what the threads have.
LEMMA ThreadsTyped == Typed /\ Next => ThreadTypes'
<1> SUFFICES ASSUME Typed, Next PROVE ThreadTypes'
  OBVIOUS
<1> USE LifecycleAssumption DEF Typed, ThreadTypes
<1>1. ASSUME Calls PROVE ThreadTypes'
  <2>1. CASE UNCHANGED threads
    BY <2>1 DEF threads
  <2>2. CASE SpawnRecv
    BY <2>2 DEF SpawnRecv
  <2>3. CASE StoreRecvTx
    BY <2>3 DEF StoreRecvTx
  <2>4. CASE CloseSend
    BY <2>4 DEF CloseSend
  <2>5. CASE CloseRecv
    <3>1. queue' \in [Attempts -> Queues]
      BY <2>5, QueueTypes DEF CloseRecv
    <3> QED
      BY <2>5, <3>1 DEF CloseRecv
  <2>6. CASE Signal
    BY <2>6 DEF Signal
  <2>7. CASE SendPage
    BY <2>7 DEF SendPage, Subscribed
  <2> QED
    BY <1>1, <2>1, <2>2, <2>3, <2>4, <2>5, <2>6, <2>7
    DEF Calls, BeginInit, StoreReceiver, StoreSendTx, SetGateway, BeginClose, TakeRecvTx,
        JoinRecv, Reset, ForgetReceiver, ResetTurn, ShutRuntime, BeginSend
<1>2. ASSUME NEW g \in Attempts, TakeCall(g) PROVE ThreadTypes'
  <2>1. \/ queue' = queue
        \/ queue' = [queue EXCEPT ![g] = Tail(queue[g])]
        \/ queue' = [queue EXCEPT ![g] = <<>>]
    BY <1>2, Zenon DEF TakeCall, TakeTry
  <2>2. queue' \in [Attempts -> Queues]
    <3>1. <<>> \in Queues
      BY QueueTypes
    <3>2. queue[g] # <<>> => Tail(queue[g]) \in Queues
      BY QueueTypes
    <3>3. queue[g] # <<>>
      BY <1>2 DEF TakeCall
    <3> QED
      BY <2>1, <3>1, <3>2, <3>3
  <2>3. \/ recv' = recv
        \/ recv' = [recv EXCEPT ![g] = "collect"]
        \/ recv' = [recv EXCEPT ![g] = "waiting"]
        \/ recv' = [recv EXCEPT ![g] = "ended"]
    BY <1>2, Zenon DEF TakeCall, TakeTry
  <2>4. recv' \in [Attempts -> {"none", "idle", "collect", "waiting", "ended"}]
    BY <2>3
  <2>5. \/ pages' = pages
        \/ pages' = [pages EXCEPT ![g] = 0]
        \/ pages[g] > 0 /\ pages' = [pages EXCEPT ![g] = pages[g] - 1]
    BY <1>2, Zenon DEF TakeCall, TakeTry
  <2>6. pages' \in [Attempts -> 0 .. BufferSize]
    BY <2>5
  <2> QED
    BY <1>2, <2>2, <2>4, <2>6 DEF TakeCall
<1>3. ASSUME NEW g \in Attempts, Collected(g) PROVE ThreadTypes'
  <2>1. Tail(queue[g]) \in Queues
    BY <1>3, QueueTypes DEF Collected, Collecting
  <2> QED
    BY <1>3, <2>1 DEF Collected
<1>4. ASSUME NEW g \in Attempts, WaitReturns(g) PROVE ThreadTypes'
  <2>1. \A r : Result(g, r) => results' = results \/ results' = [results EXCEPT ![g] = Append(results[g], r)]
    BY DEF Result
  <2>3. \/ results' = results
        \/ results' = [results EXCEPT ![g] = Append(results[g], "ok")]
        \/ results' = [results EXCEPT ![g] = Append(results[g], "error")]
    BY <1>4, <2>1, Zenon DEF WaitReturns
  <2>2. results' \in [Attempts -> Results]
    <3>1. Append(results[g], "ok") \in Results /\ Append(results[g], "error") \in Results
      BY QueueTypes
    <3> QED
      BY <2>3, <3>1
  <2> QED
    BY <1>4, <2>2 DEF WaitReturns
<1>5. ASSUME NEW g \in Attempts, RecvEnds(g) \/ SendEnds(g) PROVE ThreadTypes'
  BY <1>5 DEF RecvEnds, SendEnds
<1>6. ASSUME NEW g \in Attempts, Arrive(g) PROVE ThreadTypes'
  <2>1. pages' \in [Attempts -> 0 .. BufferSize]
    BY <1>6 DEF Arrive
  <2> QED
    BY <1>6, <2>1 DEF Arrive
<1>7. ASSUME NEW g \in Attempts, Runs(g) \/ Framed(g) PROVE ThreadTypes'
  <2>1. CASE Answered(g) \/ LockReceiver(g) \/ Framed(g)
    BY <2>1 DEF Answered, LockReceiver, Framed, threads
  <2>2. CASE Drain(g) \/ Woken(g)
    <3>1. results' = results \/ HandleResults
      BY <2>2, Zenon DEF Drain, Woken
    <3>2. UNCHANGED <<recv, queue, pages, send>>
      BY <2>2 DEF Drain, Woken
    <3> QED
      BY <3>1, <3>2, HandledTypes
  <2>3. CASE Ask(g) \/ AskToWait(g)
    <3>1. \/ queue' = queue
          \/ queue' = [queue EXCEPT ![recvTx] = Append(queue[recvTx], Call("try", g))]
          \/ queue' = [queue EXCEPT ![recvTx] = Append(queue[recvTx], Call("wait", g))]
      BY <2>3, Zenon DEF Ask, AskToWait
    <3>2. \A h \in Attempts : /\ Append(queue[h], Call("try", g)) \in Queues
                             /\ Append(queue[h], Call("wait", g)) \in Queues
      BY QueueTypes
    <3>3. queue' \in [Attempts -> Queues]
      <4>1. recvTx \notin Attempts => queue' = queue
        BY <3>1
      <4>2. ASSUME NEW q \in Queues, recvTx \in Attempts, queue' = [queue EXCEPT ![recvTx] = q]
            PROVE  queue' \in [Attempts -> Queues]
        BY <4>2
      <4> QED
        BY <3>1, <3>2, <4>1, <4>2, Zenon DEF Typed, ThreadTypes
    <3> QED
      BY <2>3, <3>3 DEF Ask, AskToWait
  <2> QED
    BY <1>7, <2>1, <2>2, <2>3 DEF Runs
<1> QED
  BY <1>1, <1>2, <1>3, <1>4, <1>5, <1>6, <1>7 DEF Next, Threads

\* Every step keeps the types of the tasks.
LEMMA TasksTyped == Typed /\ Next => TaskTypes'
<1> SUFFICES ASSUME Typed, Next PROVE TaskTypes'
  OBVIOUS
<1> USE DEF Typed, TaskTypes
<1>1. ASSUME Calls PROVE TaskTypes'
  <2>1. CASE UNCHANGED tasks
    BY <2>1 DEF tasks
  <2>2. CASE SetGateway \/ ShutRuntime
    BY <2>2 DEF SetGateway, ShutRuntime
  <2>3. CASE SpawnRecv \/ StoreRecvTx \/ CloseRecv \/ CloseSend \/ Signal \/ Reset \/ SendPage
    BY <2>3 DEF SpawnRecv, StoreRecvTx, CloseRecv, CloseSend, Signal, Reset, SendPage, tasks
  <2> QED
    BY <1>1, <2>1, <2>2, <2>3
    DEF Calls, BeginInit, StoreReceiver, StoreSendTx, SetGateway, BeginClose, TakeRecvTx,
        JoinRecv, ForgetReceiver, ResetTurn, BeginSend
<1>2. ASSUME NEW g \in Attempts, Threads(g) \/ SendEnds(g) \/ Arrive(g) PROVE TaskTypes'
  <2>1. CASE TakeCall(g)
    <3>1. answer' = answer \/ \E b : answer' = [answer EXCEPT ![b] = "empty"]
      BY <2>1, Zenon DEF TakeCall, TakeTry
    <3> QED
      BY <2>1, <3>1 DEF TakeCall
  <2>2. CASE Collected(g)
    BY <2>2 DEF Collected
  <2> QED
    BY <1>2, <2>1, <2>2 DEF Threads, WaitReturns, RecvEnds, SendEnds, Arrive, tasks
<1>3. ASSUME NEW g \in Attempts, Runs(g) \/ Framed(g) PROVE TaskTypes'
  <2>1. \/ task' = task
        \/ \E to \in {"try", "ask", "asked", "out", "lock", "await", "ended"} : task' = [task EXCEPT ![g] = to]
    BY <1>3 DEF Runs, Framed, Drain, Ask, Answered, AskToWait, LockReceiver, Woken, Step, Fails
  <2>2. answer' = answer \/ answer' = [answer EXCEPT ![g] = "none"]
    BY <1>3 DEF Runs, Framed, Drain, Ask, Answered, AskToWait, LockReceiver, Woken
  <2> QED
    BY <2>1, <2>2
<1> QED
  BY <1>1, <1>2, <1>3 DEF Next

\* Every step keeps the types of the flags.
LEMMA FlagsTyped == Typed /\ Next => Flags'
<1> SUFFICES ASSUME Typed, Next PROVE Flags'
  OBVIOUS
<1>1. /\ blocked \in BOOLEAN /\ event \in [Attempts -> BOOLEAN] /\ failed \in BOOLEAN
  BY Zenon DEF Typed, Flags
<1>2. \/ blocked' = blocked \/ blocked' = TRUE \/ blocked' = FALSE
  BY Zenon DEF Next, Calls, BeginInit, StoreReceiver, SpawnRecv, StoreRecvTx, StoreSendTx, SetGateway,
         BeginClose, CloseRecv, TakeRecvTx, Signal, JoinRecv, CloseSend, Reset, ForgetReceiver, ResetTurn,
         ShutRuntime, BeginSend, SendPage, Threads, TakeCall, Collected, WaitReturns, RecvEnds,
         SendEnds, Arrive, Runs, Drain, Ask, Answered, AskToWait, LockReceiver, Woken, Framed, HandleResults
<1>3. \/ failed' = failed \/ failed' = TRUE \/ failed' = FALSE
  BY Zenon DEF Next, aside, Calls, BeginInit, StoreReceiver, SpawnRecv, StoreRecvTx, StoreSendTx, SetGateway,
         BeginClose, CloseRecv, TakeRecvTx, Signal, JoinRecv, CloseSend, Reset, ForgetReceiver, ResetTurn,
         ShutRuntime, BeginSend, SendPage, Threads, TakeCall, Collected, WaitReturns, RecvEnds,
         SendEnds, Arrive, Runs, Drain, Ask, Answered, AskToWait, LockReceiver, Woken, Framed
<1>4. event' \in [Attempts -> BOOLEAN]
  <2>1. CASE event' = event
    BY <1>1, <2>1
  <2>2. CASE Signal
    <3>1. \A g \in Attempts : (event[g] \/ recv[g] \in {"idle", "collect", "waiting"}) \in BOOLEAN
      BY <1>1, Zenon
    <3> QED
      BY <1>1, <2>2, <3>1, Zenon DEF Signal
  <2>3. CASE SendPage
    <3>1. \A g \in Attempts : (event[g] \/ g \in Subscribed) \in BOOLEAN
      BY <1>1, Zenon
    <3> QED
      BY <2>3, <3>1, Zenon DEF SendPage
  <2>4. CASE \E g \in Attempts : Arrive(g) \/ WaitReturns(g)
    BY <1>1, <2>4, Zenon DEF Arrive, WaitReturns
  <2> QED
    BY <2>1, <2>2, <2>3, <2>4, Zenon
    DEF Next, Calls, threads, BeginInit, StoreReceiver, SpawnRecv, StoreRecvTx, StoreSendTx, SetGateway,
        BeginClose, CloseRecv, TakeRecvTx, JoinRecv, CloseSend, Reset, ForgetReceiver, ResetTurn,
        ShutRuntime, BeginSend, Threads, TakeCall, Collected, RecvEnds,
        SendEnds, Runs, Drain, Ask, Answered, AskToWait, LockReceiver, Woken, Framed
<1> QED
  BY <1>1, <1>2, <1>3, <1>4, Zenon DEF Flags

-----------------------------------------------------------------------------
(* Queues of calls. *)

\* A call of this kind is in the queue.
Has(q, kind) == \E i \in 1 .. Len(q) : q[i].call = kind

\* There is one wait in the queue at most.
Lone(q) == \A i, j \in 1 .. Len(q) : q[i].call = "wait" /\ q[j].call = "wait" => i = j

\* What a call that is added changes.
LEMMA Added ==
  ASSUME NEW q \in Queues, NEW c \in CallsToThread
  PROVE  /\ Append(q, c) # <<>>
         /\ q # <<>> => Head(Append(q, c)) = Head(q)
         /\ \A kind : Has(Append(q, c), kind) <=> Has(q, kind) \/ c.call = kind
         /\ Lone(q) /\ (Has(q, "wait") => c.call # "wait") => Lone(Append(q, c))
<1> DEFINE r == Append(q, c)
<1>1. /\ r \in Seq(CallsToThread) /\ r # <<>> /\ Len(r) = Len(q) + 1 /\ Len(q) \in Nat
      /\ \A i \in 1 .. Len(q) : r[i] = q[i]
      /\ r[Len(q) + 1] = c
  BY AppendProperties, LenProperties DEF Queues
<1>2. q # <<>> => Head(r) = Head(q)
  <2>1. q # <<>> => Len(q) > 0
    BY EmptySeq, LenProperties DEF Queues
  <2>2. Head(r) = r[1] /\ Head(q) = q[1]
    OBVIOUS
  <2> QED
    BY <1>1, <2>1, <2>2
<1> HIDE DEF r
<1>3. \A kind : Has(r, kind) <=> Has(q, kind) \/ c.call = kind
  BY <1>1 DEF Has
<1>4. Lone(q) /\ (Has(q, "wait") => c.call # "wait") => Lone(r)
  BY <1>1 DEF Has, Lone
<1> QED
  BY <1>1, <1>2, <1>3, <1>4 DEF r

\* What the call that is taken changes.
LEMMA Taken ==
  ASSUME NEW q \in Queues, q # <<>>
  PROVE  /\ Has(q, Head(q).call)
         /\ \A kind : Has(Tail(q), kind) => Has(q, kind)
         /\ \A kind : Has(q, kind) => Has(Tail(q), kind) \/ Head(q).call = kind
         /\ Lone(q) => Lone(Tail(q))
         /\ Lone(q) /\ Head(q).call = "wait" => ~Has(Tail(q), "wait")
<1> DEFINE r == Tail(q)
<1>1. /\ Len(q) \in Nat /\ Len(q) > 0 /\ Head(q) = q[1]
      /\ Len(r) = Len(q) - 1
      /\ \A i \in 1 .. Len(r) : r[i] = q[i + 1]
  BY HeadTailProperties, EmptySeq, LenProperties DEF Queues
<1> HIDE DEF r
<1>2. Has(q, Head(q).call)
  BY <1>1 DEF Has
<1>3. \A kind : Has(r, kind) => Has(q, kind)
  BY <1>1 DEF Has
<1>4. ASSUME NEW kind, NEW i \in 1 .. Len(q), q[i].call = kind PROVE Has(r, kind) \/ Head(q).call = kind
  <2>1. CASE i = 1
    BY <1>1, <1>4, <2>1
  <2>2. CASE i # 1
    <3>1. i - 1 \in 1 .. Len(r) /\ r[i - 1] = q[i]
      BY <1>1, <2>2
    <3> QED
      BY <1>4, <3>1 DEF Has
  <2> QED
    BY <2>1, <2>2
<1>5. ASSUME Lone(q), NEW i \in 1 .. Len(r), NEW j \in 1 .. Len(r), r[i].call = "wait", r[j].call = "wait"
      PROVE  i = j
  <2>1. i + 1 \in 1 .. Len(q) /\ j + 1 \in 1 .. Len(q) /\ q[i + 1].call = "wait" /\ q[j + 1].call = "wait"
    BY <1>1, <1>5
  <2>2. i + 1 = j + 1
    BY <1>5, <2>1 DEF Lone
  <2> QED
    BY <2>2
<1>6. Lone(q) /\ Head(q).call = "wait" => ~Has(r, "wait")
  BY <1>1 DEF Lone, Has
<1> QED
  BY <1>2, <1>3, <1>4, <1>5, <1>6 DEF r, Has, Lone

\* There is nothing in an empty queue.
LEMMA Nothing == Lone(<<>>) /\ \A kind : ~Has(<<>>, kind)
BY DEF Lone, Has

\* Whoever asks a thread something is one of CallsToThread.
LEMMA AllCalls ==
  Call("close", 0) \in CallsToThread
  /\ \A g \in Attempts : Call("try", g) \in CallsToThread /\ Call("wait", g) \in CallsToThread
BY LifecycleAssumption DEF Call, CallsToThread, Attempts

\* The steps that change a thread, its queue or its results.
Stirs(g) ==
  \/ TakeCall(g) \/ Collected(g) \/ WaitReturns(g) \/ RecvEnds(g)
  \/ Ask(g) \/ AskToWait(g) \/ Drain(g) \/ Woken(g)

LEMMA Quiet ==
  Next => \/ UNCHANGED <<recv, queue, results>> \/ SpawnRecv \/ CloseRecv
          \/ \E g \in Attempts : Stirs(g)
BY Zenon DEF Next, Stirs, Calls, threads, BeginInit, StoreReceiver, StoreRecvTx, StoreSendTx, SetGateway,
       BeginClose, TakeRecvTx, Signal, JoinRecv, CloseSend, Reset, ForgetReceiver, ResetTurn,
       ShutRuntime, BeginSend, SendPage, Threads, SendEnds, Arrive, Runs, Answered, LockReceiver, Framed

\* What a task changes when it asks.
LEMMA Asking ==
  ASSUME Typed, NEW g \in Attempts, NEW h \in Attempts
  PROVE  /\ Ask(g) => \/ queue'[h] = queue[h]
                     \/ /\ h = recvTx /\ recv[h] # "ended"
                        /\ queue'[h] = Append(queue[h], Call("try", g))
         /\ AskToWait(g) => \/ queue'[h] = queue[h]
                           \/ /\ h = recvTx /\ recv[h] # "ended"
                              /\ queue'[h] = Append(queue[h], Call("wait", g))
                              /\ ~blocked /\ blocked'
<1>1. queue \in [Attempts -> Queues]
  BY DEF Typed, ThreadTypes
<1>2. ASSUME Ask(g)
      PROVE  \/ queue'[h] = queue[h]
             \/ /\ h = recvTx /\ recv[h] # "ended"
                /\ queue'[h] = Append(queue[h], Call("try", g))
  BY <1>1, <1>2 DEF Ask
<1>3. ASSUME AskToWait(g)
      PROVE  \/ queue'[h] = queue[h]
             \/ /\ h = recvTx /\ recv[h] # "ended" /\ queue'[h] = Append(queue[h], Call("wait", g))
                /\ ~blocked /\ blocked'
  BY <1>1, <1>3 DEF AskToWait
<1> QED
  BY <1>2, <1>3

\* A call is answered after it was taken.
LEMMA CollectingStep == Typed /\ Next => Collecting'
<1> SUFFICES ASSUME Typed, Next, NEW h \in Attempts, recv'[h] = "collect"
             PROVE  queue'[h] # <<>> /\ Head(queue'[h]).call = "try"
  BY DEF Collecting
<1> USE DEF Typed, ThreadTypes
<1>1. recv[h] = "collect" => queue[h] # <<>> /\ Head(queue[h]).call = "try"
  BY DEF Collecting
<1>2. CASE UNCHANGED <<recv, queue, results>>
  BY <1>1, <1>2
<1>3. CASE SpawnRecv
  BY <1>1, <1>3 DEF SpawnRecv
<1>4. CASE CloseRecv
  BY <1>1, <1>4, Added, AllCalls DEF CloseRecv
<1>5. ASSUME NEW g \in Attempts, Stirs(g) PROVE queue'[h] # <<>> /\ Head(queue'[h]).call = "try"
  <2>1. CASE TakeCall(g)
    BY <1>1, <2>1 DEF TakeCall, TakeTry
  <2>2. CASE Collected(g) \/ WaitReturns(g) \/ RecvEnds(g)
    BY <1>1, <2>2 DEF Collected, WaitReturns, RecvEnds
  <2>3. CASE Ask(g) \/ AskToWait(g)
    <3>1. UNCHANGED recv
      BY <2>3 DEF Ask, AskToWait
    <3>2. \/ queue'[h] = queue[h]
          \/ \E c \in CallsToThread : queue'[h] = Append(queue[h], c)
      BY <2>3, Asking, AllCalls
    <3>3. queue[h] \in Queues /\ queue[h] # <<>> /\ Head(queue[h]).call = "try"
      BY <1>1, <3>1
    <3>4. ASSUME NEW c \in CallsToThread, queue'[h] = Append(queue[h], c)
          PROVE  queue'[h] # <<>> /\ Head(queue'[h]) = Head(queue[h])
      BY <3>3, <3>4, Added
    <3> QED
      BY <3>2, <3>3, <3>4
  <2>4. CASE Drain(g) \/ Woken(g)
    BY <1>1, <2>4 DEF Drain, Woken
  <2> QED
    BY <1>5, <2>1, <2>2, <2>3, <2>4 DEF Stirs
<1> QED
  BY <1>2, <1>3, <1>4, <1>5, Quiet

\* Every variable keeps its type.
LEMMA TypedStep == Typed /\ [Next]_<<vars, liberties>> => Typed'
<1>1. ASSUME Typed, UNCHANGED <<vars, liberties>> PROVE Typed'
  BY <1>1 DEF Typed, CallTypes, ThreadTypes, TaskTypes, Flags, Room, Collecting,
              vars, call, globals, threads, tasks
<1>2. ASSUME Typed, Next PROVE Typed'
  <2>1. CallTypes' /\ Room'
    BY <1>2, CallTyped, OthersTyped DEF Next
  <2> QED
    BY <1>2, <2>1, ThreadsTyped, TasksTyped, FlagsTyped, CollectingStep DEF Typed, Next
<1> QED
  BY <1>1, <1>2

\* Every variable keeps its type.
THEOREM TypeCorrect == Spec => []TypeOK
<1>1. Spec => []Typed
  BY InitTyped, TypedStep, PTL DEF Spec
<1> QED
  BY <1>1, TypedIsTypeOK, PTL

-----------------------------------------------------------------------------
(* Waits. *)

\* A wait was asked for, is under way, or its result is not yet taken.
Pending(g) == recv[g] = "waiting" \/ results[g] # <<>> \/ Has(queue[g], "wait")

\* There is one at a time.
OneWait ==
  \A g \in Attempts :
    /\ Lone(queue[g])
    /\ recv[g] = "waiting" => ~Has(queue[g], "wait") /\ results[g] = <<>>
    /\ results[g] # <<>> => ~Has(queue[g], "wait")

\* So there is at most one result.
OneResult == \A g \in Attempts : Len(results[g]) <= 1

\* Only a thread that lives is asked anything.
Served ==
  \A g \in Attempts :
    /\ recv[g] \in {"none", "ended"} => queue[g] = <<>>
    /\ recv[g] = "none" => results[g] = <<>>
    /\ g > attempt => recv[g] = "none"

\* The flag is set as long as the thread that can be asked has a wait to finish, and
\* another channel of results than that thread's is one nobody writes to.
Flagged ==
  recvTx # None =>
    /\ receiver # None /\ recv[recvTx] # "none"
    /\ Pending(recvTx) => blocked
    /\ receiver # recvTx => ~Pending(receiver)

\* What an attempt has made so far.
Making ==
  /\ app = "spawn" => receiver = attempt /\ recv[attempt] = "none"
  /\ app = "recvTx" => /\ receiver = attempt /\ recvTx # attempt
                       /\ recv[attempt] = "idle" /\ ~Pending(attempt)
                       /\ queue[attempt] = <<>>

\* From some point of close on no thread can be asked.
Closing ==
  \/ app \in {"signal", "join", "closeSend", "reset", "forget", "turn", "shut"}
  \/ app \in {"idle", "close", "take"} /\ started = None

Unasked == (Closing => recvTx = None) /\ (app = "send" => started # None)

Waits == Typed /\ OneWait /\ OneResult /\ Served /\ Flagged /\ Making /\ Unasked

\* Handling the results leaves none: there is no second one behind an error.
LEMMA Handling ==
  ASSUME results \in [Attempts -> Results], OneResult, HandleResults
  PROVE  /\ results' = [results EXCEPT ![receiver] = <<>>]
         /\ receiver \in Attempts =>
              blocked' = IF "ok" \in {results[receiver][i] : i \in DOMAIN results[receiver]} THEN FALSE ELSE blocked
<1> DEFINE r == results[receiver]
<1>1. PICK n \in 0 .. Len(r) :
        /\ n < Len(r) => n > 0 /\ r[n] = "error"
        /\ blocked' = IF \E i \in 1 .. n : r[i] = "ok" THEN FALSE ELSE blocked
        /\ results' = [results EXCEPT ![receiver] = SubSeq(r, n + 1, Len(r))]
  BY Zenon DEF HandleResults
<1>2. CASE receiver \in Attempts
  <2>1. Len(r) \in Nat /\ Len(r) <= 1 /\ DOMAIN r = 1 .. Len(r)
    BY <1>2, LenProperties DEF Results, OneResult
  <2>2. n = Len(r)
    BY <1>1, <2>1
  <2>3. SubSeq(r, n + 1, Len(r)) = <<>>
    BY <2>1, <2>2, SubSeqEmpty
  <2>4. (\E i \in 1 .. n : r[i] = "ok") <=> "ok" \in {r[i] : i \in DOMAIN r}
    BY <2>1, <2>2
  <2> QED
    BY <1>1, <2>3, <2>4
<1>3. CASE receiver \notin Attempts
  BY <1>1, <1>3
<1> QED
  BY <1>2, <1>3

\* What a task does with the results.
LEMMA Emptied ==
  ASSUME results \in [Attempts -> Results], OneResult, NEW g, Drain(g) \/ Woken(g)
  PROVE  /\ results' = results \/ results' = [results EXCEPT ![receiver] = <<>>]
         /\ UNCHANGED <<call, globals, recv, queue>>
<1>1. results' = results \/ HandleResults
  BY Zenon DEF Drain, Woken
<1>2. UNCHANGED <<call, globals, recv, queue>>
  BY DEF Drain, Woken
<1> QED
  BY <1>1, <1>2, Handling

\* The threads that live stay those that are asked.
LEMMA ServedStep == Waits /\ Next => Served'
<1> SUFFICES ASSUME Waits, Next, NEW h \in Attempts
             PROVE  /\ recv'[h] \in {"none", "ended"} => queue'[h] = <<>>
                    /\ recv'[h] = "none" => results'[h] = <<>>
                    /\ h > attempt' => recv'[h] = "none"
  BY DEF Served
<1> USE DEF Waits, Typed, ThreadTypes
<1>1. /\ recv[h] \in {"none", "ended"} => queue[h] = <<>>
      /\ recv[h] = "none" => results[h] = <<>>
      /\ h > attempt => recv[h] = "none"
  BY DEF Served
<1>2. attempt \in Nat /\ h \in Nat
  BY LifecycleAssumption DEF CallTypes, Attempts
<1>3. CASE UNCHANGED <<recv, queue, results>>
  <2>1. attempt' = attempt \/ attempt' = attempt + 1
    BY Zenon DEF Next, Calls, BeginInit, StoreReceiver, SpawnRecv, StoreRecvTx, StoreSendTx, SetGateway,
           BeginClose, CloseRecv, TakeRecvTx, Signal, JoinRecv, CloseSend, Reset, ForgetReceiver, ResetTurn,
           ShutRuntime, BeginSend, SendPage, Threads, TakeCall, Collected, WaitReturns, RecvEnds, call,
           SendEnds, Arrive, Runs, Drain, Ask, Answered, AskToWait, LockReceiver, Woken, Framed
  <2> QED
    BY <1>1, <1>2, <1>3, <2>1
<1>4. CASE SpawnRecv
  BY <1>1, <1>2, <1>4 DEF SpawnRecv, Making, Do
<1>5. CASE CloseRecv
  <2>1. recv[recvTx] = "none" => recvTx = None
    BY DEF Flagged
  <2> QED
    BY <1>1, <1>5, <2>1 DEF CloseRecv, Attempts
<1>6. ASSUME NEW g \in Attempts, Stirs(g)
      PROVE  /\ recv'[h] \in {"none", "ended"} => queue'[h] = <<>>
             /\ recv'[h] = "none" => results'[h] = <<>>
             /\ h > attempt' => recv'[h] = "none"
  <2>1. attempt' = attempt
    BY <1>6 DEF Stirs, TakeCall, Collected, WaitReturns, RecvEnds, Ask, AskToWait, Drain, Woken, call
  <2>2. CASE TakeCall(g)
    BY <1>1, <2>1, <2>2 DEF TakeCall, TakeTry
  <2>3. CASE Collected(g) \/ RecvEnds(g)
    BY <1>1, <2>1, <2>3 DEF Collected, RecvEnds
  <2>4. CASE WaitReturns(g)
    BY <1>1, <2>1, <2>4 DEF WaitReturns, Result
  <2>5. CASE Ask(g) \/ AskToWait(g)
    <3>1. UNCHANGED <<recv, results>>
      BY <2>5 DEF Ask, AskToWait
    <3>2. queue'[h] = queue[h] \/ recv[h] \notin {"none", "ended"}
      <4>1. h = recvTx => recv[h] # "none"
        BY LifecycleAssumption DEF Flagged, Attempts
      <4>2. queue'[h] = queue[h] \/ (h = recvTx /\ recv[h] # "ended")
        <5>1. CASE Ask(g)
          BY <5>1, Asking
        <5>2. CASE AskToWait(g)
          BY <5>2, Asking
        <5> QED
          BY <2>5, <5>1, <5>2
      <4> QED
        BY <4>1, <4>2
    <3> QED
      BY <1>1, <2>1, <3>1, <3>2
  <2>6. CASE Drain(g) \/ Woken(g)
    BY <1>1, <2>1, <2>6, Emptied
  <2> QED
    BY <1>6, <2>2, <2>3, <2>4, <2>5, <2>6 DEF Stirs
<1> QED
  BY <1>3, <1>4, <1>5, <1>6, Quiet

\* No second wait is asked for while there is one.
LEMMA OneWaitStep == Waits /\ Next => OneWait'
<1> SUFFICES ASSUME Waits, Next, NEW h \in Attempts
             PROVE  /\ Lone(queue'[h])
                    /\ recv'[h] = "waiting" => ~Has(queue'[h], "wait") /\ results'[h] = <<>>
                    /\ results'[h] # <<>> => ~Has(queue'[h], "wait")
  BY DEF OneWait
<1> DEFINE Goal == /\ Lone(queue'[h])
                   /\ recv'[h] = "waiting" => ~Has(queue'[h], "wait") /\ results'[h] = <<>>
                   /\ results'[h] # <<>> => ~Has(queue'[h], "wait")
<1> USE DEF Waits, Typed, ThreadTypes
<1>1. /\ Lone(queue[h]) /\ queue[h] \in Queues
      /\ recv[h] = "waiting" => ~Has(queue[h], "wait") /\ results[h] = <<>>
      /\ results[h] # <<>> => ~Has(queue[h], "wait")
  BY DEF OneWait
<1>2. CASE UNCHANGED <<recv, queue, results>>
  BY <1>1, <1>2
<1>3. CASE SpawnRecv
  BY <1>1, <1>3 DEF SpawnRecv
<1>4. CASE CloseRecv
  <2>1. queue'[h] = queue[h] \/ queue'[h] = Append(queue[h], Call("close", 0))
    BY <1>4 DEF CloseRecv
  <2>2. Call("close", 0).call # "wait"
    BY DEF Call
  <2>3. Lone(queue'[h]) /\ (Has(queue'[h], "wait") => Has(queue[h], "wait"))
    <3>1. CASE queue'[h] = queue[h]
      BY <1>1, <3>1
    <3>2. CASE queue'[h] = Append(queue[h], Call("close", 0))
      BY <1>1, <2>2, <3>2, Added, AllCalls
    <3> QED
      BY <2>1, <3>1, <3>2
  <2> QED
    BY <1>1, <1>4, <2>3 DEF CloseRecv
<1>5. ASSUME NEW g \in Attempts, Stirs(g) PROVE Goal
  <2>1. CASE TakeCall(g)
    <3>1. CASE h = g /\ queue'[h] = Tail(queue[h])
      <4>1. queue[h] # <<>>
        BY <2>1, <3>1 DEF TakeCall
      <4>2. Lone(queue'[h]) /\ (Has(queue'[h], "wait") => Has(queue[h], "wait"))
        BY <1>1, <3>1, <4>1, Taken
      <4>3. Head(queue[h]).call = "wait" => Has(queue[h], "wait") /\ ~Has(queue'[h], "wait")
        BY <1>1, <3>1, <4>1, Taken
      <4>4. recv'[h] = "waiting" => Head(queue[h]).call = "wait"
        BY <2>1, <3>1 DEF TakeCall, TakeTry
      <4>5. results' = results
        BY <2>1 DEF TakeCall
      <4> QED
        BY <1>1, <4>2, <4>3, <4>4, <4>5
    <3>2. CASE h = g /\ queue'[h] = <<>> /\ recv'[h] # "waiting"
      BY <3>2, Nothing
    <3>3. CASE (queue'[h] = queue[h] /\ recv'[h] # "waiting") \/ h # g
      BY <1>1, <2>1, <3>3 DEF TakeCall, TakeTry
    <3> QED
      BY <2>1, <3>1, <3>2, <3>3 DEF TakeCall, TakeTry
  <2>2. CASE Collected(g)
    <3>1. CASE h = g
      <4>1. queue[h] # <<>> /\ queue'[h] = Tail(queue[h]) /\ recv'[h] = "idle"
        BY <2>2, <3>1 DEF Collected, Collecting
      <4>2. Lone(queue'[h]) /\ (Has(queue'[h], "wait") => Has(queue[h], "wait"))
        BY <1>1, <4>1, Taken
      <4> QED
        BY <1>1, <2>2, <4>1, <4>2 DEF Collected
    <3> QED
      BY <1>1, <2>2, <3>1 DEF Collected
  <2>3. CASE WaitReturns(g)
    BY <1>1, <2>3 DEF WaitReturns, Result
  <2>4. CASE RecvEnds(g)
    BY <1>1, <2>4 DEF RecvEnds
  <2>5. CASE Ask(g) \/ AskToWait(g)
    <3>1. UNCHANGED <<recv, results>>
      BY <2>5 DEF Ask, AskToWait
    <3>2. CASE queue'[h] = queue[h]
      BY <1>1, <3>1, <3>2
    <3>3. CASE queue'[h] = Append(queue[h], Call("try", g))
      <4>1. Call("try", g).call # "wait"
        BY DEF Call
      <4>2. Lone(queue'[h]) /\ (Has(queue'[h], "wait") => Has(queue[h], "wait"))
        BY <1>1, <3>3, <4>1, Added, AllCalls
      <4> QED
        BY <1>1, <3>1, <4>2
    <3>4. CASE h = recvTx /\ ~blocked /\ queue'[h] = Append(queue[h], Call("wait", g))
      <4>1. ~Pending(h)
        BY <3>4, LifecycleAssumption DEF Flagged, Attempts
      <4>2. Lone(queue'[h])
        BY <1>1, <3>4, <4>1, Added, AllCalls DEF Pending
      <4> QED
        BY <3>1, <4>1, <4>2 DEF Pending
    <3> QED
      BY <2>5, <3>2, <3>3, <3>4, Asking
  <2>6. CASE Drain(g) \/ Woken(g)
    BY <1>1, <2>6, Emptied
  <2> QED
    BY <1>5, <2>1, <2>2, <2>3, <2>4, <2>5, <2>6 DEF Stirs
<1> QED
  BY <1>2, <1>3, <1>4, <1>5, Quiet

\* A thread that waits has sent no result.
LEMMA OneResultStep == Waits /\ Next => OneResult'
<1> SUFFICES ASSUME Waits, Next, NEW h \in Attempts PROVE Len(results'[h]) <= 1
  BY DEF OneResult
<1> USE DEF Waits, Typed, ThreadTypes
<1>1. Len(results[h]) <= 1 /\ (recv[h] = "waiting" => results[h] = <<>>) /\ Len(<<>>) = 0
  BY EmptySeq DEF OneResult, OneWait
<1>2. CASE results' = results
  BY <1>1, <1>2
<1>3. ASSUME NEW g \in Attempts, WaitReturns(g) PROVE Len(results'[h]) <= 1
  <2>1. results'[h] = results[h] \/ (recv[h] = "waiting" /\ \E x \in {"ok", "error"} : results'[h] = Append(results[h], x))
    BY <1>3 DEF WaitReturns, Result
  <2> QED
    BY <1>1, <2>1 DEF Results
<1>4. ASSUME NEW g \in Attempts, Drain(g) \/ Woken(g) PROVE Len(results'[h]) <= 1
  BY <1>1, <1>4, Emptied
<1> QED
  BY <1>2, <1>3, <1>4, Quiet DEF SpawnRecv, CloseRecv, Stirs, TakeCall, Collected, RecvEnds, Ask, AskToWait

\* Only a task that asks for one makes a wait pending.
LEMMA Finishing ==
  ASSUME Waits, NEW g \in Attempts, Stirs(g), NEW h \in Attempts
  PROVE  /\ Pending(h)' => Pending(h) \/ (AskToWait(g) /\ h = recvTx /\ blocked')
         /\ recv[h] # "none" => recv'[h] # "none"
<1> DEFINE Goal == /\ Pending(h)' => Pending(h) \/ (AskToWait(g) /\ h = recvTx /\ blocked')
                   /\ recv[h] # "none" => recv'[h] # "none"
<1> USE DEF Waits, Typed, ThreadTypes
<1>1. queue[h] \in Queues
  OBVIOUS
<1>2. CASE TakeCall(g)
  <2>1. recv[h] # "none" => recv'[h] # "none"
    BY <1>2 DEF TakeCall, TakeTry
  <2>2. results' = results
    BY <1>2 DEF TakeCall
  <2>3. CASE h # g
    BY <1>2, <2>1, <2>2, <2>3 DEF TakeCall, TakeTry, Pending
  <2>4. CASE h = g
    <3>1. queue[h] # <<>> /\ recv[h] = "idle"
      BY <1>2, <2>4 DEF TakeCall
    <3>2. \/ queue'[h] = queue[h] \/ queue'[h] = Tail(queue[h]) \/ queue'[h] = <<>>
      BY <1>2, <2>4 DEF TakeCall, TakeTry
    <3>3. Has(queue'[h], "wait") => Has(queue[h], "wait")
      BY <1>1, <3>1, <3>2, Taken, Nothing
    <3>4. recv'[h] = "waiting" => Has(queue[h], "wait")
      <4>1. Has(queue[h], Head(queue[h]).call)
        BY <1>1, <3>1, Taken
      <4>2. recv'[h] = "waiting" => Head(queue[h]).call = "wait"
        BY <1>2, <2>4 DEF TakeCall, TakeTry
      <4> QED
        BY <4>1, <4>2
    <3> QED
      BY <2>1, <2>2, <3>3, <3>4 DEF Pending
  <2> QED
    BY <2>3, <2>4
<1>3. CASE Collected(g)
  <2>1. CASE h = g
    <3>1. queue[h] # <<>>
      BY <1>3, <2>1 DEF Collected, Collecting
    <3>2. Has(Tail(queue[h]), "wait") => Has(queue[h], "wait")
      BY <1>1, <3>1, Taken
    <3>3. queue'[h] = Tail(queue[h]) /\ recv'[h] = "idle" /\ results' = results
      BY <1>3, <2>1 DEF Collected
    <3> QED
      BY <3>2, <3>3 DEF Pending
  <2> QED
    BY <1>3, <2>1 DEF Collected, Pending
<1>4. CASE WaitReturns(g)
  BY <1>4 DEF WaitReturns, Result, Pending
<1>5. CASE RecvEnds(g)
  BY <1>5 DEF RecvEnds, Pending
<1>6. CASE Ask(g) \/ AskToWait(g)
  <2>1. UNCHANGED <<recv, results>>
    BY <1>6 DEF Ask, AskToWait
  <2>2. CASE queue'[h] = queue[h]
    BY <2>1, <2>2 DEF Pending
  <2>3. CASE queue'[h] = Append(queue[h], Call("try", g))
    <3>1. Call("try", g).call # "wait"
      BY DEF Call
    <3>2. Has(queue'[h], "wait") => Has(queue[h], "wait")
      BY <1>1, <2>3, <3>1, Added, AllCalls
    <3> QED
      BY <2>1, <3>2 DEF Pending
  <2>4. CASE AskToWait(g) /\ h = recvTx /\ blocked'
    BY <2>1, <2>4
  <2> QED
    BY <1>6, <2>2, <2>3, <2>4, Asking
<1>7. CASE Drain(g) \/ Woken(g)
  BY <1>7, Emptied DEF Pending
<1> QED
  BY <1>2, <1>3, <1>4, <1>5, <1>6, <1>7 DEF Stirs

\* Who may be asked, and what was asked, changes in these steps only.
LEMMA Steady ==
  Next => \/ UNCHANGED <<recv, queue, results, receiver, recvTx, blocked>>
          \/ StoreReceiver \/ SpawnRecv \/ StoreRecvTx \/ CloseRecv \/ TakeRecvTx \/ Reset \/ ForgetReceiver
          \/ \E g \in Attempts : Stirs(g)
BY Zenon DEF Next, Stirs, Calls, threads, globals, BeginInit, StoreSendTx, SetGateway,
       BeginClose, Signal, JoinRecv, CloseSend, ResetTurn, ShutRuntime, BeginSend, SendPage,
       Threads, SendEnds, Arrive, Runs, Answered, LockReceiver, Framed

LEMMA StirsKeep == ASSUME NEW g \in Attempts, Stirs(g) PROVE UNCHANGED <<call, globals>>
BY DEF Stirs, TakeCall, Collected, WaitReturns, RecvEnds, Ask, AskToWait, Drain, Woken

\* A thread that was never started has nothing pending.
LEMMA NoneStarted ==
  ASSUME Waits, NEW h \in Attempts, recv[h] = "none"
  PROVE  ~Pending(h)
<1>1. queue[h] = <<>> /\ results[h] = <<>>
  BY DEF Waits, Served
<1> QED
  BY <1>1, Nothing DEF Pending

\* The flag is given up only with the wait it stands for.
LEMMA FlaggedStep == Waits /\ Next => Flagged'
<1> SUFFICES ASSUME Waits, Next, recvTx' # None
             PROVE  /\ receiver' # None /\ recv'[recvTx'] # "none"
                    /\ Pending(recvTx)' => blocked'
                    /\ receiver' # recvTx' => ~Pending(receiver)'
  BY DEF Flagged
<1> DEFINE Goal == /\ receiver' # None /\ recv'[recvTx'] # "none"
                   /\ Pending(recvTx)' => blocked'
                   /\ receiver' # recvTx' => ~Pending(receiver)'
<1>1. /\ recv \in [Attempts -> {"none", "idle", "collect", "waiting", "ended"}]
      /\ recvTx \in Attempts \union {None} /\ receiver \in Attempts \union {None}
      /\ attempt \in Nat /\ Attempts \subseteq Nat /\ None \notin Nat
  BY LifecycleAssumption DEF Waits, Typed, ThreadTypes, CallTypes, Attempts
<1>2. recvTx # None => /\ receiver # None /\ recv[recvTx] # "none"
                       /\ Pending(recvTx) => blocked
                       /\ receiver # recvTx => ~Pending(receiver)
  BY DEF Waits, Flagged
<1>3. CASE UNCHANGED <<recv, queue, results, receiver, recvTx, blocked>>
  BY <1>2, <1>3 DEF Pending
<1>4. CASE StoreReceiver
  <2>1. attempt + 1 \in Attempts /\ recv[attempt + 1] = "none"
    BY <1>1, <1>4, LifecycleAssumption DEF StoreReceiver, Do, Waits, Typed, Room, CallTypes, Served, Attempts
  <2>2. ~Pending(attempt + 1)
    BY <2>1, NoneStarted
  <2>3. UNCHANGED <<recv, queue, results, recvTx, blocked>> /\ receiver' = attempt + 1
    BY <1>4 DEF StoreReceiver, threads
  <2> QED
    BY <1>1, <1>2, <2>1, <2>2, <2>3 DEF Pending
<1>5. CASE SpawnRecv
  <2>1. attempt \in Attempts /\ recv[attempt] = "none" /\ recv' = [recv EXCEPT ![attempt] = "idle"]
    BY <1>1, <1>5, LifecycleAssumption DEF SpawnRecv, Do, Making, Waits, Typed, Room, CallTypes, Attempts
  <2>2. UNCHANGED <<queue, results, recvTx, receiver, blocked>>
    BY <1>5 DEF SpawnRecv
  <2>3. \A h \in Attempts : Pending(h)' => Pending(h)
    BY <1>1, <2>1, <2>2 DEF Pending
  <2>4. recvTx \in Attempts /\ receiver \in Attempts
    BY <1>1, <1>2, <2>2
  <2> QED
    BY <1>1, <1>2, <2>1, <2>2, <2>3, <2>4
<1>6. CASE StoreRecvTx
  <2>1. /\ attempt \in Attempts /\ recv[attempt] = "idle" /\ receiver = attempt /\ ~Pending(attempt)
    BY <1>1, <1>6, LifecycleAssumption DEF StoreRecvTx, Do, Making, Waits, Typed, Room, CallTypes, Attempts
  <2>2. UNCHANGED <<recv, queue, results, receiver, blocked>> /\ recvTx' = attempt
    BY <1>6 DEF StoreRecvTx
  <2> QED
    BY <1>1, <2>1, <2>2 DEF Pending
<1>7. CASE CloseRecv
  <2>1. UNCHANGED <<recv, results, receiver, recvTx, blocked>>
    BY <1>7 DEF CloseRecv, globals
  <2>2. ASSUME NEW h \in Attempts PROVE Pending(h)' => Pending(h)
    <3>1. queue[h] \in Queues /\ (queue'[h] = queue[h] \/ queue'[h] = Append(queue[h], Call("close", 0)))
      BY <1>7 DEF CloseRecv, Waits, Typed, ThreadTypes
    <3>2. Call("close", 0).call # "wait"
      BY DEF Call
    <3>3. Has(queue'[h], "wait") => Has(queue[h], "wait")
      <4>1. CASE queue'[h] = queue[h]
        BY <4>1
      <4>2. CASE queue'[h] = Append(queue[h], Call("close", 0))
        BY <3>1, <3>2, <4>2, Added, AllCalls
      <4> QED
        BY <3>1, <4>1, <4>2
    <3> QED
      BY <2>1, <3>3 DEF Pending
  <2> QED
    BY <1>1, <1>2, <2>1, <2>2
<1>8. CASE TakeRecvTx \/ Reset \/ ForgetReceiver
  <2>1. recvTx' = None
    BY <1>8 DEF TakeRecvTx, Reset, ForgetReceiver, Waits, Unasked, Closing, Do, globals
  <2> QED
    BY <2>1
<1>9. ASSUME NEW g \in Attempts, Stirs(g) PROVE Goal
  <2>1. recvTx' = recvTx /\ receiver' = receiver /\ recvTx \in Attempts /\ receiver \in Attempts
    BY <1>1, <1>2, <1>9, StirsKeep DEF globals
  <2>2. recv'[recvTx] # "none"
    BY <1>2, <1>9, <2>1, Finishing
  <2>3. receiver # recvTx => ~Pending(receiver)'
    BY <1>2, <1>9, <2>1, Finishing
  <2>4. Pending(recvTx)' => blocked'
    <3>1. CASE blocked' = blocked \/ blocked'
      BY <1>2, <1>9, <2>1, <3>1, Finishing
    <3>2. CASE (Drain(g) \/ Woken(g)) /\ HandleResults /\ blocked' # blocked
      <4>1. \E i \in DOMAIN results[receiver] : results[receiver][i] = "ok"
        <5>1. "ok" \in {results[receiver][i] : i \in DOMAIN results[receiver]}
          BY <2>1, <3>2, Handling DEF Waits, Typed, ThreadTypes
        <5> QED
          BY <5>1
      <4>2. results[receiver] # <<>>
        BY <4>1
      <4>3. receiver = recvTx
        BY <1>2, <2>1, <4>2 DEF Pending
      <4>4. recv[recvTx] # "waiting" /\ ~Has(queue[recvTx], "wait")
        BY <2>1, <4>2, <4>3 DEF Waits, OneWait
      <4>5. results'[recvTx] = <<>>
        BY <2>1, <3>2, <4>3, Handling DEF Waits, Typed, ThreadTypes
      <4>6. UNCHANGED <<recv, queue>>
        BY <3>2 DEF Drain, Woken
      <4> QED
        BY <2>1, <4>4, <4>5, <4>6 DEF Pending
    <3>3. CASE UNCHANGED blocked \/ blocked' = TRUE
      BY <3>1, <3>3
    <3> QED
      <4>1. CASE TakeCall(g) \/ Collected(g) \/ WaitReturns(g) \/ RecvEnds(g) \/ Ask(g)
        BY <3>3, <4>1 DEF TakeCall, Collected, WaitReturns, RecvEnds, Ask
      <4>2. CASE AskToWait(g)
        BY <3>3, <4>2 DEF AskToWait
      <4>3. CASE Drain(g)
        BY <3>2, <3>3, <4>3 DEF Drain
      <4>4. CASE Woken(g)
        BY <3>2, <3>3, <4>4 DEF Woken
      <4> QED
        BY <1>9, <4>1, <4>2, <4>3, <4>4 DEF Stirs
  <2> QED
    BY <1>2, <2>1, <2>2, <2>3, <2>4 DEF Pending
<1> QED
  BY <1>3, <1>4, <1>5, <1>6, <1>7, <1>8, <1>9, Steady

\* Only the application's own steps move it.
LEMMA Elsewhere ==
  Next => \/ Calls
          \/ /\ UNCHANGED <<call, globals>>
             /\ UNCHANGED <<recv, queue, results>> \/ \E g \in Attempts : Stirs(g)
<1> SUFFICES ASSUME NEW g \in Attempts, Threads(g) \/ SendEnds(g) \/ Arrive(g) \/ Runs(g) \/ Framed(g)
             PROVE  /\ UNCHANGED <<call, globals>>
                    /\ UNCHANGED <<recv, queue, results>> \/ Stirs(g)
  BY DEF Next
<1>1. CASE Stirs(g)
  BY <1>1, StirsKeep
<1>2. CASE SendEnds(g) \/ Arrive(g) \/ Answered(g) \/ LockReceiver(g) \/ Framed(g)
  BY <1>2 DEF SendEnds, Arrive, Answered, LockReceiver, Framed, threads
<1> QED
  BY <1>1, <1>2 DEF Threads, Runs, Stirs

\* An attempt's thread is not disturbed before init knows it.
LEMMA MakingStep == Waits /\ Next => Making'
<1> SUFFICES ASSUME Waits, Next PROVE Making'
  OBVIOUS
<1> USE DEF Waits, Typed, ThreadTypes
<1>1. CASE StoreReceiver
  <2>1. attempt + 1 \in Attempts /\ recv[attempt + 1] = "none"
    BY <1>1, LifecycleAssumption DEF StoreReceiver, Do, Room, CallTypes, Served, Attempts
  <2> QED
    BY <1>1, <2>1 DEF StoreReceiver, Do, Making, threads
<1>2. CASE SpawnRecv
  <2>1. attempt \in Attempts /\ recv[attempt] = "none" /\ receiver = attempt
    BY <1>2, LifecycleAssumption DEF SpawnRecv, Do, Making, Room, CallTypes, Attempts
  <2>2. ~Pending(attempt) /\ queue[attempt] = <<>> /\ results[attempt] = <<>>
    BY <2>1, NoneStarted DEF Served
  <2>3. recvTx # attempt
    BY <2>1, LifecycleAssumption DEF Flagged, Attempts
  <2>4. /\ UNCHANGED <<queue, results, recvTx, receiver, attempt>>
        /\ recv' = [recv EXCEPT ![attempt] = "idle"]
        /\ app' \in {"recvTx", "receiver"}
    BY <1>2 DEF SpawnRecv, Do
  <2> QED
    BY <2>1, <2>2, <2>3, <2>4 DEF Making, Pending
<1>3. CASE Calls /\ ~StoreReceiver /\ ~SpawnRecv
  <2>1. app' \notin {"spawn", "recvTx"}
    BY <1>3 DEF Calls, BeginInit, StoreRecvTx, StoreSendTx, SetGateway,
       BeginClose, CloseRecv, TakeRecvTx, Signal, JoinRecv, CloseSend, Reset, ForgetReceiver, ResetTurn,
       ShutRuntime, BeginSend, SendPage, Do
  <2> QED
    BY <2>1 DEF Making
<1>4. CASE UNCHANGED <<call, globals>> /\ UNCHANGED <<recv, queue, results>>
  BY <1>4 DEF Making, Pending, call, globals
<1>5. ASSUME NEW g \in Attempts, Stirs(g), app' \in {"spawn", "recvTx"} PROVE Making'
  <2>1. UNCHANGED <<app, attempt, receiver, recvTx>>
    BY <1>5, StirsKeep DEF call, globals
  <2>2. attempt \in Attempts /\ receiver = attempt
    BY <1>5, <2>1, LifecycleAssumption DEF Making, Room, CallTypes, Attempts
  <2>3. recvTx # attempt /\ queue[attempt] = <<>> /\ recv[attempt] \in {"none", "idle"} /\ results[attempt] = <<>>
    BY <1>5, <2>1, <2>2, LifecycleAssumption DEF Making, Flagged, Served, Pending, Attempts
  <2>4. CASE TakeCall(g) \/ Collected(g) \/ WaitReturns(g)
    <3>1. g # attempt
      BY <2>3, <2>4 DEF TakeCall, Collected, WaitReturns
    <3>2. recv'[attempt] = recv[attempt] /\ queue'[attempt] = queue[attempt] /\ results'[attempt] = results[attempt]
      <4>1. CASE TakeCall(g)
        <5>1. results' = results
          BY <4>1 DEF TakeCall
        <5>2. /\ recv' = recv \/ \E x : recv' = [recv EXCEPT ![g] = x]
              /\ queue' = queue \/ \E x : queue' = [queue EXCEPT ![g] = x]
          BY <4>1, Zenon DEF TakeCall, TakeTry
        <5> QED
          BY <2>2, <3>1, <5>1, <5>2
      <4>2. CASE Collected(g)
        BY <2>2, <3>1, <4>2 DEF Collected
      <4>3. CASE WaitReturns(g)
        BY <2>2, <3>1, <4>3 DEF WaitReturns, Result
      <4> QED
        BY <2>4, <4>1, <4>2, <4>3
    <3> QED
      BY <2>1, <2>2, <3>2 DEF Making, Pending
  <2>5. CASE RecvEnds(g)
    <3>1. g # attempt
      BY <1>5, <2>1, <2>3, <2>5 DEF RecvEnds, Reachable, Making
    <3> QED
      BY <2>1, <2>2, <2>5, <3>1 DEF Making, Pending, RecvEnds
  <2>6. CASE Ask(g) \/ AskToWait(g)
    <3>1. UNCHANGED <<recv, results>>
      BY <2>6 DEF Ask, AskToWait
    <3>2. queue'[attempt] = queue[attempt]
      BY <2>2, <2>3, <2>6, Asking
    <3> QED
      BY <2>1, <2>2, <3>1, <3>2 DEF Making, Pending
  <2>7. CASE Drain(g) \/ Woken(g)
    <3>1. UNCHANGED <<recv, queue>>
      BY <2>7 DEF Drain, Woken
    <3>2. results'[attempt] = <<>>
      BY <2>2, <2>3, <2>7, Emptied
    <3> QED
      BY <2>1, <2>2, <2>3, <3>1, <3>2 DEF Making, Pending
  <2> QED
    BY <1>5, <2>4, <2>5, <2>6, <2>7 DEF Stirs
<1> QED
  <2>1. (\E g \in Attempts : Stirs(g)) => Making'
    BY <1>5 DEF Making
  <2> QED
    BY <1>1, <1>2, <1>3, <1>4, <2>1, Elsewhere

\* Nobody sends a thread anything once close has taken its sender.
LEMMA UnaskedStep == Waits /\ Next => Unasked'
<1> SUFFICES ASSUME Waits, Next PROVE Unasked'
  OBVIOUS
<1> USE LifecycleAssumption DEF Waits, Unasked, Closing, Do
<1>1. CASE UNCHANGED <<call, globals>>
  BY <1>1 DEF call, globals
<1>2. CASE BeginInit \/ StoreReceiver \/ SpawnRecv \/ StoreRecvTx \/ StoreSendTx
  BY <1>2 DEF BeginInit, StoreReceiver, SpawnRecv, StoreRecvTx, StoreSendTx
<1>3. CASE SetGateway
  <2>1. attempt # None
    BY DEF Typed, CallTypes
  <2> QED
    BY <1>3, <2>1 DEF SetGateway
<1>4. CASE BeginClose \/ CloseRecv \/ TakeRecvTx \/ Signal
  BY <1>4 DEF BeginClose, CloseRecv, TakeRecvTx, Signal, globals
<1>5. CASE JoinRecv \/ CloseSend \/ Reset \/ ForgetReceiver
  BY <1>5 DEF JoinRecv, CloseSend, Reset, ForgetReceiver, globals
<1>6. CASE ResetTurn \/ ShutRuntime
  BY <1>6 DEF ResetTurn, ShutRuntime, globals
<1>7. CASE BeginSend \/ SendPage
  BY <1>7 DEF BeginSend, SendPage, globals
<1> QED
  BY <1>1, <1>2, <1>3, <1>4, <1>5, <1>6, <1>7, Elsewhere DEF Calls

\* All of it is kept.
LEMMA WaitsInductive ==
  /\ Init => Waits
  /\ Waits /\ [Next]_<<vars, liberties>> => Waits'
<1>1. ASSUME Init PROVE Waits
  <2>1. Typed
    BY <1>1, InitTyped
  <2>2. OneWait /\ OneResult /\ Served
    BY <1>1, Nothing DEF Init, OneWait, OneResult, Served
  <2>3. Flagged /\ Making /\ Unasked
    BY <1>1 DEF Init, Flagged, Making, Unasked, Closing
  <2> QED
    BY <2>1, <2>2, <2>3 DEF Waits
<1>2. ASSUME Waits, UNCHANGED <<vars, liberties>> PROVE Waits'
  <2>1. Typed'
    BY <1>2, TypedStep DEF Waits
  <2>2. OneWait' /\ OneResult' /\ Served' /\ Flagged' /\ Making' /\ Unasked'
    BY <1>2 DEF Waits, OneWait, OneResult, Served, Flagged, Making, Unasked, Closing, Pending,
                vars, call, globals, threads
  <2> QED
    BY <2>1, <2>2 DEF Waits
<1>3. ASSUME Waits, Next PROVE Waits'
  <2>1. Typed'
    BY <1>3, TypedStep DEF Waits
  <2> QED
    BY <1>3, <2>1, ServedStep, OneWaitStep, OneResultStep, FlaggedStep, MakingStep, UnaskedStep DEF Waits
<1> QED
  BY <1>1, <1>2, <1>3

\* wait_stream (combined.rs) is never asked of a thread that waits, is about to, or
\* has a result nobody took: with the flag reset by close as well, and two tasks.
THEOREM OneWaitAtATime == Spec => []OneWait
<1>1. Spec => []Waits
  BY WaitsInductive, PTL DEF Spec
<1> QED
  BY <1>1, PTL DEF Waits

-----------------------------------------------------------------------------
(* What close leaves behind. *)

\* Where the last init was closed, or there was none.
Returned == app \in {"idle", "close", "take", "signal", "join", "closeSend"} /\ started = None
Late     == app \in {"reset", "forget", "turn", "shut"}

\* The shutdown signal was sent.
Over == Returned \/ Late \/ app \in {"join", "closeSend"}

\* What the thread waits for, or will, is at hand.
Noted(g) == recv[g] = "waiting" \/ Has(queue[g], "wait") => event[g]

\* Every thread that waits, or will, was reached by it.
Attentive == Over => \A g \in Attempts : Noted(g)

\* The handles close joins are those of the last attempt.
Handles ==
  /\ app \in {"recvTx", "sendTx", "gateway"} => joinR = attempt
  /\ app \in {"sendTx", "gateway"} => joinS = attempt
  /\ app = "gateway" => sendTx = attempt
  /\ started # None /\ app \in {"idle", "send", "close", "take", "signal", "join"} => joinR = attempt
  /\ started # None /\ app \in {"idle", "send", "close", "take", "signal", "join", "closeSend"} =>
       joinS = attempt /\ sendTx = attempt
  /\ app = "shut" => started = None

\* They were joined.
Joined ==
  attempt # 0 =>
    /\ Returned \/ Late \/ app = "closeSend" => recv[attempt] = "ended"
    /\ Returned \/ Late => send[attempt] = "ended"

Left == Waits /\ Attentive /\ Handles /\ Joined

\* The application's own steps keep the handles.
LEMMA HandlesStep == Left /\ Next => Handles'
<1> SUFFICES ASSUME Left, Next PROVE Handles'
  OBVIOUS
<1> USE DEF Left, Handles, Do
<1>1. CASE UNCHANGED <<call, globals>>
  BY <1>1 DEF call, globals
<1>2. CASE BeginInit \/ StoreReceiver \/ SpawnRecv \/ StoreRecvTx
  BY <1>2 DEF BeginInit, StoreReceiver, SpawnRecv, StoreRecvTx
<1>3. CASE StoreSendTx \/ SetGateway
  BY <1>3 DEF StoreSendTx, SetGateway
<1>4. CASE BeginClose \/ CloseRecv \/ TakeRecvTx \/ Signal
  BY <1>4 DEF BeginClose, CloseRecv, TakeRecvTx, Signal, globals
<1>5. CASE JoinRecv \/ CloseSend \/ Reset \/ ForgetReceiver
  BY <1>5 DEF JoinRecv, CloseSend, Reset, ForgetReceiver, globals
<1>6. CASE ResetTurn \/ ShutRuntime
  BY <1>6 DEF ResetTurn, ShutRuntime, globals
<1>7. CASE BeginSend \/ SendPage
  BY <1>7 DEF BeginSend, SendPage, globals, Waits, Unasked
<1> QED
  BY <1>1, <1>2, <1>3, <1>4, <1>5, <1>6, <1>7, Elsewhere DEF Calls

\* A thread that has ended stays so, but for the one an attempt starts.
LEMMA EndedStays ==
  ASSUME Left, Next, NEW h \in Attempts
  PROVE  /\ recv[h] = "ended" /\ ~SpawnRecv => recv'[h] = "ended"
         /\ send[h] = "ended" /\ ~StoreRecvTx => send'[h] = "ended"
<1> USE DEF Left, Waits, Typed, ThreadTypes
<1>1. ASSUME recv[h] = "ended", ~SpawnRecv PROVE recv'[h] = "ended"
  <2>1. CASE UNCHANGED recv
    BY <1>1, <2>1
  <2>2. ASSUME NEW g \in Attempts, Stirs(g) PROVE recv'[h] = "ended"
    <3>1. \/ recv' = recv
          \/ recv[g] # "ended" /\ \E x : recv' = [recv EXCEPT ![g] = x]
      <4>1. CASE TakeCall(g)
        BY <4>1, Zenon DEF TakeCall, TakeTry
      <4>2. CASE Collected(g) \/ WaitReturns(g) \/ RecvEnds(g)
        BY <4>2 DEF Collected, WaitReturns, RecvEnds
      <4>3. CASE Ask(g) \/ AskToWait(g) \/ Drain(g) \/ Woken(g)
        BY <4>3 DEF Ask, AskToWait, Drain, Woken
      <4> QED
        BY <2>2, <4>1, <4>2, <4>3 DEF Stirs
    <3> QED
      BY <1>1, <3>1
  <2>3. CASE CloseRecv
    BY <2>1, <2>3 DEF CloseRecv
  <2> QED
    BY <1>1, <2>1, <2>2, <2>3, Quiet
<1>2. ASSUME send[h] = "ended", ~StoreRecvTx PROVE send'[h] = "ended"
  <2>1. \/ send' = send
        \/ \E g \in Attempts \union {sendTx} : send' = [send EXCEPT ![g] = "ended"]
    BY <1>2, Zenon DEF Next, Calls, threads, BeginInit, StoreReceiver, SpawnRecv, StoreSendTx, SetGateway,
       BeginClose, CloseRecv, TakeRecvTx, Signal, JoinRecv, CloseSend, Reset, ForgetReceiver, ResetTurn,
       ShutRuntime, BeginSend, SendPage, Threads, TakeCall, Collected, WaitReturns, RecvEnds,
       SendEnds, Arrive, Runs, Drain, Ask, Answered, AskToWait, LockReceiver, Woken, Framed
  <2> QED
    BY <1>2, <2>1
<1> QED
  BY <1>1, <1>2

\* close joins both threads of the last attempt.
LEMMA JoinedStep == Left /\ Next => Joined'
<1> SUFFICES ASSUME Left, Next, attempt' # 0 PROVE Joined'
  BY DEF Joined
<1> USE DEF Left, Waits, Typed, ThreadTypes, CallTypes, Do, Returned, Late
<1>1. CASE BeginInit \/ StoreReceiver \/ SpawnRecv \/ StoreRecvTx \/ StoreSendTx
  BY <1>1 DEF Joined, BeginInit, StoreReceiver, SpawnRecv, StoreRecvTx, StoreSendTx
<1>2. CASE SetGateway
  <2>1. app' = "idle" => started' # None
    BY <1>2, LifecycleAssumption DEF SetGateway
  <2> QED
    BY <1>2, <2>1 DEF Joined, SetGateway
<1>3. CASE ~(BeginInit \/ StoreReceiver \/ SpawnRecv \/ StoreRecvTx \/ StoreSendTx \/ SetGateway)
  <2>1. attempt' = attempt
    BY <1>3, Elsewhere DEF Calls, call, BeginClose, CloseRecv, TakeRecvTx, Signal, JoinRecv, CloseSend,
       Reset, ForgetReceiver, ResetTurn, ShutRuntime, BeginSend, SendPage
  <2>2. attempt \in Attempts
    BY <2>1, LifecycleAssumption DEF Attempts
  <2>3. /\ recv[attempt] = "ended" => recv'[attempt] = "ended"
        /\ send[attempt] = "ended" => send'[attempt] = "ended"
    BY <1>3, <2>2, EndedStays
  <2>4. CASE JoinRecv
    <3>1. recv[attempt] = "ended" /\ app' = "closeSend" /\ UNCHANGED <<recv, send, started>>
      BY <2>2, <2>4, LifecycleAssumption DEF JoinRecv, Handles, Joined, Attempts, threads
    <3>2. started = None => send[attempt] = "ended"
      BY <2>2, <2>4, LifecycleAssumption DEF JoinRecv, Joined, Attempts
    <3> QED
      BY <2>1, <3>1, <3>2 DEF Joined
  <2>5. CASE CloseSend
    <3>1. recv[attempt] = "ended" /\ UNCHANGED recv
      BY <2>2, <2>5, LifecycleAssumption DEF CloseSend, Joined, Attempts
    <3>2. send'[attempt] = "ended"
      <4>1. CASE started = None
        BY <2>2, <2>3, <2>5, <4>1, LifecycleAssumption DEF CloseSend, Joined, Attempts
      <4>2. CASE started # None
        BY <2>2, <2>5, <4>2, LifecycleAssumption DEF CloseSend, Handles, Attempts
      <4> QED
        BY <4>1, <4>2
    <3> QED
      BY <2>1, <3>1, <3>2 DEF Joined
  <2>6. CASE ~JoinRecv /\ ~CloseSend
    <3>1. /\ (Returned \/ Late \/ app = "closeSend")' => Returned \/ Late \/ app = "closeSend"
          /\ (Returned \/ Late)' => Returned \/ Late
      <4>1. CASE UNCHANGED <<call, globals>>
        BY <4>1 DEF call
      <4>2. CASE BeginClose \/ CloseRecv \/ TakeRecvTx \/ Signal \/ Reset \/ ForgetReceiver
        BY <4>2 DEF BeginClose, CloseRecv, TakeRecvTx, Signal, Reset, ForgetReceiver
      <4>3. CASE ResetTurn \/ ShutRuntime
        BY <4>3 DEF ResetTurn, ShutRuntime
      <4>4. CASE BeginSend \/ SendPage
        BY <4>4 DEF BeginSend, SendPage, Unasked
      <4> QED
        BY <1>3, <2>6, <4>1, <4>2, <4>3, <4>4, Elsewhere DEF Calls
    <3> QED
      BY <2>1, <2>2, <2>3, <3>1, LifecycleAssumption DEF Joined, Attempts
  <2> QED
    BY <2>4, <2>5, <2>6
<1> QED
  BY <1>1, <1>2, <1>3

\* A wait that is pending in a thread was asked for before.
LEMMA TakenWait ==
  ASSUME Left, NEW g \in Attempts, TakeCall(g) \/ Collected(g) \/ WaitReturns(g), NEW h \in Attempts,
         recv'[h] = "waiting" \/ Has(queue'[h], "wait")
  PROVE  recv[h] = "waiting" \/ Has(queue[h], "wait")
<1> USE DEF Left, Waits, Typed, ThreadTypes
<1>1. queue[h] \in Queues
  OBVIOUS
<1>2. CASE TakeCall(g) /\ h = g
  <2>1. queue[h] # <<>>
    BY <1>2 DEF TakeCall
  <2>2. \/ queue'[h] = queue[h] \/ queue'[h] = Tail(queue[h]) \/ queue'[h] = <<>>
    BY <1>2 DEF TakeCall, TakeTry
  <2>3. Has(queue'[h], "wait") => Has(queue[h], "wait")
    BY <1>1, <2>1, <2>2, Taken, Nothing
  <2>4. recv'[h] = "waiting" => Head(queue[h]).call = "wait"
    BY <1>2 DEF TakeCall, TakeTry
  <2>5. Has(queue[h], Head(queue[h]).call)
    BY <1>1, <2>1, Taken
  <2> QED
    BY <2>3, <2>4, <2>5
<1>3. CASE Collected(g) /\ h = g
  <2>1. queue[h] # <<>> /\ queue'[h] = Tail(queue[h]) /\ recv'[h] = "idle"
    BY <1>3 DEF Collected, Collecting
  <2> QED
    BY <1>1, <2>1, Taken
<1>4. CASE TakeCall(g) /\ h # g
  <2>1. /\ recv' = recv \/ \E x : recv' = [recv EXCEPT ![g] = x]
        /\ queue' = queue \/ \E x : queue' = [queue EXCEPT ![g] = x]
    BY <1>4, Zenon DEF TakeCall, TakeTry
  <2> QED
    BY <1>4, <2>1
<1>5. CASE Collected(g) /\ h # g
  BY <1>5 DEF Collected
<1>6. CASE WaitReturns(g)
  BY <1>6 DEF WaitReturns
<1> QED
  BY <1>2, <1>3, <1>4, <1>5, <1>6

\* Events are at hand until the wait they end has returned.
LEMMA NotedStep ==
  ASSUME Left, Next, NEW h \in Attempts, Noted(h), \A g \in Attempts : AskToWait(g) => h # recvTx
  PROVE  Noted(h)'
<1> SUFFICES ASSUME recv'[h] = "waiting" \/ Has(queue'[h], "wait") PROVE event'[h]
  BY DEF Noted
<1> USE DEF Left, Waits, Typed, ThreadTypes
<1>1. recv[h] = "waiting" \/ Has(queue[h], "wait")
  <2>1. CASE UNCHANGED <<recv, queue, results>>
    BY <2>1
  <2>2. CASE SpawnRecv
    BY <2>2 DEF SpawnRecv
  <2>3. CASE CloseRecv
    <3>1. recv' = recv /\ (queue'[h] = queue[h] \/ queue'[h] = Append(queue[h], Call("close", 0)))
      BY <2>3 DEF CloseRecv
    <3>2. queue[h] \in Queues /\ Call("close", 0).call # "wait"
      BY DEF Call
    <3>3. Has(Append(queue[h], Call("close", 0)), "wait") => Has(queue[h], "wait")
      BY <3>2, Added, AllCalls
    <3> QED
      BY <3>1, <3>3
  <2>4. ASSUME NEW g \in Attempts, Stirs(g) PROVE recv[h] = "waiting" \/ Has(queue[h], "wait")
    <3>1. CASE TakeCall(g) \/ Collected(g) \/ WaitReturns(g)
      BY <3>1, TakenWait
    <3>2. CASE RecvEnds(g) \/ Drain(g) \/ Woken(g)
      BY <3>2 DEF RecvEnds, Drain, Woken
    <3>3. CASE Ask(g) \/ AskToWait(g)
      <4>1. recv' = recv /\ (queue'[h] = queue[h] \/ queue'[h] = Append(queue[h], Call("try", g)))
        BY <3>3, Asking DEF Ask, AskToWait
      <4>2. queue[h] \in Queues /\ Call("try", g).call # "wait"
        BY DEF Call
      <4>3. Has(Append(queue[h], Call("try", g)), "wait") => Has(queue[h], "wait")
        BY <4>2, Added, AllCalls
      <4> QED
        BY <4>1, <4>3
    <3> QED
      BY <2>4, <3>1, <3>2, <3>3 DEF Stirs
  <2> QED
    BY <2>1, <2>2, <2>3, <2>4, Quiet
<1>2. event[h]
  BY <1>1 DEF Noted
<1>3. CASE event' = event
  BY <1>2, <1>3
<1>4. CASE Signal
  BY <1>2, <1>4, Zenon DEF Signal
<1>5. CASE SendPage \/ \E g \in Attempts : Arrive(g)
  BY <1>2, <1>5, Zenon DEF SendPage, Arrive, Flags
<1>6. ASSUME NEW g \in Attempts, WaitReturns(g) PROVE event'[h]
  <2>1. h # g
    BY <1>6, Nothing DEF WaitReturns, OneWait
  <2> QED
    BY <1>2, <1>6, <2>1 DEF WaitReturns, Flags
<1> QED
  BY <1>3, <1>4, <1>5, <1>6, Zenon
  DEF Next, Calls, threads, BeginInit, StoreReceiver, SpawnRecv, StoreRecvTx, StoreSendTx, SetGateway,
      BeginClose, CloseRecv, TakeRecvTx, JoinRecv, CloseSend, Reset, ForgetReceiver, ResetTurn,
      ShutRuntime, BeginSend, Threads, TakeCall, Collected, RecvEnds,
      SendEnds, Runs, Drain, Ask, Answered, AskToWait, LockReceiver, Woken, Framed

\* The signal is kept until the wait that it ends has returned.
LEMMA AttentiveStep == Left /\ Next => Attentive'
<1> SUFFICES ASSUME Left, Next, Over', NEW h \in Attempts, recv'[h] = "waiting" \/ Has(queue'[h], "wait")
             PROVE  event'[h]
  BY DEF Attentive, Noted
<1> USE DEF Left, Waits, Typed, ThreadTypes
<1>1. CASE Signal
  <2>1. UNCHANGED <<recv, queue, started>> /\ app = "signal"
    BY <1>1 DEF Signal, Do
  <2>2. CASE started = None
    BY <1>1, <2>1, <2>2, Zenon DEF Attentive, Noted, Over, Returned, Signal
  <2>3. CASE started # None
    <3>1. sendTx # None
      BY <2>1, <2>3, LifecycleAssumption DEF Handles, CallTypes
    <3>2. recv[h] \in {"idle", "collect", "waiting"}
      <4>1. recv[h] \in {"none", "ended"} => ~Has(queue[h], "wait")
        BY Nothing DEF Served
      <4> QED
        BY <2>1, <4>1
    <3> QED
      BY <1>1, <3>1, <3>2, Zenon DEF Signal
  <2> QED
    BY <2>2, <2>3
<1>2. CASE ~Signal
  <2>1. Over
    <3>1. CASE UNCHANGED <<call, globals>>
      BY <3>1 DEF Over, Returned, Late, call
    <3>2. CASE BeginInit \/ StoreReceiver \/ SpawnRecv \/ StoreRecvTx \/ StoreSendTx
      BY <3>2 DEF Over, Returned, Late, Do, BeginInit, StoreReceiver, SpawnRecv, StoreRecvTx, StoreSendTx
    <3>3. CASE SetGateway
      <4>1. app' = "idle" => started' # None
        BY <3>3, LifecycleAssumption DEF SetGateway, CallTypes
      <4> QED
        BY <3>3, <4>1 DEF Over, Returned, Late, Do, SetGateway
    <3>4. CASE BeginClose \/ CloseRecv \/ TakeRecvTx
      BY <3>4 DEF Over, Returned, Late, Do, BeginClose, CloseRecv, TakeRecvTx
    <3>5. CASE JoinRecv \/ CloseSend \/ Reset \/ ForgetReceiver \/ ResetTurn \/ ShutRuntime
      BY <3>5 DEF Over, Returned, Late, Do, JoinRecv, CloseSend, Reset, ForgetReceiver, ResetTurn, ShutRuntime
    <3>6. CASE BeginSend \/ SendPage
      BY <3>6 DEF Over, Returned, Late, Do, BeginSend, SendPage, Unasked
    <3> QED
      BY <1>2, <3>1, <3>2, <3>3, <3>4, <3>5, <3>6, Elsewhere DEF Calls
  <2>2. recvTx = None
    BY <2>1 DEF Over, Returned, Late, Unasked, Closing
  <2>3. Noted(h) /\ \A g \in Attempts : AskToWait(g) => h # recvTx
    BY <2>1, <2>2, LifecycleAssumption DEF Attentive, Attempts
  <2> QED
    BY <2>3, NotedStep DEF Noted
<1> QED
  BY <1>1, <1>2

\* All of it is kept.
LEMMA LeftInductive ==
  /\ Init => Left
  /\ Left /\ [Next]_<<vars, liberties>> => Left'
<1>1. ASSUME Init PROVE Left
  <2>1. Waits
    BY <1>1, WaitsInductive
  <2>2. Attentive /\ Handles /\ Joined
    BY <1>1, Nothing DEF Init, Attentive, Noted, Handles, Joined
  <2> QED
    BY <2>1, <2>2 DEF Left
<1>2. ASSUME Left, UNCHANGED <<vars, liberties>> PROVE Left'
  <2>1. Waits'
    BY <1>2, WaitsInductive DEF Left
  <2>2. Attentive' /\ Handles' /\ Joined'
    BY <1>2 DEF Left, Attentive, Noted, Handles, Joined, Over, Returned, Late, vars, call, globals, threads
  <2> QED
    BY <2>1, <2>2 DEF Left
<1>3. ASSUME Left, Next PROVE Left'
  <2>1. Waits'
    BY <1>3, WaitsInductive DEF Left
  <2> QED
    BY <1>3, <2>1, AttentiveStep, HandlesStep, JoinedStep DEF Left
<1> QED
  BY <1>1, <1>2, <1>3

\* Once close has returned (combined.rs) both threads of the attempt have ended, and
\* none of an attempt that failed is left waiting for events that may not come.
THEOREM CloseLeavesNothing == Spec => []CloseIsFinal
<1>1. Spec => []Left
  BY LeftInductive, PTL DEF Spec
<1>2. Left => CloseIsFinal
  BY Zenon DEF Left, Joined, Attentive, Noted, Over, Returned, CloseIsFinal
<1> QED
  BY <1>1, <1>2, PTL

-----------------------------------------------------------------------------
(* The gateway. *)

\* Once it was set it is never unset, and only sc_close ends it.
Serving ==
  /\ "own_runtime" \notin liberties => gateway # "gone" /\ app # "shut"
  /\ started # None => gateway # "unset"

\* Attempts that fail after the gateway was set, close and init again leave it (combined.rs);
\* only dropping the runtime ends it.
THEOREM GatewayStays == Spec => []GatewayGoesOn
<1> DEFINE Inv == Typed /\ Serving
<1>1. Init => Inv
  <2>1. Init => Serving
    BY DEF Init, Serving
  <2> QED
    BY <2>1, InitTyped
<1>2. Inv /\ [Next]_<<vars, liberties>> => Inv'
  <2>1. ASSUME Inv, UNCHANGED <<vars, liberties>> PROVE Serving'
    BY <2>1 DEF Serving, vars, call, globals
  <2>2. ASSUME Inv, Next PROVE Serving'
    <3> USE <2>2 DEF Serving, Typed, CallTypes
    <3>1. liberties' = liberties
      BY DEF Next
    <3>2. CASE UNCHANGED <<call, globals>>
      BY <3>1, <3>2 DEF call, globals
    <3>3. CASE SetGateway
      BY <3>1, <3>3 DEF SetGateway, Do
    <3>4. CASE ResetTurn \/ ShutRuntime
      BY <3>1, <3>4 DEF ResetTurn, ShutRuntime, globals, Do
    <3>5. CASE ~SetGateway /\ ~ResetTurn /\ ~ShutRuntime /\ Calls
      <4>1. UNCHANGED <<started, gateway>>
        BY <3>5 DEF Calls, globals, BeginInit, StoreReceiver, SpawnRecv, StoreRecvTx, StoreSendTx,
          BeginClose, CloseRecv, TakeRecvTx, Signal, JoinRecv, CloseSend, Reset, ForgetReceiver, BeginSend, SendPage
      <4>2. app' # "shut"
        BY <3>5 DEF Calls, Do, BeginInit, StoreReceiver, SpawnRecv, StoreRecvTx, StoreSendTx,
          BeginClose, CloseRecv, TakeRecvTx, Signal, JoinRecv, CloseSend, Reset, ForgetReceiver, BeginSend, SendPage
      <4> QED
        BY <3>1, <4>1, <4>2
    <3> QED
      BY <3>2, <3>3, <3>4, <3>5, Elsewhere
  <2> QED
    BY <2>1, <2>2, TypedStep
<1>3. Inv => GatewayGoesOn
  BY DEF Typed, CallTypes, Serving, GatewayGoesOn, GatewayServes
<1> QED
  BY <1>1, <1>2, <1>3, PTL DEF Spec

-----------------------------------------------------------------------------
(* The flag is never set for nothing, if no wait failed. *)

\* An application that closes before it initialises again, when the task is gone.
Orderly == liberties \intersect {"early", "unclosed"} = {}

Initialises == app \in {"receiver", "spawn", "recvTx", "sendTx", "gateway"}
Ready       == app \in {"sendTx", "gateway"} \/ (app \in {"idle", "send"} /\ started # None)
Settled     == Initialises \/ app \in {"forget", "turn", "shut"} \/ Returned

\* init begins with no task, and the flag down.
Undisturbed ==
  /\ Initialises => (\A g \in Attempts : ~Alive(g)) /\ started = None
  /\ Settled => ~blocked

Error(r) == \E i \in 1 .. Len(r) : r[i] = "error"

\* The thread that is asked is the one whose results are received, and it has not been closed.
Matched == recvTx = attempt /\ receiver = attempt /\ ~Has(queue[attempt], "close")

\* As long as no wait failed, the flag stands for a wait.
Meant ==
  Ready => Matched /\ (failed \/ (~Error(results[attempt]) /\ (blocked => Pending(attempt))))

Honest == Left /\ (Orderly => Undisturbed /\ Meant)

\* A task that is gone does nothing.
LEMMA NobodyRuns ==
  ASSUME Typed, Next, \A g \in Attempts : ~Alive(g)
  PROVE  SetGateway \/ (task' = task /\ (blocked' => blocked)) \/ (ShutRuntime /\ blocked' = blocked)
<1>1. CASE Calls /\ ~SetGateway /\ ~ShutRuntime
  <2>1. task' = task
    BY <1>1 DEF tasks, Calls, BeginInit, StoreReceiver, SpawnRecv, StoreRecvTx, StoreSendTx,
       BeginClose, CloseRecv, TakeRecvTx, Signal, JoinRecv, CloseSend, Reset, ForgetReceiver, ResetTurn, BeginSend, SendPage
  <2>2. blocked' = blocked \/ blocked' = FALSE
    BY <1>1 DEF Calls, BeginInit, StoreReceiver, SpawnRecv, StoreRecvTx, StoreSendTx,
       BeginClose, CloseRecv, TakeRecvTx, Signal, JoinRecv, CloseSend, Reset, ForgetReceiver, ResetTurn, BeginSend, SendPage
  <2> QED
    BY <2>1, <2>2
<1>2. CASE ShutRuntime
  BY <1>2 DEF ShutRuntime
<1>3. ASSUME NEW g \in Attempts, Threads(g) \/ SendEnds(g) \/ Arrive(g) PROVE task' = task /\ blocked' = blocked
  BY <1>3 DEF Threads, TakeCall, Collected, WaitReturns, RecvEnds, SendEnds, Arrive, tasks
<1>4. ASSUME NEW g \in Attempts, Runs(g) \/ Framed(g) PROVE FALSE
  <2>1. task[g] \in {"try", "ask", "asked", "out", "lock", "await"}
    BY <1>4 DEF Runs, Framed, Drain, Ask, Answered, AskToWait, LockReceiver, Woken, At, Step, Fails
  <2> QED
    BY <2>1 DEF Alive
<1> QED
  BY <1>1, <1>2, <1>3, <1>4 DEF Next

\* The flag is set by a task that finds a thread to ask.
LEMMA Blocking == Next => (blocked' => blocked) \/ \E g \in Attempts : AskToWait(g) /\ recvTx # None /\ Alive(g)
<1> SUFFICES ASSUME Next PROVE (blocked' => blocked) \/ \E g \in Attempts : AskToWait(g) /\ recvTx # None /\ Alive(g)
  OBVIOUS
<1>1. CASE Calls
  <2>1. blocked' = blocked \/ blocked' = FALSE
    BY <1>1 DEF Calls, BeginInit, StoreReceiver, SpawnRecv, StoreRecvTx, StoreSendTx, SetGateway, ShutRuntime,
       BeginClose, CloseRecv, TakeRecvTx, Signal, JoinRecv, CloseSend, Reset, ForgetReceiver, ResetTurn, BeginSend, SendPage
  <2> QED
    BY <2>1
<1>2. ASSUME NEW g \in Attempts, Threads(g) \/ SendEnds(g) \/ Arrive(g) \/ Framed(g) \/ Ask(g) \/ Answered(g) \/ LockReceiver(g)
      PROVE  blocked' = blocked
  BY <1>2 DEF Threads, TakeCall, Collected, WaitReturns, RecvEnds, SendEnds, Arrive, Framed, Ask, Answered, LockReceiver
<1>3. ASSUME NEW g \in Attempts, Drain(g) \/ Woken(g) PROVE blocked' = blocked \/ blocked' = FALSE
  BY <1>3, Zenon DEF Drain, Woken, HandleResults
<1>4. ASSUME NEW g \in Attempts, AskToWait(g) PROVE blocked' = blocked \/ (recvTx # None /\ Alive(g))
  BY <1>4 DEF AskToWait, At, Alive
<1> QED
  BY <1>1, <1>2, <1>3, <1>4 DEF Next, Runs

\* init and close leave the flag down.
LEMMA UndisturbedStep == Honest /\ Orderly /\ Next => Undisturbed'
<1> SUFFICES ASSUME Honest, Orderly, Next PROVE Undisturbed'
  OBVIOUS
<1> USE DEF Honest, Left, Waits, Undisturbed, Settled, Initialises, Returned
<1>1. Settled /\ ~Reset => ~blocked'
  <2>1. ASSUME Settled, NEW g \in Attempts, AskToWait(g), recvTx # None, Alive(g) PROVE FALSE
    BY <2>1 DEF Unasked, Closing
  <2> QED
    BY <2>1, Blocking
<1>2. CASE UNCHANGED <<call, globals>>
  <2>1. UNCHANGED <<app, started>>
    BY <1>2 DEF call
  <2>2. Settled' => ~blocked'
    <3>1. ~Reset \/ ~blocked'
      BY DEF Reset
    <3> QED
      BY <1>1, <2>1, <3>1
  <2>3. Initialises' => (\A g \in Attempts : ~Alive(g))' /\ started' = None
    <3>1. ASSUME Initialises PROVE \A g \in Attempts : ~Alive(g)'
      <4>1. ~SetGateway \/ started' # started \/ app' # app
        BY <3>1, LifecycleAssumption DEF SetGateway, Do, Typed, CallTypes
      <4>2. ~ShutRuntime
        BY <3>1 DEF ShutRuntime, Do
      <4>3. task' = task
        BY <2>1, <3>1, <4>1, <4>2, NobodyRuns
      <4> QED
        BY <3>1, <4>3 DEF Alive
    <3> QED
      BY <2>1, <3>1
  <2> QED
    BY <2>2, <2>3
<1>3. CASE BeginInit
  <2>1. started = None /\ (\A g \in Attempts : ~Alive(g)) /\ app = "idle" /\ UNCHANGED <<task, started, blocked>>
    BY <1>3 DEF BeginInit, Orderly, Do, tasks
  <2> QED
    BY <2>1 DEF Alive
<1>4. CASE StoreReceiver \/ SpawnRecv \/ StoreRecvTx \/ StoreSendTx
  <2>1. Initialises /\ UNCHANGED <<task, started, blocked>>
    BY <1>4 DEF StoreReceiver, SpawnRecv, StoreRecvTx, StoreSendTx, Do, tasks
  <2> QED
    BY <2>1 DEF Alive
<1>5. CASE SetGateway
  <2>1. Initialises /\ UNCHANGED blocked /\ (app' = "receiver" => UNCHANGED <<task, started>>) /\ app' \in {"idle", "receiver"}
    BY <1>5 DEF SetGateway, Do
  <2> QED
    BY <2>1 DEF Alive
<1>6. CASE BeginClose \/ CloseRecv \/ TakeRecvTx \/ Signal \/ JoinRecv
  BY <1>6 DEF BeginClose, CloseRecv, TakeRecvTx, Signal, JoinRecv, Do
<1>7. CASE CloseSend \/ Reset \/ ForgetReceiver
  BY <1>7 DEF CloseSend, Reset, ForgetReceiver, Do
<1>8. CASE ResetTurn \/ ShutRuntime
  BY <1>8 DEF ResetTurn, ShutRuntime, Do
<1>9. CASE BeginSend \/ SendPage
  BY <1>9 DEF BeginSend, SendPage, Do, Unasked
<1> QED
  BY <1>2, <1>3, <1>4, <1>5, <1>6, <1>7, <1>8, <1>9, Elsewhere DEF Calls

\* What a result that is added changes.
LEMMA ResultAdded ==
  ASSUME NEW r \in Results, NEW x \in {"ok", "error"}
  PROVE  /\ Append(r, x) # <<>>
         /\ Error(Append(r, x)) <=> Error(r) \/ x = "error"
<1> DEFINE s == Append(r, x)
<1>1. /\ s \in Seq({"ok", "error"}) /\ s # <<>> /\ Len(s) = Len(r) + 1 /\ Len(r) \in Nat
      /\ \A i \in 1 .. Len(r) : s[i] = r[i]
      /\ s[Len(r) + 1] = x
  BY AppendProperties, LenProperties DEF Results
<1> HIDE DEF s
<1>2. Error(s) <=> Error(r) \/ x = "error"
  BY <1>1 DEF Error
<1> QED
  BY <1>1, <1>2 DEF s

\* Results that are all good clear the flag.
LEMMA AllGood ==
  ASSUME NEW r \in Results, ~Error(r), r # <<>>
  PROVE  "ok" \in {r[i] : i \in DOMAIN r}
<1>1. DOMAIN r = 1 .. Len(r) /\ Len(r) > 0 /\ \A i \in 1 .. Len(r) : r[i] \in {"ok", "error"}
  BY EmptySeq, LenProperties DEF Results
<1>2. 1 \in DOMAIN r /\ r[1] = "ok"
  BY <1>1 DEF Error
<1> QED
  BY <1>2, Zenon

\* A thread that is asked keeps to what was asked of it.
LEMMA MeantStirs ==
  ASSUME Left, Matched, attempt \in Attempts, NEW g \in Attempts, Stirs(g)
  PROVE  /\ Matched'
         /\ failed => failed'
         /\ ~Error(results[attempt]) => failed' \/ ~Error(results'[attempt])
         /\ ~Error(results[attempt]) /\ (blocked => Pending(attempt)) => (blocked' => Pending(attempt)')
<1> USE DEF Left, Waits, Typed, ThreadTypes, Matched
<1>1. UNCHANGED <<attempt, recvTx, receiver>> /\ recvTx \in Attempts
  BY StirsKeep DEF call, globals
<1>2. queue[attempt] \in Queues /\ results[attempt] \in Results
  OBVIOUS
<1>3. failed => failed'
  BY DEF Stirs, TakeCall, Collected, WaitReturns, RecvEnds, Ask, AskToWait, Drain, Woken
<1>4. CASE TakeCall(g)
  <2>1. UNCHANGED <<results, blocked>>
    BY <1>4 DEF TakeCall
  <2>2. CASE g # attempt
    <3>1. /\ recv' = recv \/ \E x : recv' = [recv EXCEPT ![g] = x]
          /\ queue' = queue \/ \E x : queue' = [queue EXCEPT ![g] = x]
      BY <1>4, Zenon DEF TakeCall, TakeTry
    <3>2. recv'[attempt] = recv[attempt] /\ queue'[attempt] = queue[attempt]
      BY <2>2, <3>1
    <3> QED
      BY <1>1, <1>3, <2>1, <3>2 DEF Pending
  <2>3. CASE g = attempt
    <3>1. queue[attempt] # <<>> /\ recv[attempt] = "idle"
      BY <1>4, <2>3 DEF TakeCall
    <3>2. Head(queue[attempt]).call # "close"
      BY <1>2, <3>1, Taken
    <3>3. queue'[attempt] = queue[attempt] \/ queue'[attempt] = Tail(queue[attempt])
      BY <1>4, <2>3, <3>2 DEF TakeCall, TakeTry
    <3>4. ~Has(queue'[attempt], "close")
      BY <1>2, <3>1, <3>3, Taken
    <3>5. Has(queue[attempt], "wait") => Has(queue'[attempt], "wait") \/ recv'[attempt] = "waiting"
      <4>1. Head(queue[attempt]).call = "wait" => recv'[attempt] = "waiting"
        BY <1>4, <2>3 DEF TakeCall, TakeTry
      <4> QED
        BY <1>2, <3>1, <3>3, <4>1, Taken
    <3> QED
      BY <1>1, <1>3, <2>1, <3>1, <3>4, <3>5 DEF Pending
  <2> QED
    BY <2>2, <2>3
<1>5. CASE Collected(g)
  <2>1. UNCHANGED <<results, blocked>>
    BY <1>5 DEF Collected
  <2>2. CASE g # attempt
    BY <1>1, <1>3, <1>5, <2>1, <2>2 DEF Collected, Pending
  <2>3. CASE g = attempt
    <3>1. /\ queue[attempt] # <<>> /\ Head(queue[attempt]).call = "try"
          /\ queue'[attempt] = Tail(queue[attempt]) /\ recv[attempt] = "collect"
      BY <1>5, <2>3 DEF Collected, Collecting
    <3>2. ~Has(queue'[attempt], "close") /\ (Has(queue[attempt], "wait") => Has(queue'[attempt], "wait"))
      BY <1>2, <3>1, Taken
    <3> QED
      BY <1>1, <1>3, <2>1, <3>1, <3>2 DEF Pending
  <2> QED
    BY <2>2, <2>3
<1>6. CASE WaitReturns(g)
  <2>1. UNCHANGED <<queue, blocked>>
    BY <1>6 DEF WaitReturns
  <2>2. CASE g # attempt
    BY <1>1, <1>3, <1>6, <2>1, <2>2 DEF WaitReturns, Result, Pending
  <2>3. CASE g = attempt
    <3>1. \/ results'[attempt] = Append(results[attempt], "ok")
          \/ results'[attempt] = Append(results[attempt], "error") /\ failed'
      BY <1>6, <2>3 DEF WaitReturns, Result
    <3>2. results'[attempt] # <<>>
      BY <1>2, <3>1, ResultAdded
    <3>3. failed' \/ (~Error(results[attempt]) => ~Error(results'[attempt]))
      BY <1>2, <3>1, ResultAdded
    <3> QED
      BY <1>1, <1>3, <2>1, <3>2, <3>3 DEF Pending
  <2> QED
    BY <2>2, <2>3
<1>7. CASE RecvEnds(g)
  <2>1. g # attempt
    BY <1>7 DEF RecvEnds, Reachable
  <2> QED
    BY <1>1, <1>3, <1>7, <2>1 DEF RecvEnds, Pending
<1>8. CASE Ask(g) \/ AskToWait(g)
  <2>1. UNCHANGED <<recv, results>>
    BY <1>8 DEF Ask, AskToWait
  <2>2. Call("try", g).call = "try" /\ Call("wait", g).call = "wait"
    BY DEF Call
  <2>3. CASE queue'[attempt] = queue[attempt] /\ blocked' = blocked
    BY <1>1, <1>3, <2>1, <2>3 DEF Pending
  <2>4. CASE queue'[attempt] = Append(queue[attempt], Call("try", g)) /\ blocked' = blocked
    <3>1. ~Has(queue'[attempt], "close") /\ (Has(queue[attempt], "wait") => Has(queue'[attempt], "wait"))
      BY <1>2, <2>2, <2>4, Added, AllCalls
    <3> QED
      BY <1>1, <1>3, <2>1, <2>4, <3>1 DEF Pending
  <2>5. CASE queue'[attempt] = Append(queue[attempt], Call("wait", g))
    <3>1. ~Has(queue'[attempt], "close") /\ Has(queue'[attempt], "wait")
      BY <1>2, <2>2, <2>5, Added, AllCalls
    <3> QED
      BY <1>1, <1>3, <2>1, <3>1 DEF Pending
  <2> QED
    <3>1. CASE Ask(g)
      BY <2>3, <2>4, <3>1 DEF Ask
    <3>2. CASE AskToWait(g)
      BY <1>1, <2>3, <2>5, <3>2 DEF AskToWait
    <3> QED
      BY <1>8, <3>1, <3>2
<1>9. CASE Drain(g) \/ Woken(g)
  <2>1. UNCHANGED <<recv, queue>>
    BY <1>9 DEF Drain, Woken
  <2>2. CASE UNCHANGED <<blocked, results>>
    BY <1>1, <1>3, <2>1, <2>2 DEF Pending
  <2>3. CASE HandleResults
    <3>1. results'[attempt] = <<>>
      BY <1>1, <2>3, Handling
    <3>2. ~Error(results'[attempt])
      BY <3>1 DEF Error
    <3>3. ASSUME ~Error(results[attempt]), blocked => Pending(attempt), blocked' PROVE Pending(attempt)'
      <4>1. results[attempt] = <<>>
        BY <1>1, <1>2, <2>3, <3>3, AllGood, Handling
      <4>2. blocked
        BY <1>1, <2>3, <3>3, Handling
      <4> QED
        BY <1>1, <2>1, <3>1, <3>3, <4>1, <4>2 DEF Pending
    <3> QED
      BY <1>1, <1>3, <2>1, <3>2, <3>3
  <2> QED
    BY <1>9, <2>2, <2>3 DEF Drain, Woken
<1> QED
  BY <1>4, <1>5, <1>6, <1>7, <1>8, <1>9 DEF Stirs

\* It is so from the moment init knows the thread until close.
LEMMA MeantStep == Honest /\ Orderly /\ Next => Meant'
<1> SUFFICES ASSUME Honest, Orderly, Next, Ready' PROVE Meant'
  BY DEF Meant
<1> USE DEF Honest
<1>1. CASE StoreRecvTx
  <2>1. /\ receiver = attempt /\ ~Pending(attempt) /\ queue[attempt] = <<>> /\ app = "recvTx"
    BY <1>1 DEF StoreRecvTx, Do, Left, Waits, Making
  <2>2. recvTx' = attempt /\ UNCHANGED <<attempt, receiver, queue, results, blocked, recv>>
    BY <1>1 DEF StoreRecvTx
  <2>3. ~Has(<<>>, "close") /\ ~Error(<<>>)
    BY Nothing DEF Error
  <2>4. results[attempt] = <<>> /\ ~blocked
    BY <2>1 DEF Pending, Undisturbed, Settled, Initialises
  <2> QED
    BY <2>1, <2>2, <2>3, <2>4 DEF Meant, Matched
<1>2. CASE StoreSendTx \/ SetGateway
  <2>1. UNCHANGED <<attempt, receiver, recvTx, queue, results, blocked, recv, failed>> /\ Ready
    BY <1>2 DEF StoreSendTx, SetGateway, Do, threads, Ready, aside
  <2> QED
    BY <2>1 DEF Meant, Matched, Pending
<1>3. CASE BeginSend \/ SendPage
  <2>1. UNCHANGED <<attempt, receiver, recvTx, queue, results, blocked, recv, failed>> /\ Ready
    BY <1>3 DEF BeginSend, SendPage, Do, threads, globals, Ready, Left, Waits, Unasked
  <2> QED
    BY <2>1 DEF Meant, Matched, Pending
<1>4. CASE Calls /\ ~StoreRecvTx /\ ~StoreSendTx /\ ~SetGateway /\ ~BeginSend /\ ~SendPage
  <2>1. app' \notin {"sendTx", "gateway", "send"}
    BY <1>4 DEF Calls, Do, BeginInit, StoreReceiver, SpawnRecv, BeginClose, CloseRecv, TakeRecvTx, Signal,
                JoinRecv, CloseSend, Reset, ForgetReceiver, ResetTurn, ShutRuntime
  <2>2. app' = "idle" => started' = None
    BY <1>4 DEF Calls, Do, BeginInit, StoreReceiver, SpawnRecv, BeginClose, CloseRecv, TakeRecvTx, Signal,
                JoinRecv, CloseSend, Reset, ForgetReceiver, ResetTurn, ShutRuntime, Left, Handles
  <2> QED
    BY <2>1, <2>2 DEF Ready
<1>5. CASE UNCHANGED <<call, globals>>
  <2>1. Ready /\ UNCHANGED <<attempt, receiver, recvTx>>
    BY <1>5 DEF Ready, call, globals
  <2>2. attempt \in Attempts
    <3>1. attempt # 0
      BY <2>1, LifecycleAssumption DEF Ready, Left, Handles, Waits, Typed, Room, CallTypes, Attempts
    <3> QED
      BY <3>1, LifecycleAssumption DEF Left, Waits, Typed, CallTypes, Attempts
  <2>3. ASSUME NEW g \in Attempts, Stirs(g) PROVE Meant'
    BY <2>1, <2>2, <2>3, MeantStirs DEF Meant, Ready
  <2>4. CASE UNCHANGED <<recv, queue, results, blocked, failed>>
    BY <2>1, <2>4 DEF Meant, Matched, Pending
  <2>5. UNCHANGED <<recv, queue, results, blocked, failed>> \/ \E g \in Attempts : Stirs(g)
    <3>1. ~Calls \/ (UNCHANGED <<recv, queue, results, blocked, failed>>)
      BY <1>5 DEF Calls, Do, call, BeginInit, StoreReceiver, SpawnRecv, StoreRecvTx, StoreSendTx, SetGateway,
                BeginClose, CloseRecv, TakeRecvTx, Signal, JoinRecv, CloseSend, Reset, ForgetReceiver,
                ResetTurn, ShutRuntime, BeginSend, SendPage
    <3>2. ASSUME NEW g \in Attempts, SendEnds(g) \/ Arrive(g) \/ Answered(g) \/ LockReceiver(g) \/ Framed(g)
          PROVE UNCHANGED <<recv, queue, results, blocked, failed>>
      BY <3>2 DEF SendEnds, Arrive, Answered, LockReceiver, Framed, threads
    <3> QED
      BY <3>1, <3>2 DEF Next, Threads, Runs, Stirs
  <2> QED
    BY <2>3, <2>4, <2>5
<1> QED
  BY <1>1, <1>2, <1>3, <1>4, <1>5, Elsewhere

\* Whenever the application is between calls and iceoryx2 is taken to be waiting (combined.rs),
\* it is, was, or will be, unless a wait failed or init met the task of another init.
THEOREM FlagIsHonest == Spec => []BlockedForAReason
<1>1. Init => Honest
  <2>1. ASSUME Init PROVE Undisturbed /\ Meant
    BY <2>1 DEF Init, Undisturbed, Settled, Initialises, Meant, Ready
  <2> QED
    BY <2>1, LeftInductive DEF Honest
<1>2. Honest /\ [Next]_<<vars, liberties>> => Honest'
  <2>1. ASSUME Honest, UNCHANGED <<vars, liberties>> PROVE Honest'
    <3>1. Left'
      BY <2>1, LeftInductive DEF Honest
    <3> QED
      BY <2>1, <3>1 DEF Honest, Orderly, Undisturbed, Meant, Matched, Settled, Initialises, Ready, Returned,
                        Alive, Pending, vars, call, globals, threads, tasks
  <2>2. ASSUME Honest, Next PROVE Honest'
    <3>1. Left' /\ liberties' = liberties
      BY <2>2, LeftInductive DEF Honest, Next
    <3> QED
      BY <2>2, <3>1, UndisturbedStep, MeantStep DEF Honest, Orderly
  <2> QED
    BY <2>1, <2>2
<1>3. Honest => BlockedForAReason
  <2> SUFFICES ASSUME Honest, ~failed, Orderly, blocked, app = "idle", started # None PROVE BlockedIsWaiting
    BY DEF BlockedForAReason, BlockedIsWaiting, Orderly
  <2>1. Ready
    BY DEF Ready
  <2>2. recvTx = attempt /\ Pending(recvTx)
    BY <2>1 DEF Honest, Meant, Matched
  <2>3. recvTx \in Attempts
    BY <2>2, LifecycleAssumption DEF Honest, Left, Handles, Waits, Typed, CallTypes, Attempts
  <2>4. DOMAIN queue[recvTx] = 1 .. Len(queue[recvTx])
    BY <2>3, LenProperties DEF Honest, Left, Waits, Typed, ThreadTypes, Queues
  <2> QED
    BY <2>2, <2>4 DEF BlockedIsWaiting, Pending, Has
<1> QED
  BY <1>1, <1>2, <1>3, PTL DEF Spec

-----------------------------------------------------------------------------
(* What a call waits for. *)

\* This task asked the thread to try, and was not answered yet.
Tries(q, g) == \E i \in 1 .. Len(q) : q[i].call = "try" /\ q[i].by = g

\* Some call in the queue is this task's.
From(q, g) == \E i \in 1 .. Len(q) : q[i].by = g

\* It has the turn.
Asks(g) == task[g] \in {"ask", "asked"}

\* There are pages that no event announces.
Unheard(g) == pages[g] > 0 /\ ~event[g]

Nobody  == \A g \in Attempts : ~Alive(g)
Alone   == \A g \in Attempts : g # attempt => ~Alive(g)
Begun   == app \in {"sendTx", "gateway"}
Session == app \in {"idle", "send"} /\ started # None

\* The last attempt is the one that counts.
Latest ==
  /\ receiver \in {None, attempt}
  /\ Returned \/ app \in {"turn", "shut"} => receiver = None
  /\ \A g \in Attempts : task[g] # "none" => g <= attempt
  /\ attempt # 0 /\ task[attempt] # "none" => recvTx \in {None, attempt}
  /\ app \in {"spawn", "recvTx", "sendTx", "gateway"} => task[attempt] = "none"

\* What a call waits for was there.
Kept ==
  /\ joinR # None => recv[joinR] # "none"
  /\ Returned \/ Late => joinS = None
  /\ app = "send" => toSend > 0
  /\ \A g \in Attempts : recv[g] = "none" => pages[g] = 0
  /\ \A g \in Attempts : task[g] = "await" => receiver # None

OneTurn == \A g, h \in Attempts : Asks(g) /\ Asks(h) => g = h

\* A task that waits for an answer is in the queue of a thread that can be asked.
Heard ==
  \A g \in Attempts : task[g] = "asked" =>
    /\ recvTx # None
    /\ answer[g] = "none" /\ recv[recvTx] # "ended" => Tries(queue[recvTx], g)

\* The flag is down once close has reset it.
Lowered == receiver = None \/ app = "forget" => ~blocked

\* Whoever has the turn found the flag down; only another task sets it meanwhile.
Free == \A g \in Attempts : Asks(g) /\ blocked => \E h \in Attempts : h # g /\ Alive(h)

\* A thread that can be asked lives, until it is told to close.
Open == recvTx # None /\ app # "take" => recv[recvTx] # "ended" /\ ~Has(queue[recvTx], "close")

\* Between init and close the attempt's task lives.
Running ==
  /\ Begun \/ Session => recvTx = attempt /\ receiver = attempt
  /\ Session => started = attempt /\ Alive(attempt)
  /\ Initialises /\ started # None => Alive(started) /\ recvTx # None
  /\ Initialises /\ blocked => recvTx # None /\ ~Nobody

\* The last attempt's task asks the last attempt's thread.
Owned == \A g, h \in Attempts : From(queue[g], h) => h <= attempt /\ (h = attempt => g = attempt)

\* The threads nobody asks have their events, if nobody else could ask them.
Bystanders ==
  /\ Initialises /\ (recvTx = None \/ Nobody) => \A g \in Attempts : Noted(g)
  /\ Session /\ Alone => \A g \in Attempts \ {attempt} : Noted(g)

\* A lone task learns of the pages: it waits for them, or it will ask.
Tended ==
  /\ ~Error(results[attempt])
  /\ blocked => Pending(attempt)
  /\ task[attempt] \in {"lock", "await"} => blocked
  /\ Unheard(attempt) => \/ results[attempt] # <<>>
                         \/ task[attempt] = "try" /\ ~blocked
                         \/ task[attempt] = "ask"
                         \/ task[attempt] = "asked" /\ answer[attempt] # "empty"

\* It does as long as no wait failed.
Attended ==
  /\ app = "recvTx" \/ (Begun /\ Nobody) => ~Unheard(attempt)
  /\ Session /\ Alone /\ ~failed => Tended

Poised ==
  /\ Left /\ Latest /\ Kept /\ OneTurn /\ Heard /\ Lowered /\ Free /\ Open
  /\ Running /\ Owned /\ Bystanders /\ Attended

\* What a call that is added changes for those who called.
LEMMA CallerAdded ==
  ASSUME NEW q \in Queues, NEW c \in CallsToThread, NEW g
  PROVE  /\ Tries(Append(q, c), g) <=> Tries(q, g) \/ (c.call = "try" /\ c.by = g)
         /\ From(Append(q, c), g) <=> From(q, g) \/ c.by = g
<1> DEFINE r == Append(q, c)
<1>1. /\ Len(r) = Len(q) + 1 /\ Len(q) \in Nat
      /\ \A i \in 1 .. Len(q) : r[i] = q[i]
      /\ r[Len(q) + 1] = c
  BY AppendProperties, LenProperties DEF Queues
<1> HIDE DEF r
<1>2. Tries(r, g) <=> Tries(q, g) \/ (c.call = "try" /\ c.by = g)
  BY <1>1 DEF Tries
<1>3. From(r, g) <=> From(q, g) \/ c.by = g
  BY <1>1 DEF From
<1> QED
  BY <1>2, <1>3 DEF r

\* What the call that is taken changes for them.
LEMMA CallerTaken ==
  ASSUME NEW q \in Queues, q # <<>>, NEW g
  PROVE  /\ Tries(q, g) => Tries(Tail(q), g) \/ (Head(q).call = "try" /\ Head(q).by = g)
         /\ From(Tail(q), g) => From(q, g)
         /\ From(q, Head(q).by)
<1> DEFINE r == Tail(q)
<1>1. /\ Len(q) \in Nat /\ Len(q) > 0 /\ Head(q) = q[1]
      /\ Len(r) = Len(q) - 1
      /\ \A i \in 1 .. Len(r) : r[i] = q[i + 1]
  BY HeadTailProperties, EmptySeq, LenProperties DEF Queues
<1> HIDE DEF r
<1>2. ASSUME NEW i \in 1 .. Len(q), q[i].call = "try", q[i].by = g
      PROVE  Tries(r, g) \/ (Head(q).call = "try" /\ Head(q).by = g)
  <2>1. CASE i = 1
    BY <1>1, <1>2, <2>1
  <2>2. CASE i # 1
    <3>1. i - 1 \in 1 .. Len(r) /\ r[i - 1] = q[i]
      BY <1>1, <2>2
    <3> QED
      BY <1>2, <3>1 DEF Tries
  <2> QED
    BY <2>1, <2>2
<1>3. ASSUME NEW i \in 1 .. Len(r), r[i].by = g PROVE From(q, g)
  <2>1. i + 1 \in 1 .. Len(q) /\ q[i + 1].by = g
    BY <1>1, <1>3
  <2> QED
    BY <2>1 DEF From
<1>4. From(q, Head(q).by)
  BY <1>1 DEF From
<1> QED
  BY <1>2, <1>3, <1>4 DEF r, Tries, From

LEMMA NoCaller == \A g : ~Tries(<<>>, g) /\ ~From(<<>>, g)
BY DEF Tries, From

\* What a task that runs becomes.
LEMMA Moves ==
  ASSUME Typed, NEW g \in Attempts, Runs(g) \/ Framed(g)
  PROVE  /\ Alive(g)
         /\ \A h \in Attempts : h # g => task'[h] = task[h]
         /\ task'[g] \in {"ask", "asked"} =>
              \/ task[g] = "try" /\ task'[g] = "ask" /\ TurnFree /\ ~blocked' /\ Drain(g)
              \/ task[g] = "ask" /\ task'[g] = "asked" /\ Ask(g) /\ recvTx # None
         /\ task'[g] = "lock" => task[g] = "out" /\ AskToWait(g) /\ blocked'
         /\ task'[g] = "await" => task[g] = "lock" /\ LockReceiver(g) /\ receiver # None
         /\ task'[g] # "none"
         /\ task'[g] = "ended" =>
              \/ task[g] = "try" /\ receiver = None /\ TurnFree
              \/ task[g] \in {"ask", "asked"} /\ (recvTx = None \/ recv[recvTx] = "ended")
              \/ task[g] = "out" /\ (recvTx = None \/ recv[recvTx] = "ended") /\ ~blocked
              \/ task[g] = "lock" /\ receiver = None
<1> USE DEF Typed, TaskTypes, Flags, At, Step, Fails, Alive
<1>1. CASE Drain(g)
  BY <1>1 DEF Drain
<1>2. CASE Ask(g)
  BY <1>2 DEF Ask
<1>3. CASE Answered(g)
  BY <1>3 DEF Answered
<1>4. CASE AskToWait(g)
  BY <1>4 DEF AskToWait
<1>5. CASE LockReceiver(g)
  BY <1>5 DEF LockReceiver
<1>6. CASE Woken(g) \/ Framed(g)
  BY <1>6 DEF Woken, Framed
<1> QED
  BY <1>1, <1>2, <1>3, <1>4, <1>5, <1>6 DEF Runs

\* Tasks are changed by themselves, but for the one init starts and the runtime's end.
LEMMA TaskSteps ==
  Next => \/ task' = task \/ SetGateway \/ ShutRuntime
          \/ \E g \in Attempts : Runs(g) \/ Framed(g)
BY Zenon DEF Next, Calls, tasks, BeginInit, StoreReceiver, SpawnRecv, StoreRecvTx, StoreSendTx,
       BeginClose, CloseRecv, TakeRecvTx, Signal, JoinRecv, CloseSend, Reset, ForgetReceiver, ResetTurn,
       BeginSend, SendPage, Threads, TakeCall, Collected, WaitReturns, RecvEnds, SendEnds, Arrive

\* A thread that can be asked is one of the threads.
LEMMA Asked ==
  ASSUME Waits, recvTx # None
  PROVE  recvTx \in Attempts /\ recv[recvTx] # "none" /\ receiver # None /\ receiver \in Attempts
BY DEF Waits, Typed, CallTypes, Flagged

\* No task ends while the thread can be asked.
LEMMA Survives ==
  ASSUME Poised, Next, recvTx # None, app # "take", NEW h \in Attempts, Alive(h)
  PROVE  Alive(h)'
<1> USE DEF Poised, Left
<1>1. recv[recvTx] # "ended" /\ receiver # None /\ Typed
  BY Asked DEF Open, Waits
<1>2. CASE task' = task
  BY <1>2 DEF Alive
<1>3. CASE SetGateway
  BY <1>1, <1>3 DEF SetGateway, Alive, Typed, TaskTypes
<1>4. CASE ShutRuntime
  BY <1>4 DEF ShutRuntime, Do, Waits, Unasked, Closing
<1>5. ASSUME NEW g \in Attempts, Runs(g) \/ Framed(g) PROVE Alive(h)'
  BY <1>1, <1>5, Moves DEF Alive
<1> QED
  BY <1>2, <1>3, <1>4, <1>5, TaskSteps

\* The turn is taken when nobody has it.
LEMMA OneTurnStep == Poised /\ Next => OneTurn'
<1> SUFFICES ASSUME Poised, Next PROVE OneTurn'
  OBVIOUS
<1> USE DEF Poised, Left, Waits
<1>1. CASE task' = task
  BY <1>1 DEF OneTurn, Asks
<1>2. CASE SetGateway \/ ShutRuntime
  <2>1. \A g \in Attempts : Asks(g)' => Asks(g)
    BY <1>2 DEF SetGateway, ShutRuntime, Asks, Typed, TaskTypes
  <2> QED
    BY <2>1 DEF OneTurn
<1>3. ASSUME NEW g \in Attempts, Runs(g) \/ Framed(g) PROVE OneTurn'
  <2>1. CASE Asks(g)' /\ ~Asks(g)
    <3>1. TurnFree /\ \A h \in Attempts : h # g => task'[h] = task[h]
      BY <1>3, <2>1, Moves DEF Asks
    <3> QED
      BY <3>1 DEF TurnFree, OneTurn, Asks
  <2>2. CASE Asks(g)' => Asks(g)
    <3>1. \A h \in Attempts : Asks(h)' => Asks(h)
      BY <1>3, <2>2, Moves DEF Asks
    <3> QED
      BY <3>1 DEF OneTurn
  <2> QED
    BY <2>1, <2>2
<1> QED
  BY <1>1, <1>2, <1>3, TaskSteps

\* Only close lowers the flag and forgets the receiver.
LEMMA LoweredStep == Poised /\ Next => Lowered'
<1> SUFFICES ASSUME Poised, Next, receiver' = None \/ app' = "forget" PROVE ~blocked'
  BY DEF Lowered
<1> USE DEF Poised, Left, Waits, Do
<1>1. CASE Reset
  BY <1>1 DEF Reset
<1>2. CASE ~Reset
  <2>1. receiver = None \/ app = "forget"
    <3>1. CASE UNCHANGED <<call, globals>>
      BY <3>1 DEF call, globals
    <3>2. CASE BeginInit \/ StoreReceiver \/ SpawnRecv \/ StoreRecvTx \/ StoreSendTx \/ SetGateway
      BY <3>2, LifecycleAssumption
      DEF BeginInit, StoreReceiver, SpawnRecv, StoreRecvTx, StoreSendTx, SetGateway, globals, Typed, CallTypes
    <3>3. CASE BeginClose \/ CloseRecv \/ TakeRecvTx \/ Signal \/ JoinRecv \/ CloseSend
      BY <3>3 DEF BeginClose, CloseRecv, TakeRecvTx, Signal, JoinRecv, CloseSend, globals
    <3>4. CASE ForgetReceiver \/ ResetTurn \/ ShutRuntime
      BY <3>4 DEF ForgetReceiver, ResetTurn, ShutRuntime, globals
    <3>5. CASE BeginSend \/ SendPage
      BY <3>5 DEF BeginSend, SendPage, globals
    <3> QED
      BY <1>2, <3>1, <3>2, <3>3, <3>4, <3>5, Elsewhere DEF Calls
  <2>2. recvTx = None
    BY <2>1, Asked DEF Unasked, Closing
  <2> QED
    BY <2>1, <2>2, Blocking DEF Lowered
<1> QED
  BY <1>1, <1>2

\* The flag is not set while a lone task has the turn.
LEMMA FreeStep == Poised /\ Next => Free'
<1> SUFFICES ASSUME Poised, Next, NEW g \in Attempts, Asks(g)', blocked'
             PROVE  \E h \in Attempts : h # g /\ Alive(h)'
  BY DEF Free
<1> USE DEF Poised, Left, Waits
<1>1. Asks(g)
  <2>1. CASE task' = task
    BY <2>1 DEF Asks
  <2>2. CASE SetGateway \/ ShutRuntime
    BY <2>2 DEF SetGateway, ShutRuntime, Asks, Typed, TaskTypes
  <2>3. ASSUME NEW h \in Attempts, Runs(h) \/ Framed(h) PROVE Asks(g)
    BY <2>3, Moves DEF Asks
  <2> QED
    BY <2>1, <2>2, <2>3, TaskSteps
<1>2. CASE blocked
  <2>1. PICK h \in Attempts : h # g /\ Alive(h)
    BY <1>1, <1>2 DEF Free
  <2>2. receiver # None /\ ~Asks(h)
    BY <1>1, <1>2, <2>1 DEF Lowered, OneTurn
  <2>3. CASE task' = task
    BY <2>1, <2>3 DEF Alive
  <2>4. CASE SetGateway
    BY <2>1, <2>4 DEF SetGateway, Alive, Typed, TaskTypes
  <2>5. CASE ShutRuntime
    BY <1>1, <2>5 DEF ShutRuntime, Asks
  <2>6. ASSUME NEW k \in Attempts, Runs(k) \/ Framed(k) PROVE Alive(h)'
    <3>1. CASE k # h
      BY <2>1, <2>6, <3>1, Moves DEF Alive
    <3>2. CASE k = h
      BY <1>2, <2>1, <2>2, <2>6, <3>2, Moves DEF Alive, Asks
    <3> QED
      BY <3>1, <3>2
  <2> QED
    BY <2>1, <2>3, <2>4, <2>5, <2>6, TaskSteps
<1>3. CASE ~blocked
  <2>1. PICK h \in Attempts : AskToWait(h) /\ recvTx # None /\ Alive(h)
    BY <1>3, Blocking
  <2>2. h # g
    BY <1>1, <2>1 DEF AskToWait, At, Asks
  <2>3. Alive(h)'
    BY <1>3, <2>1 DEF AskToWait, Step, Fails, At, Alive, Typed, TaskTypes
  <2> QED
    BY <2>2, <2>3
<1> QED
  BY <1>2, <1>3

\* What an attempt sets up is its own.
LEMMA LatestStep == Poised /\ Next => Latest'
<1> SUFFICES ASSUME Poised, Next PROVE Latest'
  OBVIOUS
<1> USE DEF Poised, Left, Waits, Typed, CallTypes, TaskTypes, Attempts
<1>1. CASE UNCHANGED <<call, globals>>
  <2>1. UNCHANGED <<app, attempt, started, receiver, recvTx>>
    BY <1>1 DEF call, globals
  <2>2. ASSUME NEW g \in Attempts, task'[g] # "none" PROVE task[g] # "none"
    <3>1. CASE task' = task
      BY <2>2, <3>1
    <3>2. CASE SetGateway
      BY <2>1, <3>2, LifecycleAssumption DEF SetGateway, Do
    <3>3. CASE ShutRuntime
      BY <2>2, <3>3 DEF ShutRuntime
    <3>4. ASSUME NEW h \in Attempts, Runs(h) \/ Framed(h) PROVE task[g] # "none"
      BY <2>2, <3>4, Moves DEF Alive
    <3> QED
      BY <3>1, <3>2, <3>3, <3>4, TaskSteps
  <2>3. (Returned \/ app \in {"turn", "shut"})' => Returned \/ app \in {"turn", "shut"}
    BY <2>1 DEF Returned
  <2>4. app \in {"spawn", "recvTx", "sendTx", "gateway"} => attempt \in Attempts
    BY DEF Room
  <2>5. ASSUME app' \in {"spawn", "recvTx", "sendTx", "gateway"} PROVE task'[attempt'] = "none"
    BY <2>1, <2>2, <2>4, <2>5 DEF Latest
  <2>6. ASSUME attempt' # 0, task'[attempt'] # "none" PROVE recvTx' \in {None, attempt'}
    BY <2>1, <2>2, <2>6, LifecycleAssumption DEF Latest
  <2>7. /\ receiver' \in {None, attempt'}
        /\ (Returned \/ app \in {"turn", "shut"})' => receiver' = None
        /\ \A g \in Attempts : task'[g] # "none" => g <= attempt'
    BY <2>1, <2>2, <2>3 DEF Latest
  <2> QED
    BY <2>5, <2>6, <2>7 DEF Latest
<1>2. CASE StoreReceiver
  <2>1. task[attempt + 1] = "none" /\ attempt + 1 \in Attempts
    BY <1>2, LifecycleAssumption DEF StoreReceiver, Do, Room, Latest
  <2> QED
    BY <1>2, <2>1, LifecycleAssumption DEF StoreReceiver, Do, tasks, Latest, Returned
<1>3. CASE BeginInit \/ SpawnRecv \/ StoreRecvTx \/ StoreSendTx
  BY <1>3, LifecycleAssumption DEF BeginInit, SpawnRecv, StoreRecvTx, StoreSendTx, Do, tasks, globals, Latest, Returned
<1>4. CASE SetGateway
  <2>1. attempt \in Attempts /\ recvTx = attempt
    BY <1>4, LifecycleAssumption DEF SetGateway, Do, Room, Running, Begun
  <2>2. app' = "idle" => started' = attempt
    BY <1>4 DEF SetGateway, Do
  <2> QED
    BY <1>4, <2>1, <2>2, LifecycleAssumption DEF SetGateway, Do, Latest, Returned
<1>5. CASE BeginClose \/ CloseRecv \/ TakeRecvTx \/ Signal \/ JoinRecv \/ CloseSend
  BY <1>5 DEF BeginClose, CloseRecv, TakeRecvTx, Signal, JoinRecv, CloseSend, Do, tasks, globals, Latest, Returned
<1>6. CASE Reset \/ ForgetReceiver \/ ResetTurn
  BY <1>6 DEF Reset, ForgetReceiver, ResetTurn, Do, tasks, globals, Latest, Returned
<1>7. CASE ShutRuntime
  BY <1>7, LifecycleAssumption DEF ShutRuntime, Do, Latest, Returned
<1>8. CASE BeginSend \/ SendPage
  BY <1>8 DEF BeginSend, SendPage, Do, tasks, globals, Latest, Returned, Unasked
<1> QED
  BY <1>1, <1>2, <1>3, <1>4, <1>5, <1>6, <1>7, <1>8, Elsewhere DEF Calls

\* What is joined was started; what is locked, and what is to be sent, is there.
LEMMA KeptStep == Poised /\ Next => Kept'
<1> SUFFICES ASSUME Poised, Next PROVE Kept'
  OBVIOUS
<1> USE DEF Poised, Left, Waits, Typed, ThreadTypes
<1>1. ASSUME joinR' # None PROVE recv'[joinR'] # "none"
  <2>1. \A h \in Attempts : recv[h] # "none" => recv'[h] # "none"
    <3>1. CASE UNCHANGED <<recv, queue, results>> \/ SpawnRecv \/ CloseRecv
      BY <3>1 DEF SpawnRecv, CloseRecv
    <3> QED
      BY <3>1, Finishing, Quiet
  <2>2. CASE SpawnRecv
    BY <2>2, LifecycleAssumption DEF SpawnRecv, Do, Room, CallTypes, Attempts
  <2>3. CASE ~SpawnRecv
    <3>1. joinR' = joinR
      BY <1>1, <2>3, Elsewhere DEF Calls, globals, BeginInit, StoreReceiver, StoreRecvTx, StoreSendTx, SetGateway,
         BeginClose, CloseRecv, TakeRecvTx, Signal, JoinRecv, CloseSend, Reset, ForgetReceiver, ResetTurn,
         ShutRuntime, BeginSend, SendPage
    <3> QED
      BY <1>1, <2>1, <3>1 DEF Kept, CallTypes
  <2> QED
    BY <2>2, <2>3
<1>2. ASSUME (Returned \/ Late)' PROVE joinS' = None
  <2>1. CASE UNCHANGED <<call, globals>>
    BY <1>2, <2>1 DEF call, globals, Returned, Late, Kept
  <2>2. CASE BeginInit \/ StoreReceiver \/ SpawnRecv \/ StoreRecvTx \/ StoreSendTx \/ SetGateway
    BY <1>2, <2>2, LifecycleAssumption
    DEF BeginInit, StoreReceiver, SpawnRecv, StoreRecvTx, StoreSendTx, SetGateway, Do, Returned, Late, CallTypes
  <2>3. CASE BeginClose \/ CloseRecv \/ TakeRecvTx \/ Signal \/ JoinRecv \/ CloseSend
    BY <1>2, <2>3 DEF BeginClose, CloseRecv, TakeRecvTx, Signal, JoinRecv, CloseSend, Do, Returned, Late, Kept, globals
  <2>4. CASE Reset \/ ForgetReceiver \/ ResetTurn \/ ShutRuntime
    BY <1>2, <2>4 DEF Reset, ForgetReceiver, ResetTurn, ShutRuntime, Do, Returned, Late, Kept, globals
  <2>5. CASE BeginSend \/ SendPage
    BY <1>2, <2>5 DEF BeginSend, SendPage, Do, Returned, Late, Kept, globals, Unasked
  <2> QED
    BY <2>1, <2>2, <2>3, <2>4, <2>5, Elsewhere DEF Calls
<1>3. ASSUME app' = "send" PROVE toSend' > 0
  <2>1. CASE UNCHANGED <<call, globals>>
    BY <1>3, <2>1 DEF call, Kept
  <2>2. CASE BeginSend
    BY <2>2, LifecycleAssumption DEF BeginSend
  <2>3. CASE SendPage
    BY <1>3, <2>3, LifecycleAssumption DEF SendPage, Kept, CallTypes
  <2> QED
    BY <1>3, <2>1, <2>2, <2>3, Elsewhere
    DEF Calls, Do, BeginInit, StoreReceiver, SpawnRecv, StoreRecvTx, StoreSendTx, SetGateway,
        BeginClose, CloseRecv, TakeRecvTx, Signal, JoinRecv, CloseSend, Reset, ForgetReceiver, ResetTurn, ShutRuntime
<1>4. ASSUME NEW g \in Attempts, recv'[g] = "none" PROVE pages'[g] = 0
  <2>1. recv[g] = "none"
    <3>1. CASE UNCHANGED <<recv, queue, results>> \/ SpawnRecv \/ CloseRecv
      BY <1>4, <3>1 DEF SpawnRecv, CloseRecv
    <3> QED
      BY <1>4, <3>1, Finishing, Quiet
  <2>2. pages'[g] = pages[g]
    <3>1. CASE pages' = pages
      BY <3>1
    <3>2. ASSUME NEW h \in Attempts, Threads(h) PROVE pages'[g] = pages[g]
      <4>1. recv[h] # "none"
        BY <3>2 DEF Threads, TakeCall, Collected, WaitReturns, RecvEnds
      <4>2. pages' = pages \/ \E x : pages' = [pages EXCEPT ![h] = x]
        BY <3>2, Zenon DEF Threads, TakeCall, TakeTry, Collected, WaitReturns, RecvEnds
      <4> QED
        BY <2>1, <4>1, <4>2
    <3>3. CASE SendPage \/ \E h \in Attempts : Arrive(h)
      BY <2>1, <3>3 DEF SendPage, Arrive, Subscribed
    <3> QED
      BY <3>1, <3>2, <3>3, Zenon
      DEF Next, Calls, threads, BeginInit, StoreReceiver, SpawnRecv, StoreRecvTx, StoreSendTx, SetGateway,
        BeginClose, CloseRecv, TakeRecvTx, Signal, JoinRecv, CloseSend, Reset, ForgetReceiver, ResetTurn,
        ShutRuntime, BeginSend, SendEnds, Runs, Drain, Ask, Answered, AskToWait, LockReceiver, Woken, Framed
  <2> QED
    BY <2>1, <2>2 DEF Kept
<1>5. ASSUME NEW g \in Attempts, task'[g] = "await" PROVE receiver' # None
  <2>1. CASE UNCHANGED <<call, globals>>
    <3>1. receiver' = receiver
      BY <2>1 DEF globals
    <3>2. CASE SetGateway \/ ShutRuntime \/ task' = task
      BY <1>5, <3>1, <3>2 DEF SetGateway, ShutRuntime, TaskTypes, Kept
    <3>3. ASSUME NEW h \in Attempts, Runs(h) \/ Framed(h) PROVE receiver # None
      <4>1. CASE h = g
        BY <1>5, <3>3, <4>1, Moves
      <4>2. CASE h # g
        BY <1>5, <3>3, <4>2, Moves DEF Kept
      <4> QED
        BY <4>1, <4>2
    <3> QED
      BY <3>1, <3>2, <3>3, TaskSteps
  <2>2. CASE StoreReceiver \/ ForgetReceiver
    BY <1>5, <2>2, LifecycleAssumption DEF StoreReceiver, ForgetReceiver, ReceiverFree, tasks, CallTypes
  <2>3. CASE Calls /\ ~StoreReceiver /\ ~ForgetReceiver
    <3>1. receiver' = receiver /\ task[g] = "await"
      BY <1>5, <2>3 DEF Calls, tasks, globals, BeginInit, SpawnRecv, StoreRecvTx, StoreSendTx, SetGateway, TaskTypes,
         BeginClose, CloseRecv, TakeRecvTx, Signal, JoinRecv, CloseSend, Reset, ResetTurn, ShutRuntime, BeginSend, SendPage
    <3> QED
      BY <3>1 DEF Kept
  <2> QED
    BY <2>1, <2>2, <2>3, Elsewhere
<1> QED
  BY <1>1, <1>2, <1>3, <1>4, <1>5 DEF Kept

\* What tasks ask, and what is taken, leaves a thread that can be asked as it is.
LEMMA OpenStirs ==
  ASSUME Waits, recvTx \in Attempts, NEW g \in Attempts, Stirs(g),
         recv[recvTx] # "ended", ~Has(queue[recvTx], "close")
  PROVE  recv'[recvTx] # "ended" /\ ~Has(queue'[recvTx], "close")
<1> DEFINE r == recvTx
<1> USE DEF Waits, Typed, ThreadTypes
<1>1. queue[r] \in Queues
  OBVIOUS
<1> HIDE DEF r
<1>2. CASE TakeCall(g) /\ g = r
  <2>1. queue[r] # <<>>
    BY <1>2 DEF TakeCall
  <2>2. Head(queue[r]).call # "close"
    BY <1>1, <2>1, Taken DEF r
  <2>3. recv'[r] # "ended" /\ (queue'[r] = queue[r] \/ queue'[r] = Tail(queue[r]))
    BY <1>2, <2>2 DEF TakeCall, TakeTry, r
  <2> QED
    BY <1>1, <2>1, <2>3, Taken DEF r
<1>3. CASE TakeCall(g) /\ g # r
  <2>1. /\ recv' = recv \/ \E x : recv' = [recv EXCEPT ![g] = x]
        /\ queue' = queue \/ \E x : queue' = [queue EXCEPT ![g] = x]
    BY <1>3, Zenon DEF TakeCall, TakeTry
  <2> QED
    BY <1>3, <2>1 DEF r
<1>4. CASE Collected(g)
  <2>1. queue[g] # <<>>
    BY <1>4 DEF Collected, Collecting
  <2>2. queue'[r] = queue[r] \/ (g = r /\ queue'[r] = Tail(queue[r]))
    BY <1>4 DEF Collected, r
  <2>3. ~Has(queue'[r], "close")
    BY <1>1, <2>1, <2>2, Taken DEF r
  <2> QED
    BY <1>4, <2>3 DEF Collected, r
<1>5. CASE WaitReturns(g)
  BY <1>5 DEF WaitReturns
<1>6. CASE RecvEnds(g)
  BY <1>6 DEF RecvEnds, Reachable
<1>7. CASE Ask(g) \/ AskToWait(g)
  <2>1. recv' = recv
    BY <1>7 DEF Ask, AskToWait
  <2>2. \/ queue'[r] = queue[r]
        \/ queue'[r] = Append(queue[r], Call("try", g))
        \/ queue'[r] = Append(queue[r], Call("wait", g))
    BY <1>7, Asking DEF r
  <2>3. Call("try", g).call # "close" /\ Call("wait", g).call # "close"
    BY DEF Call
  <2>4. ~Has(Append(queue[r], Call("try", g)), "close") /\ ~Has(Append(queue[r], Call("wait", g)), "close")
    <3>1. ~Has(queue[r], "close")
      BY DEF r
    <3> QED
      BY <1>1, <2>3, <3>1, Added, AllCalls
  <2> QED
    BY <2>1, <2>2, <2>4 DEF r
<1>8. CASE Drain(g) \/ Woken(g)
  BY <1>8 DEF Drain, Woken
<1> QED
  BY <1>2, <1>3, <1>4, <1>5, <1>6, <1>7, <1>8 DEF Stirs

\* Only close ends a thread that can be asked.
LEMMA OpenStep == Poised /\ Next => Open'
<1> SUFFICES ASSUME Poised, Next, recvTx' # None, app' # "take"
             PROVE  recv'[recvTx'] # "ended" /\ ~Has(queue'[recvTx'], "close")
  BY DEF Open
<1> USE DEF Poised, Left, Waits, Typed, CallTypes, ThreadTypes
<1>1. CASE StoreRecvTx
  BY <1>1, Nothing DEF StoreRecvTx, Do, Making
<1>2. CASE StoreReceiver \/ SpawnRecv
  <2>1. recvTx' = recvTx /\ app # "take" /\ queue' = queue
    BY <1>2 DEF StoreReceiver, SpawnRecv, Do, threads
  <2>2. recv'[recvTx] = recv[recvTx] \/ recv'[recvTx] = "idle"
    BY <1>2, <2>1, Asked DEF StoreReceiver, SpawnRecv, threads
  <2> QED
    BY <2>1, <2>2 DEF Open
<1>3. CASE ResetTurn \/ ShutRuntime \/ BeginInit \/ StoreSendTx \/ SetGateway \/ BeginClose \/ CloseRecv \/ TakeRecvTx
  BY <1>3 DEF ResetTurn, ShutRuntime, BeginInit, StoreSendTx, SetGateway, BeginClose, CloseRecv, TakeRecvTx,
              Do, threads, globals, Open
<1>4. CASE Signal \/ JoinRecv \/ CloseSend \/ Reset \/ ForgetReceiver \/ BeginSend \/ SendPage
  BY <1>4 DEF Signal, JoinRecv, CloseSend, Reset, ForgetReceiver, BeginSend, SendPage, Do, threads, globals, Open
<1>5. CASE UNCHANGED <<call, globals>>
  <2>1. recvTx' = recvTx /\ app' = app
    BY <1>5 DEF call, globals
  <2>2. CASE UNCHANGED <<recv, queue, results>>
    BY <2>1, <2>2 DEF Open
  <2>3. ASSUME NEW g \in Attempts, Stirs(g) PROVE recv'[recvTx] # "ended" /\ ~Has(queue'[recvTx], "close")
    BY <2>1, <2>3, OpenStirs DEF Open
  <2>4. CASE SpawnRecv \/ CloseRecv
    BY <2>1, <2>4 DEF SpawnRecv, CloseRecv, Do
  <2> QED
    BY <2>1, <2>2, <2>3, <2>4, Quiet
<1> QED
  BY <1>1, <1>2, <1>3, <1>4, <1>5, Elsewhere DEF Calls

\* A call in the queue stays there until it is answered, or the thread ends.
LEMMA HeardStirs ==
  ASSUME Waits, recvTx \in Attempts, NEW g \in Attempts, Stirs(g), NEW h \in Attempts,
         Tries(queue[recvTx], h), recv'[recvTx] # "ended"
  PROVE  Tries(queue'[recvTx], h) \/ answer'[h] # "none"
<1> DEFINE r == recvTx
<1> USE DEF Waits, Typed, ThreadTypes
<1>1. queue[r] \in Queues
  OBVIOUS
<1> HIDE DEF r
<1>2. CASE (TakeCall(g) \/ Collected(g)) /\ g = r /\ queue'[r] # queue[r]
  <2>1. queue[r] # <<>>
    BY <1>2, Zenon DEF TakeCall, Collected, Collecting
  <2>2. queue'[r] = Tail(queue[r])
    BY <1>2 DEF TakeCall, TakeTry, Collected, r
  <2>3. Head(queue[r]).call = "try" => \E a \in {"page", "empty"} : answer' = [answer EXCEPT ![Head(queue[r]).by] = a]
    BY <1>2 DEF TakeCall, TakeTry, Collected, r
  <2>4. Head(queue[r]).call = "try" /\ Head(queue[r]).by = h => answer'[h] # "none"
    BY <2>3 DEF TaskTypes
  <2> QED
    BY <1>1, <2>1, <2>2, <2>4, CallerTaken DEF r
<1>3. CASE (TakeCall(g) \/ Collected(g)) /\ g # r
  <2>1. queue' = queue \/ \E x : queue' = [queue EXCEPT ![g] = x]
    BY <1>3, Zenon DEF TakeCall, TakeTry, Collected
  <2> QED
    BY <1>3, <2>1 DEF r
<1>4. CASE Ask(g) \/ AskToWait(g)
  <2>1. \/ queue'[r] = queue[r]
        \/ queue'[r] = Append(queue[r], Call("try", g))
        \/ queue'[r] = Append(queue[r], Call("wait", g))
    BY <1>4, Asking DEF r
  <2>2. /\ Tries(queue[r], h) => Tries(Append(queue[r], Call("try", g)), h)
        /\ Tries(queue[r], h) => Tries(Append(queue[r], Call("wait", g)), h)
    BY <1>1, CallerAdded, AllCalls
  <2> QED
    BY <2>1, <2>2 DEF r
<1>5. CASE queue'[r] = queue[r]
  BY <1>5 DEF r
<1> QED
  BY <1>2, <1>3, <1>4, <1>5 DEF Stirs, r, WaitReturns, RecvEnds, Drain, Woken

\* The thread that is asked keeps the call, and its sender stays.
LEMMA HeardStep == Poised /\ Next => Heard'
<1> SUFFICES ASSUME Poised, Next, NEW h \in Attempts, task'[h] = "asked"
             PROVE  /\ recvTx' # None
                    /\ answer'[h] = "none" /\ recv'[recvTx'] # "ended" => Tries(queue'[recvTx'], h)
  BY DEF Heard
<1> USE DEF Poised, Left, Waits, Typed, ThreadTypes
<1>1. CASE Ask(h)
  <2>1. recvTx # None /\ recvTx \in Attempts /\ UNCHANGED <<recvTx, recv>> /\ queue[recvTx] \in Queues
    BY <1>1, Asked DEF Ask, Step, Fails, At, TaskTypes, globals
  <2>2. recv[recvTx] # "ended" => queue'[recvTx] = Append(queue[recvTx], Call("try", h))
    BY <1>1, <2>1 DEF Ask
  <2>3. Call("try", h).call = "try" /\ Call("try", h).by = h
    BY DEF Call
  <2>4. Tries(Append(queue[recvTx], Call("try", h)), h)
    BY <2>1, <2>3, CallerAdded, AllCalls
  <2> QED
    BY <2>1, <2>2, <2>4
<1>2. CASE ~Ask(h)
  <2>1. task[h] = "asked"
    <3>1. CASE SetGateway \/ ShutRuntime \/ task' = task
      BY <3>1 DEF SetGateway, ShutRuntime, TaskTypes
    <3>2. ASSUME NEW g \in Attempts, Runs(g) \/ Framed(g) PROVE task[h] = "asked"
      <4>1. CASE g = h
        BY <1>2, <3>2, <4>1, Moves
      <4>2. CASE g # h
        BY <3>2, <4>2, Moves
      <4> QED
        BY <4>1, <4>2
    <3> QED
      BY <3>1, <3>2, TaskSteps
  <2>2. recvTx \in Attempts
    BY <2>1, Asked DEF Heard
  <2>3. recvTx' = recvTx
    <3>1. ~StoreRecvTx /\ ~TakeRecvTx
      BY <2>1 DEF StoreRecvTx, TakeRecvTx, RecvTxUnread
    <3>2. CASE Calls
      BY <3>1, <3>2 DEF Calls, globals, BeginInit, StoreReceiver, SpawnRecv, StoreSendTx, SetGateway,
         BeginClose, CloseRecv, Signal, JoinRecv, CloseSend, Reset, ForgetReceiver, ResetTurn, ShutRuntime, BeginSend, SendPage
    <3> QED
      BY <3>2, Elsewhere DEF globals
  <2>4. ASSUME recv'[recvTx] # "ended" PROVE recv[recvTx] # "ended"
    <3>1. CASE SpawnRecv
      <4>1. recv[attempt] = "none" /\ recv[recvTx] # "none"
        BY <3>1, <2>2, Asked, LifecycleAssumption DEF SpawnRecv, Do, Making, Attempts
      <4> QED
        BY <2>4, <3>1, <4>1 DEF SpawnRecv
    <3> QED
      BY <2>2, <2>4, <3>1, EndedStays
  <2>5. ASSUME answer'[h] = "none" PROVE answer[h] = "none"
    <3>1. CASE answer' = answer
      BY <2>5, <3>1
    <3>2. ASSUME NEW g \in Attempts, TakeCall(g) \/ Collected(g) PROVE answer[h] = "none"
      <4>1. answer' = answer \/ \E b : \E a \in {"page", "empty"} : answer' = [answer EXCEPT ![b] = a]
        BY <3>2, Zenon DEF TakeCall, TakeTry, Collected
      <4> QED
        BY <2>5, <4>1 DEF TaskTypes
    <3>3. ASSUME NEW g \in Attempts, Ask(g) PROVE answer[h] = "none"
      <4>1. g # h
        BY <1>2, <3>3
      <4> QED
        BY <2>5, <3>3, <4>1 DEF Ask
    <3> QED
      BY <3>1, <3>2, <3>3, Zenon
      DEF Next, Calls, tasks, BeginInit, StoreReceiver, SpawnRecv, StoreRecvTx, StoreSendTx, SetGateway,
        BeginClose, CloseRecv, TakeRecvTx, Signal, JoinRecv, CloseSend, Reset, ForgetReceiver, ResetTurn,
        ShutRuntime, BeginSend, SendPage, Threads, WaitReturns, RecvEnds, SendEnds, Arrive,
        Runs, Drain, Answered, AskToWait, LockReceiver, Woken, Framed
  <2>6. ASSUME answer'[h] = "none", recv'[recvTx] # "ended" PROVE Tries(queue'[recvTx], h)
    <3>1. Tries(queue[recvTx], h)
      BY <2>1, <2>4, <2>5, <2>6 DEF Heard
    <3>2. CASE UNCHANGED <<recv, queue, results>> \/ SpawnRecv
      BY <3>1, <3>2 DEF SpawnRecv
    <3>3. CASE CloseRecv
      <4>1. queue' = queue \/ queue'[recvTx] = Append(queue[recvTx], Call("close", 0))
        BY <2>2, <3>3 DEF CloseRecv
      <4>2. queue[recvTx] \in Queues
        BY <2>2
      <4>3. Tries(queue[recvTx], h) => Tries(Append(queue[recvTx], Call("close", 0)), h)
        BY <4>2, CallerAdded, AllCalls
      <4> QED
        BY <3>1, <4>1, <4>3
    <3>4. ASSUME NEW g \in Attempts, Stirs(g) PROVE Tries(queue'[recvTx], h)
      BY <2>2, <2>6, <3>1, <3>4, HeardStirs
    <3> QED
      BY <3>2, <3>3, <3>4, Quiet
  <2> QED
    BY <2>2, <2>3, <2>6, LifecycleAssumption DEF Attempts
<1> QED
  BY <1>1, <1>2

\* From init's return to close the attempt's task lives, and can ask.
LEMMA RunningStep == Poised /\ Next => Running'
<1> SUFFICES ASSUME Poised, Next PROVE Running'
  OBVIOUS
<1> USE DEF Poised, Left, Waits
<1>0. Typed /\ None \notin Attempts /\ (attempt # 0 => attempt \in Attempts) /\ attempt # None
      /\ (started # None => started \in Attempts) /\ attempt \in Nat
  BY LifecycleAssumption DEF Typed, CallTypes, Attempts
<1>1. CASE UNCHANGED <<call, globals>>
  <2>1. UNCHANGED <<app, attempt, started, receiver, recvTx>>
    BY <1>1 DEF call, globals
  <2>2. recvTx # None /\ app # "take" => \A h \in Attempts : Alive(h) => Alive(h)'
    BY Survives
  <2>3. Session => started = attempt /\ attempt \in Attempts /\ recvTx # None /\ app # "take"
    BY <1>0 DEF Running, Session
  <2>4. ASSUME Initialises, blocked' PROVE recvTx # None /\ ~Nobody'
    <3>1. CASE blocked
      BY <2>2, <2>4, <3>1 DEF Running, Nobody, Initialises
    <3>2. CASE ~blocked
      <4>1. PICK g \in Attempts : AskToWait(g) /\ recvTx # None /\ Alive(g)
        BY <2>4, <3>2, Blocking
      <4> QED
        BY <2>2, <2>4, <4>1 DEF Nobody, Initialises
    <3> QED
      BY <3>1, <3>2
  <2>5. Initialises /\ started # None => Alive(started)' /\ recvTx # None
    BY <1>0, <2>1, <2>2 DEF Running, Initialises, Alive
  <2>6. Session => started = attempt /\ Alive(attempt)'
    BY <2>1, <2>2, <2>3 DEF Running, Alive
  <2>7. Begun \/ Session => recvTx = attempt /\ receiver = attempt
    BY DEF Running
  <2> QED
    BY <2>1, <2>4, <2>5, <2>6, <2>7 DEF Running, Begun, Session, Initialises, Alive
<1>2. CASE BeginInit
  <2>1. UNCHANGED <<task, blocked, started, recvTx, receiver>> /\ app = "idle" /\ app' = "receiver"
    BY <1>2 DEF BeginInit, Do, tasks, globals
  <2>2. started = None => ~blocked
    BY <2>1 DEF Returned, Latest, Lowered
  <2>3. started # None => Alive(started) /\ recvTx # None
    BY <1>0, <2>1 DEF Running, Session
  <2> QED
    BY <1>0, <2>1, <2>2, <2>3 DEF Running, Begun, Session, Initialises, Alive, Nobody
<1>3. CASE StoreReceiver \/ SpawnRecv
  BY <1>3 DEF StoreReceiver, SpawnRecv, Do, tasks, Running, Begun, Session, Initialises, Alive, Nobody
<1>4. CASE StoreRecvTx
  BY <1>0, <1>4 DEF StoreRecvTx, Do, tasks, Running, Begun, Session, Initialises, Alive, Nobody, Making
<1>5. CASE StoreSendTx
  BY <1>5 DEF StoreSendTx, Do, tasks, Running, Begun, Session, Initialises, Alive, Nobody
<1>6. CASE SetGateway
  <2>1. attempt \in Attempts /\ app = "gateway" /\ app' \in {"idle", "receiver"}
    BY <1>0, <1>6 DEF SetGateway, Do, Typed, Room
  <2>2. app' = "idle" => started' = attempt /\ task'[attempt] = "try"
    BY <1>0, <1>6, <2>1 DEF SetGateway, Typed, TaskTypes
  <2>3. app' = "receiver" => UNCHANGED <<started, task>>
    BY <1>6, <2>1 DEF SetGateway
  <2>4. UNCHANGED <<attempt, receiver, recvTx, blocked>>
    BY <1>6 DEF SetGateway
  <2> QED
    BY <2>1, <2>2, <2>3, <2>4 DEF Running, Begun, Session, Initialises, Alive, Nobody
<1>7. CASE BeginClose \/ CloseRecv \/ TakeRecvTx \/ Signal \/ JoinRecv \/ CloseSend \/ Reset \/ ForgetReceiver
  BY <1>7 DEF BeginClose, CloseRecv, TakeRecvTx, Signal, JoinRecv, CloseSend, Reset, ForgetReceiver, Do,
              Running, Begun, Session, Initialises
<1>8. CASE ResetTurn \/ ShutRuntime
  BY <1>8 DEF ResetTurn, ShutRuntime, Do, Handles, Running, Begun, Session, Initialises
<1>9. CASE BeginSend \/ SendPage
  BY <1>9 DEF BeginSend, SendPage, Do, globals, tasks, Unasked, Running, Begun, Session, Initialises, Alive
<1> QED
  BY <1>1, <1>2, <1>3, <1>4, <1>5, <1>6, <1>7, <1>8, <1>9, Elsewhere DEF Calls

\* Calls are added by the tasks, to the thread that can be asked.
LEMMA OwnedStep == Poised /\ Next => Owned'
<1> SUFFICES ASSUME Poised, Next, NEW k \in Attempts, NEW h \in Attempts, From(queue'[k], h)
             PROVE  h <= attempt' /\ (h = attempt' => k = attempt')
  BY DEF Owned
<1> USE DEF Poised, Left, Waits, Typed, ThreadTypes
<1>1. queue[k] \in Queues
  OBVIOUS
<1>2. ASSUME ~From(queue[k], h) PROVE \E g \in Attempts : (Ask(g) \/ AskToWait(g)) /\ h = g /\ k = recvTx /\ k # None /\ task[g] # "none"
  <2>1. CASE UNCHANGED <<recv, queue, results>> \/ SpawnRecv
    BY <1>2, <2>1 DEF SpawnRecv
  <2>2. CASE CloseRecv
    <3>1. queue'[k] = queue[k] \/ queue'[k] = Append(queue[k], Call("close", 0))
      BY <2>2 DEF CloseRecv
    <3>2. Call("close", 0).by # h
      BY DEF Call, Attempts
    <3>3. ~From(Append(queue[k], Call("close", 0)), h)
      BY <1>1, <1>2, <3>2, CallerAdded, AllCalls
    <3> QED
      BY <1>2, <3>1, <3>3
  <2>3. ASSUME NEW g \in Attempts, TakeCall(g) \/ Collected(g) PROVE FALSE
    <3>1. queue[g] # <<>>
      BY <2>3 DEF TakeCall, Collected, Collecting
    <3>2. queue' = queue \/ queue' = [queue EXCEPT ![g] = Tail(queue[g])] \/ queue' = [queue EXCEPT ![g] = <<>>]
      BY <2>3, Zenon DEF TakeCall, TakeTry, Collected
    <3>3. queue'[k] = queue[k] \/ (k = g /\ queue'[k] = Tail(queue[k])) \/ queue'[k] = <<>>
      BY <3>2
    <3>4. k = g => ~From(Tail(queue[k]), h)
      BY <1>1, <1>2, <3>1, CallerTaken
    <3> QED
      BY <1>2, <3>3, <3>4, NoCaller
  <2>4. ASSUME NEW g \in Attempts, WaitReturns(g) \/ RecvEnds(g) \/ Drain(g) \/ Woken(g) PROVE FALSE
    BY <1>2, <2>4 DEF WaitReturns, RecvEnds, Drain, Woken
  <2>5. ASSUME NEW g \in Attempts, Ask(g) \/ AskToWait(g)
        PROVE  h = g /\ k = recvTx /\ k # None /\ task[g] # "none"
    <3>1. \/ queue'[k] = queue[k]
          \/ k = recvTx /\ queue'[k] = Append(queue[k], Call("try", g))
          \/ k = recvTx /\ queue'[k] = Append(queue[k], Call("wait", g))
      BY <2>5, Asking
    <3>2. Call("try", g).by = g /\ Call("wait", g).by = g
      BY DEF Call
    <3>4. /\ From(Append(queue[k], Call("try", g)), h) => h = g
          /\ From(Append(queue[k], Call("wait", g)), h) => h = g
      BY <1>1, <1>2, <3>2, CallerAdded, AllCalls
    <3>3. h = g /\ k = recvTx
      BY <1>2, <3>1, <3>4
    <3> QED
      BY <2>5, <3>3, LifecycleAssumption DEF Ask, AskToWait, At, Attempts
  <2> QED
    BY <2>1, <2>2, <2>3, <2>4, <2>5, Quiet DEF Stirs
<1>3. CASE From(queue[k], h)
  <2>1. h <= attempt /\ (h = attempt => k = attempt)
    BY <1>3 DEF Owned
  <2>2. attempt' = attempt \/ attempt' = attempt + 1
    BY Elsewhere DEF Calls, call, BeginInit, StoreReceiver, SpawnRecv, StoreRecvTx, StoreSendTx, SetGateway,
       BeginClose, CloseRecv, TakeRecvTx, Signal, JoinRecv, CloseSend, Reset, ForgetReceiver, ResetTurn,
       ShutRuntime, BeginSend, SendPage
  <2> QED
    BY <2>1, <2>2 DEF CallTypes, Attempts
<1>4. CASE ~From(queue[k], h)
  <2>1. PICK g \in Attempts : (Ask(g) \/ AskToWait(g)) /\ h = g /\ k = recvTx /\ k # None /\ task[g] # "none"
    BY <1>2, <1>4
  <2>2. attempt' = attempt
    BY <2>1 DEF Ask, AskToWait, call
  <2>3. h <= attempt /\ (h = attempt => k = attempt)
    BY <2>1 DEF Latest, Attempts, CallTypes
  <2> QED
    BY <2>2, <2>3
<1> QED
  BY <1>3, <1>4

\* Where nobody else can ask, nobody else's thread is left to wait for what is not at hand.
LEMMA BystandersStep == Poised /\ Next => Bystanders'
<1> SUFFICES ASSUME Poised, Next PROVE Bystanders'
  OBVIOUS
<1> USE DEF Poised, Left, Waits
<1>0. None \notin Attempts /\ (attempt # 0 => attempt \in Attempts) /\ attempt # None
      /\ started \in Attempts \union {None}
  BY LifecycleAssumption DEF Typed, CallTypes, Attempts
<1>1. recvTx # None /\ app # "take" => \A h \in Attempts : Alive(h) => Alive(h)'
  BY Survives
<1>2. \A g \in Attempts : AskToWait(g) => Alive(g)
  BY DEF AskToWait, At, Alive
<1>3. ASSUME Initialises', recvTx' = None \/ Nobody', NEW g \in Attempts PROVE Noted(g)'
  <2>1. CASE BeginInit
    <3>1. app = "idle" /\ UNCHANGED <<started, recvTx, task, recv, queue, event>>
      BY <2>1 DEF BeginInit, Do, globals, tasks, threads
    <3>2. started = None
      BY <1>0, <1>3, <3>1 DEF Running, Session, Nobody, Alive
    <3>3. Noted(g)
      BY <3>1, <3>2 DEF Attentive, Over, Returned, Noted
    <3> QED
      BY <3>1, <3>3 DEF Noted
  <2>2. CASE Initialises
    <3>1. recvTx' = recvTx \/ (recvTx' # None /\ task' = task)
      BY <1>0, <2>2, LifecycleAssumption, Elsewhere
      DEF Calls, globals, tasks, Initialises, Do, BeginInit, StoreReceiver, SpawnRecv, StoreRecvTx, StoreSendTx, SetGateway,
        BeginClose, CloseRecv, TakeRecvTx, Signal, JoinRecv, CloseSend, Reset, ForgetReceiver, ResetTurn,
        ShutRuntime, BeginSend, SendPage
    <3>2. recvTx = None \/ Nobody
      <4>1. CASE recvTx' = recvTx
        BY <1>1, <1>3, <2>2, <4>1 DEF Initialises, Nobody
      <4>2. CASE recvTx' # None /\ task' = task
        BY <1>3, <4>2 DEF Nobody, Alive
      <4> QED
        BY <3>1, <4>1, <4>2
    <3>3. Noted(g) /\ \A h \in Attempts : AskToWait(h) => g # recvTx
      BY <1>0, <1>2, <2>2, <3>2 DEF Bystanders, Nobody
    <3> QED
      BY <3>3, NotedStep
  <2>3. Initialises \/ BeginInit
    BY <1>3, Elsewhere
    DEF Calls, call, Initialises, Do, BeginInit, StoreReceiver, SpawnRecv, StoreRecvTx, StoreSendTx, SetGateway,
        BeginClose, CloseRecv, TakeRecvTx, Signal, JoinRecv, CloseSend, Reset, ForgetReceiver, ResetTurn,
        ShutRuntime, BeginSend, SendPage
  <2> QED
    BY <2>1, <2>2, <2>3
<1>4. ASSUME Session', Alone', NEW g \in Attempts \ {attempt'} PROVE Noted(g)'
  <2>1. CASE SetGateway
    <3>1. app = "gateway" /\ app' = "idle" /\ UNCHANGED <<attempt, recv, queue, event>>
      BY <1>4, <2>1 DEF SetGateway, Do, threads, Session
    <3>2. task' = [task EXCEPT ![attempt] = "try"] /\ task[attempt] = "none"
      BY <2>1, <3>1 DEF SetGateway, Latest
    <3>3. Nobody
      BY <1>4, <3>1, <3>2 DEF Nobody, Alone, Alive, Typed, TaskTypes
    <3> QED
      BY <3>1, <3>3 DEF Bystanders, Initialises, Noted
  <2>2. CASE Session /\ attempt' = attempt
    <3>1. recvTx = attempt /\ app # "take" /\ started = attempt
      BY <2>2 DEF Running, Session
    <3>2. Alone
      BY <1>0, <1>1, <1>4, <2>2, <3>1 DEF Alone, Alive
    <3>3. Noted(g)
      BY <1>4, <2>2, <3>2 DEF Bystanders
    <3> QED
      BY <1>4, <2>2, <3>1, <3>3, NotedStep
  <2>3. SetGateway \/ (Session /\ attempt' = attempt)
    BY <1>4, Elsewhere
    DEF Calls, call, Session, Do, BeginInit, StoreReceiver, SpawnRecv, StoreRecvTx, StoreSendTx, SetGateway,
        BeginClose, CloseRecv, TakeRecvTx, Signal, JoinRecv, CloseSend, Reset, ForgetReceiver, ResetTurn,
        ShutRuntime, BeginSend, SendPage, Handles, Unasked
  <2> QED
    BY <2>1, <2>2, <2>3
<1> QED
  BY <1>3, <1>4 DEF Bystanders

\* Pages come with an event; only the return of a wait takes it away.
LEMMA HearStep ==
  ASSUME Left, Next, NEW h \in Attempts, Unheard(h)'
  PROVE  Unheard(h) \/ WaitReturns(h)
<1> USE DEF Left, Waits, Typed, ThreadTypes, Flags
<1>1. CASE UNCHANGED <<pages, event>>
  BY <1>1 DEF Unheard
<1>2. CASE Signal
  BY <1>2, Zenon DEF Signal, Unheard
<1>3. CASE SendPage
  <2>1. h \notin Subscribed
    BY <1>3, Zenon DEF SendPage, Unheard
  <2>2. pages'[h] = pages[h]
    BY <1>3, <2>1 DEF SendPage
  <2>3. ~event[h]
    BY <1>3, Zenon DEF SendPage, Unheard
  <2> QED
    BY <2>2, <2>3 DEF Unheard
<1>4. ASSUME NEW g \in Attempts, Arrive(g) PROVE Unheard(h)
  <2>1. g # h /\ event'[h] = event[h]
    BY <1>4 DEF Arrive, Unheard
  <2> QED
    BY <1>4, <2>1 DEF Arrive, Unheard
<1>5. ASSUME NEW g \in Attempts, WaitReturns(g), g # h PROVE Unheard(h)
  BY <1>5 DEF WaitReturns, Unheard
<1>6. ASSUME NEW g \in Attempts, TakeCall(g) \/ RecvEnds(g) PROVE Unheard(h)
  <2>1. \/ pages' = pages
        \/ pages' = [pages EXCEPT ![g] = 0]
        \/ pages[g] > 0 /\ pages' = [pages EXCEPT ![g] = pages[g] - 1]
    BY <1>6, Zenon DEF TakeCall, TakeTry, RecvEnds
  <2>2. pages'[h] > 0 => pages[h] > 0
    BY <2>1
  <2>3. event' = event
    BY <1>6 DEF TakeCall, RecvEnds
  <2> QED
    BY <2>2, <2>3, Zenon DEF Unheard
<1> QED
  BY <1>1, <1>2, <1>3, <1>4, <1>5, <1>6, Zenon
  DEF Next, Calls, threads, BeginInit, StoreReceiver, SpawnRecv, StoreRecvTx, StoreSendTx, SetGateway,
      BeginClose, CloseRecv, TakeRecvTx, JoinRecv, CloseSend, Reset, ForgetReceiver, ResetTurn,
      ShutRuntime, BeginSend, Threads, Collected,
      SendEnds, Runs, Drain, Ask, Answered, AskToWait, LockReceiver, Woken, Framed

\* An attempt's thread hears of pages before the attempt's task is there.
LEMMA AttendedBefore == Poised /\ Next => (app = "recvTx" \/ (Begun /\ Nobody) => ~Unheard(attempt))'
<1> SUFFICES ASSUME Poised, Next, (app = "recvTx" \/ (Begun /\ Nobody))', Unheard(attempt)' PROVE FALSE
  OBVIOUS
<1> USE DEF Poised, Left, Waits
<1>1. CASE SpawnRecv
  <2>1. attempt \in Attempts /\ recv[attempt] = "none" /\ UNCHANGED <<attempt, pages>>
    BY <1>1, LifecycleAssumption DEF SpawnRecv, Do, Making, Typed, Room, CallTypes, Attempts
  <2> QED
    BY <2>1 DEF Kept, Unheard
<1>2. CASE StoreRecvTx \/ StoreSendTx
  <2>1. UNCHANGED <<attempt, pages, event, task>> /\ (app = "recvTx" \/ Begun) /\ (Begun' => Nobody')
    BY <1>2 DEF StoreRecvTx, StoreSendTx, Do, Begun, threads, tasks
  <2>2. app' = "recvTx" \/ Nobody'
    BY <2>1
  <2>3. app = "recvTx" \/ (Begun /\ Nobody)
    BY <1>2, <2>1, <2>2 DEF StoreRecvTx, StoreSendTx, Do, Nobody, Alive
  <2> QED
    BY <2>1, <2>3 DEF Attended, Unheard
<1>3. CASE UNCHANGED <<call, globals>> /\ ~SpawnRecv /\ ~StoreRecvTx /\ ~StoreSendTx
  <2>1. UNCHANGED <<app, attempt, recvTx>>
    BY <1>3 DEF call, globals
  <2>2. attempt \in Attempts
    BY <2>1, LifecycleAssumption DEF Begun, Typed, Room, CallTypes, Attempts
  <2>3. app = "recvTx" \/ (Begun /\ Nobody)
    <3>1. CASE app = "recvTx"
      BY <3>1
    <3>2. CASE Begun /\ Nobody'
      <4>1. recvTx # None /\ app # "take"
        BY <2>2, <3>2, LifecycleAssumption DEF Running, Begun, Attempts
      <4> QED
        BY <3>2, <4>1, Survives DEF Nobody
    <3> QED
      BY <2>1, <3>1, <3>2 DEF Begun
  <2>4. ~Unheard(attempt)
    BY <2>3 DEF Attended
  <2>5. recv[attempt] # "waiting"
    <3>1. CASE app = "recvTx"
      BY <3>1 DEF Making
    <3>2. CASE Begun /\ Nobody
      BY <2>2, <3>2, LifecycleAssumption DEF Running, Begun, Initialises, Flagged, Pending, Attempts
    <3> QED
      BY <2>3, <3>1, <3>2
  <2>6. pages'[attempt] > 0 /\ ~event'[attempt]
    BY <2>1 DEF Unheard
  <2> QED
    BY <2>2, <2>4, <2>5, <2>6, HearStep DEF WaitReturns, Unheard
<1>4. CASE Calls /\ ~SpawnRecv /\ ~StoreRecvTx /\ ~StoreSendTx
  BY <1>4 DEF Calls, Do, Begun, BeginInit, StoreReceiver, SetGateway,
      BeginClose, CloseRecv, TakeRecvTx, Signal, JoinRecv, CloseSend, Reset, ForgetReceiver, ResetTurn,
      ShutRuntime, BeginSend, SendPage
<1> QED
  BY <1>1, <1>2, <1>3, <1>4, Elsewhere

\* What results have an error is what the code looks for.
LEMMA Errors ==
  ASSUME NEW r \in Results
  PROVE  Error(r) <=> "error" \in {r[i] : i \in DOMAIN r}
BY LenProperties DEF Results, Error

\* A task that runs alone goes on asking until there is nothing to ask for.
LEMMA TendedRuns ==
  ASSUME Poised, Session, Alone, ~failed, Tended, Runs(attempt) \/ Framed(attempt), attempt \in Attempts
  PROVE  /\ task'[attempt] \in {"lock", "await"} => blocked'
         /\ Unheard(attempt)' => \/ results'[attempt] # <<>>
                                 \/ task'[attempt] = "try" /\ ~blocked'
                                 \/ task'[attempt] = "ask"
                                 \/ task'[attempt] = "asked" /\ answer'[attempt] # "empty"
<1> DEFINE g == attempt
           Heeded == \/ results[g] # <<>>
                     \/ task[g] = "try" /\ ~blocked
                     \/ task[g] = "ask"
                     \/ task[g] = "asked" /\ answer[g] # "empty"
           Goal == \/ results'[g] # <<>>
                   \/ task'[g] = "try" /\ ~blocked'
                   \/ task'[g] = "ask"
                   \/ task'[g] = "asked" /\ answer'[g] # "empty"
<1> USE DEF Poised, Left, Waits, Typed, TaskTypes
<1>1. /\ receiver = g /\ recvTx = g /\ g # None /\ recv[g] # "ended" /\ app # "take"
      /\ g \in Attempts
  BY LifecycleAssumption DEF Running, Open, Session, Attempts
<1>2. UNCHANGED <<attempt, pages, event>>
  BY DEF Runs, Drain, Ask, Answered, AskToWait, LockReceiver, Woken, Framed, call, threads
<1>3. Unheard(attempt)' => Heeded
  BY <1>2, Zenon DEF Unheard, Tended
<1>4. results[g] \in Results /\ ~Error(results[g])
  BY <1>1 DEF ThreadTypes, Tended
<1>5. ~Asks(g) \/ ~blocked
  BY <1>1 DEF Free, Alone
<1>6. results[g] # <<>> => "ok" \in {results[g][i] : i \in DOMAIN results[g]}
  BY <1>4, AllGood
<1>7. "error" \notin {results[g][i] : i \in DOMAIN results[g]}
  BY <1>4, Errors
<1>8. task[g] \in {"lock", "await"} => blocked
  BY DEF Tended
<1>9. HandleResults => blocked' = IF "ok" \in {results[g][i] : i \in DOMAIN results[g]} THEN FALSE ELSE blocked
  <2>1. receiver = g /\ g \in Attempts /\ results \in [Attempts -> Results] /\ OneResult
    BY <1>1 DEF ThreadTypes
  <2>2. ASSUME HandleResults
        PROVE  blocked' = IF "ok" \in {results[receiver][i] : i \in DOMAIN results[receiver]} THEN FALSE ELSE blocked
    BY <2>1, <2>2, Handling, Zenon
  <2> QED
    BY <2>1, <2>2, Zenon
<1> HIDE DEF g
<1>10. (task'[g] \in {"lock", "await"} => blocked') /\ (Heeded => Goal)
  <2>1. CASE Drain(g)
    <3>1. task[g] = "try"
      BY <2>1 DEF Drain, At
    <3>2. ReceiverFree /\ receiver # None
      BY <1>1, <3>1 DEF ReceiverFree, Alone, Alive, g
    <3>3. /\ HandleResults
          /\ Step(g, "try", IF blocked' THEN "out" ELSE "ask")
      BY <1>1, <1>7, <2>1, <3>2 DEF Drain
    <3>4. task'[g] = IF blocked' THEN "out" ELSE "ask"
      BY <1>1, <3>3 DEF Step
    <3>5. Heeded => ~blocked'
      BY <1>6, <1>9, <3>1, <3>3
    <3> QED
      BY <3>4, <3>5
  <2>2. CASE Ask(g)
    <3>1. task'[g] = "asked" /\ answer'[g] = "none"
      BY <1>1, <2>2 DEF Ask, Step
    <3> QED
      BY <3>1
  <2>3. CASE Answered(g)
    <3>1. task[g] = "asked" /\ UNCHANGED <<blocked, results, answer>>
      BY <2>3 DEF Answered, At, threads
    <3>2. \/ answer[g] = "page" /\ task'[g] = "try"
          \/ answer[g] = "empty" /\ task'[g] = "out"
      BY <1>1, <2>3 DEF Answered, Step
    <3> QED
      BY <1>5, <3>1, <3>2 DEF Asks
  <2>4. CASE AskToWait(g)
    <3>1. task[g] = "out" /\ task'[g] = "lock" /\ blocked' /\ UNCHANGED results
      BY <1>1, <2>4 DEF AskToWait, At, Step, Flags
    <3> QED
      BY <3>1
  <2>5. CASE LockReceiver(g)
    <3>1. task[g] = "lock" /\ task'[g] = "await" /\ UNCHANGED <<blocked, results>>
      BY <1>1, <2>5 DEF LockReceiver, Step, Fails, threads
    <3> QED
      BY <1>8, <3>1
  <2>6. CASE Woken(g)
    <3>1. task[g] = "await" /\ task'[g] = "try" /\ results[g] # <<>> /\ HandleResults
      BY <1>1, <2>6 DEF Woken, Step, Closed
    <3>2. ~blocked'
      BY <1>6, <1>9, <3>1
    <3> QED
      BY <3>1, <3>2
  <2>7. CASE Framed(g)
    <3>1. task[g] = "await" /\ task'[g] = "try" /\ UNCHANGED <<blocked, results>>
      BY <1>1, <2>7 DEF Framed, Step, threads
    <3> QED
      BY <3>1
  <2> QED
    BY <2>1, <2>2, <2>3, <2>4, <2>5, <2>6, <2>7 DEF Runs, g
<1> QED
  BY <1>2, <1>3, <1>10 DEF g

\* Neither the application's nor the threads' steps make it miss them.
LEMMA TendedThreads ==
  ASSUME Poised, Next, Tended, attempt \in Attempts, receiver = attempt, UNCHANGED <<attempt, receiver>>,
         NEW g \in Attempts, Threads(g)
  PROVE  /\ task'[attempt] \in {"lock", "await"} => blocked'
         /\ Unheard(attempt)' => \/ results'[attempt] # <<>>
                                 \/ task'[attempt] = "try" /\ ~blocked'
                                 \/ task'[attempt] = "ask"
                                 \/ task'[attempt] = "asked" /\ answer'[attempt] # "empty"
<1> USE DEF Poised, Left, Waits, Typed, ThreadTypes, TaskTypes
<1>1. UNCHANGED <<task, blocked>>
  BY DEF Threads, TakeCall, Collected, WaitReturns, RecvEnds, tasks
<1>2. ASSUME results[attempt] # <<>> PROVE results'[attempt] # <<>>
  <2>1. CASE WaitReturns(g)
    <3>1. \/ results'[attempt] = results[attempt]
          \/ results'[attempt] = Append(results[attempt], "ok")
          \/ results'[attempt] = Append(results[attempt], "error")
      BY <2>1 DEF WaitReturns, Result
    <3> QED
      BY <1>2, <3>1, ResultAdded
  <2> QED
    BY <1>2, <2>1 DEF Threads, TakeCall, Collected, RecvEnds
<1>3. ASSUME WaitReturns(attempt) PROVE results'[attempt] # <<>>
  <2>1. \/ results'[attempt] = Append(results[attempt], "ok")
        \/ results'[attempt] = Append(results[attempt], "error")
    BY <1>3 DEF WaitReturns, Result
  <2> QED
    BY <2>1, ResultAdded
<1>4. ASSUME answer'[attempt] = "empty", answer[attempt] # "empty" PROVE pages[attempt] = 0
  <2>1. TakeCall(g)
    BY <1>4 DEF Threads, Collected, WaitReturns, RecvEnds, tasks
  <2>2. queue[g] # <<>> /\ Head(queue[g]).by = attempt /\ pages[g] = 0
    BY <1>4, <2>1 DEF TakeCall, TakeTry
  <2>3. From(queue[g], attempt)
    BY <2>2, CallerTaken
  <2> QED
    BY <2>2, <2>3 DEF Owned
<1>5. ASSUME Unheard(attempt)' PROVE Unheard(attempt) \/ WaitReturns(attempt)
  <2>1. pages'[attempt] > 0 /\ ~event'[attempt]
    BY <1>5 DEF Unheard
  <2> QED
    BY <2>1, HearStep DEF Unheard
<1>6. Unheard(attempt) => pages[attempt] # 0
  BY DEF Unheard
<1> QED
  BY <1>1, <1>2, <1>3, <1>4, <1>5, <1>6 DEF Tended

\* A lone task goes on learning of the pages.
LEMMA TendedStep == Poised /\ Next => (Session /\ Alone /\ ~failed => Tended)'
<1> SUFFICES ASSUME Poised, Next, Session', Alone', ~failed' PROVE Tended'
  OBVIOUS
<1> USE DEF Poised, Left, Waits
<1>0. None \notin Attempts /\ (attempt # 0 => attempt \in Attempts) /\ attempt # None
      /\ started \in Attempts \union {None}
  BY LifecycleAssumption DEF Typed, CallTypes, Attempts
<1>1. CASE SetGateway
  <2>1. /\ app = "gateway" /\ app' = "idle"
        /\ UNCHANGED <<attempt, recv, queue, event, pages, results, blocked>>
    BY <1>1 DEF SetGateway, Do, threads, Session
  <2>2. task' = [task EXCEPT ![attempt] = "try"] /\ task[attempt] = "none" /\ attempt \in Attempts
    BY <1>0, <1>1, <2>1 DEF SetGateway, Latest, Typed, Room
  <2>3. Nobody
    BY <2>1, <2>2 DEF Nobody, Alone, Alive, Typed, TaskTypes
  <2>4. ~blocked /\ ~Unheard(attempt) /\ recvTx = attempt
    BY <2>1, <2>3 DEF Running, Initialises, Begun, Attended
  <2>5. results[attempt] = <<>>
    BY <1>0, <2>2, <2>4 DEF Flagged, Pending
  <2>6. task'[attempt'] = "try" /\ ~Unheard(attempt)' /\ ~blocked' /\ results'[attempt'] = <<>>
    BY <2>1, <2>2, <2>4, <2>5 DEF Unheard, Typed, TaskTypes
  <2>7. ~Error(results[attempt])'
    BY <2>6 DEF Error
  <2> QED
    BY <2>6, <2>7 DEF Tended
<1>2. CASE Session /\ UNCHANGED <<attempt, receiver, recvTx>>
  <2>1. recvTx = attempt /\ receiver = attempt /\ app # "take" /\ attempt \in Attempts
    BY <1>0, <1>2 DEF Running, Session
  <2>2. Alone
    <3>1. \A h \in Attempts : Alive(h) => Alive(h)'
      BY <1>0, <2>1, Survives
    <3> QED
      BY <1>2, <3>1 DEF Alone, Alive
  <2>3. ~failed
    BY <1>2 DEF Session, Next, Do, aside, Calls, BeginInit, StoreReceiver, SpawnRecv, StoreRecvTx, StoreSendTx, SetGateway,
         BeginClose, CloseRecv, TakeRecvTx, Signal, JoinRecv, CloseSend, Reset, ForgetReceiver, ResetTurn,
         ShutRuntime, BeginSend, SendPage, Threads, TakeCall, Collected, WaitReturns, RecvEnds,
         SendEnds, Arrive, Runs, Drain, Ask, Answered, AskToWait, LockReceiver, Woken, Framed
  <2>4. Tended
    BY <1>2, <2>2, <2>3 DEF Attended
  <2>5. Matched
    BY <1>0, <2>1 DEF Matched, Open
  <2>6. ASSUME NEW g \in Attempts, Stirs(g)
        PROVE  ~Error(results'[attempt]) /\ (blocked' => Pending(attempt)')
    BY <2>1, <2>4, <2>5, <2>6, MeantStirs DEF Tended
  <2>7. ASSUME UNCHANGED <<recv, queue, results, blocked>>
        PROVE  ~Error(results'[attempt]) /\ (blocked' => Pending(attempt)')
    BY <1>2, <2>4, <2>7 DEF Tended, Pending
  <2>8. CASE BeginSend \/ SendPage \/ \E g \in Attempts : SendEnds(g) \/ Arrive(g)
    <3>1. UNCHANGED <<recv, queue, results, blocked, task, answer>>
      BY <2>8 DEF BeginSend, SendPage, SendEnds, Arrive, threads, tasks
    <3>2. ~WaitReturns(attempt)
      BY <2>1, <3>1 DEF WaitReturns, Typed, ThreadTypes
    <3>3. Unheard(attempt)' => Unheard(attempt)
      <4>1. pages'[attempt] > 0 /\ ~event'[attempt] => Unheard(attempt)
        BY <2>1, <3>2, HearStep DEF Unheard
      <4> QED
        BY <1>2, <4>1 DEF Unheard
    <3> QED
      BY <1>2, <2>4, <2>7, <3>1, <3>3 DEF Tended
  <2>9. ASSUME NEW g \in Attempts, Threads(g) PROVE Tended'
    <3>1. Stirs(g)
      BY <2>9 DEF Threads, Stirs
    <3> QED
      BY <1>2, <2>1, <2>4, <2>6, <2>9, <3>1, TendedThreads DEF Tended
  <2>10. ASSUME NEW g \in Attempts, Runs(g) \/ Framed(g) PROVE Tended'
    <3>1. g = attempt
      BY <2>2, <2>10, Moves DEF Alone
    <3>2. Stirs(g) \/ UNCHANGED <<recv, queue, results, blocked>>
      BY <2>10 DEF Runs, Stirs, Answered, LockReceiver, Framed, threads
    <3> QED
      BY <1>2, <2>1, <2>2, <2>3, <2>4, <2>6, <2>7, <2>10, <3>1, <3>2, TendedRuns DEF Tended
  <2>11. ~Calls \/ BeginSend \/ SendPage
    BY <1>2 DEF Session, Calls, Do, BeginInit, StoreReceiver, SpawnRecv, StoreRecvTx, StoreSendTx, SetGateway,
         BeginClose, CloseRecv, TakeRecvTx, Signal, JoinRecv, CloseSend, Reset, ForgetReceiver, ResetTurn, ShutRuntime
  <2> QED
    BY <2>8, <2>9, <2>10, <2>11 DEF Next
<1>3. SetGateway \/ (Session /\ UNCHANGED <<attempt, receiver, recvTx>>)
  BY Elsewhere
  DEF Calls, call, globals, Session, Do, BeginInit, StoreReceiver, SpawnRecv, StoreRecvTx, StoreSendTx, SetGateway,
      BeginClose, CloseRecv, TakeRecvTx, Signal, JoinRecv, CloseSend, Reset, ForgetReceiver, ResetTurn,
      ShutRuntime, BeginSend, SendPage, Handles, Unasked
<1> QED
  BY <1>1, <1>2, <1>3

\* All of it is kept.
LEMMA PoisedInductive ==
  /\ Init => Poised
  /\ Poised /\ [Next]_<<vars, liberties>> => Poised'
<1>1. ASSUME Init PROVE Poised
  <2>1. Left
    BY <1>1, LeftInductive
  <2>2. Latest /\ Kept /\ OneTurn /\ Heard /\ Lowered /\ Free /\ Open
    BY <1>1 DEF Init, Latest, Kept, OneTurn, Heard, Lowered, Free, Open, Asks, Late
  <2>3. Running
    BY <1>1 DEF Init, Running, Begun, Session, Initialises
  <2>4. Owned
    BY <1>1, NoCaller DEF Init, Owned
  <2>5. Bystanders /\ Attended
    BY <1>1 DEF Init, Bystanders, Attended, Begun, Session, Initialises
  <2> QED
    BY <2>1, <2>2, <2>3, <2>4, <2>5 DEF Poised
<1>2. ASSUME Poised, UNCHANGED <<vars, liberties>> PROVE Poised'
  <2>1. Left'
    BY <1>2, LeftInductive DEF Poised
  <2> USE <1>2 DEF Poised, vars, call, globals, threads, tasks
  <2>2. Latest' /\ Kept' /\ OneTurn' /\ Heard' /\ Lowered' /\ Free' /\ Open'
    BY DEF Latest, Kept, OneTurn, Heard, Lowered, Free, Open, Asks, Late, Returned, Alive
  <2>3. Running'
    BY DEF Running, Begun, Session, Initialises, Alive, Nobody
  <2>4. Owned'
    BY DEF Owned
  <2>5. Bystanders'
    BY DEF Bystanders, Noted, Initialises, Nobody, Session, Alone, Alive
  <2>6. Attended'
    BY DEF Attended, Tended, Unheard, Pending, Begun, Nobody, Session, Alone, Alive
  <2> QED
    BY <2>1, <2>2, <2>3, <2>4, <2>5, <2>6
<1>3. ASSUME Poised, Next PROVE Poised'
  <2>1. Left'
    BY <1>3, LeftInductive DEF Poised
  <2>2. Attended'
    BY <1>3, AttendedBefore, TendedStep DEF Attended
  <2> QED
    BY <1>3, <2>1, <2>2, LatestStep, KeptStep, OneTurnStep, HeardStep, LoweredStep, FreeStep, OpenStep,
       RunningStep, OwnedStep, BystandersStep DEF Poised
<1> QED
  BY <1>1, <1>2, <1>3

\* A call stalls for the reasons named only.
LEMMA StallsExcused == Poised /\ Stalls => Excused
<1> SUFFICES ASSUME Poised, Stalls, ~Excused PROVE FALSE
  OBVIOUS
<1> USE DEF Poised, Left, Waits, Typed, ThreadTypes, TaskTypes
<1>0. None \notin Attempts /\ attempt # None /\ (attempt # 0 => attempt \in Attempts)
  BY LifecycleAssumption DEF CallTypes, Attempts
<1>1. \A g \in Attempts : ~ThreadGoesOn(g) /\ ~TaskGoesOn(g)
  BY DEF Stalls
<1>2. \A g \in Attempts : Alive(g) => MayRun
  BY DEF Excused, MayRun
<1>3. \A g, h \in Attempts : Alive(g) /\ Alive(h) => g = h
  BY DEF Excused
<1>4. ASSUME NEW g \in Attempts
      PROVE  /\ recv[g] # "collect"
             /\ recv[g] = "idle" => queue[g] = <<>> /\ Reachable(g)
             /\ recv[g] = "waiting" => ~event[g]
  BY <1>1 DEF ThreadGoesOn, Excused
<1>5. ASSUME NEW g \in Attempts PROVE task[g] # "asked"
  <2> SUFFICES ASSUME task[g] = "asked" PROVE FALSE
    OBVIOUS
  <2>1. recvTx # None /\ recvTx \in Attempts /\ recv[recvTx] # "none"
    BY Asked DEF Heard
  <2>2. answer[g] = "none" /\ recv[recvTx] # "ended"
    BY <1>1, <1>2 DEF TaskGoesOn, Alive
  <2>3. Tries(queue[recvTx], g)
    BY <2>2 DEF Heard
  <2>4. queue[recvTx] # <<>>
    BY <2>3, NoCaller
  <2>5. recv[recvTx] = "waiting"
    BY <1>4, <2>1, <2>2, <2>4
  <2>6. blocked
    BY <2>1, <2>5 DEF Flagged, Pending
  <2> QED
    BY <1>3, <2>6 DEF Free, Asks, Alive
<1>6. ASSUME NEW g \in Attempts, Alive(g) PROVE task[g] = "await"
  <2>1. task[g] \notin {"ask", "out"}
    BY <1>1, <1>2, <1>6 DEF TaskGoesOn
  <2>2. TurnFree
    BY <1>1, <1>2, <1>5 DEF TurnFree, TaskGoesOn, Alive
  <2>3. task[g] # "try"
    BY <1>1, <1>2, <1>6, <2>2 DEF TaskGoesOn
  <2>4. task[g] = "lock" => ReceiverFree
    BY <1>3, <1>6 DEF ReceiverFree, Alive
  <2>5. task[g] # "lock"
    BY <1>1, <1>2, <1>6, <2>4 DEF TaskGoesOn
  <2> QED
    BY <1>5, <1>6, <2>1, <2>3, <2>5 DEF Alive
<1>7. ASSUME NEW g \in Attempts, task[g] = "await"
      PROVE  receiver = attempt /\ attempt \in Attempts /\ results[attempt] = <<>> /\ ~Closed(attempt)
  <2>1. receiver = attempt /\ attempt \in Attempts
    BY <1>0, <1>7 DEF Kept, Latest, CallTypes
  <2> QED
    BY <1>1, <1>2, <1>7, <2>1 DEF TaskGoesOn, Alive
<1>8. TurnFree /\ RecvTxUnread /\ \A g \in Attempts : task[g] \in {"none", "await", "ended"}
  BY <1>6 DEF Alive, TurnFree, RecvTxUnread
<1>9. app \in {"receiver", "join", "closeSend", "forget", "send"} /\ ~CallGoesOn
  BY <1>8 DEF Stalls, CallGoesOn, CallTypes
<1>10. CASE app = "receiver"
  BY <1>9, <1>10 DEF CallGoesOn, ReceiverFree, Excused
<1>11. CASE app = "join"
  <2>1. joinR # None /\ joinR \in Attempts /\ recv[joinR] \notin {"none", "ended"}
    BY <1>9, <1>11 DEF CallGoesOn, Kept, CallTypes
  <2>2. recvTx = None
    BY <1>11 DEF Unasked, Closing
  <2>3. recv[joinR] # "idle"
    BY <1>0, <1>4, <1>11, <2>1, <2>2 DEF Reachable
  <2>4. recv[joinR] = "waiting"
    BY <1>4, <2>1, <2>3
  <2>5. event[joinR]
    BY <1>11, <2>1, <2>4 DEF Attentive, Noted, Over
  <2> QED
    BY <1>4, <2>1, <2>4, <2>5
<1>12. CASE app = "closeSend"
  <2>1. joinS # None /\ sendTx # joinS
    BY <1>9, <1>12 DEF CallGoesOn
  <2>2. started # None
    BY <1>12, <2>1 DEF Kept, Returned
  <2> QED
    BY <1>12, <2>1, <2>2 DEF Handles
<1>13. CASE app = "forget"
  <2>1. PICK g \in Attempts : task[g] = "await"
    BY <1>9, <1>13 DEF CallGoesOn, ReceiverFree
  <2>2. attempt \in Attempts /\ ~Closed(attempt)
    BY <1>7, <2>1
  <2>3. recv[attempt] = "ended"
    BY <1>0, <1>13, <2>2, LifecycleAssumption DEF Joined, Late, Attempts
  <2> QED
    BY <1>13, <2>2, <2>3 DEF Closed, Initialising
<1>14. CASE app = "send"
  <2>1. Session /\ ~failed
    BY <1>14 DEF Session, Unasked, Excused
  <2>2. Alive(attempt) /\ recvTx = attempt /\ attempt \in Attempts
    BY <1>0, <2>1 DEF Running, Session, CallTypes
  <2>3. Alone /\ task[attempt] = "await"
    BY <1>3, <1>6, <2>2 DEF Alone
  <2>4. Tended
    BY <2>1, <2>3 DEF Attended
  <2>5. PICK g \in Subscribed : ~(pages[g] < BufferSize)
    BY <1>9, <1>14 DEF CallGoesOn, Kept
  <2>6. g \in Attempts /\ recv[g] \in {"idle", "waiting"}
    BY <1>4, <2>5 DEF Subscribed
  <2>7. recv[g] = "waiting" => ~event[g]
    BY <1>4, <2>6
  <2>8. CASE g # attempt
    <3>1. recv[g] # "idle"
      BY <1>4, <1>14, <2>2, <2>6, <2>8 DEF Reachable
    <3>2. recv[g] = "waiting" => event[g]
      BY <2>1, <2>3, <2>6, <2>8 DEF Bystanders, Noted
    <3> QED
      BY <2>6, <2>7, <3>1, <3>2
  <2>9. CASE g = attempt
    <3>1. results[attempt] = <<>> /\ Pending(attempt)
      BY <1>7, <2>2, <2>3, <2>4 DEF Tended
    <3>2. recv[attempt] = "waiting"
      BY <1>4, <2>6, <2>9, <3>1, Nothing DEF Pending
    <3>3. pages[attempt] > 0
      BY <2>2, <2>5, <2>9, LifecycleAssumption
    <3>4. Unheard(attempt)
      BY <2>7, <2>9, <3>2, <3>3 DEF Unheard
    <3> QED
      BY <2>3, <2>4, <3>1, <3>4 DEF Tended
  <2> QED
    BY <2>8, <2>9
<1> QED
  BY <1>9, <1>10, <1>11, <1>12, <1>13, <1>14

\* No call of the application (combined.rs) stalls but for the reasons named: however init,
\* close and sends meet the receive task and the threads of any number of attempts,
\* somebody in this process can go on.
THEOREM NobodyStalls == Spec => [](Stalls => Excused)
<1>1. Spec => []Poised
  BY PoisedInductive, PTL DEF Spec
<1> QED
  BY <1>1, StallsExcused, PTL

\* So a call hangs for those reasons only: Stalls is what Hangs says of the guards, as the
\* run checks.
THEOREM HangsExplained == Spec /\ [](Hangs <=> Stalls) => []HangsForAReason
<1>1. (Hangs <=> Stalls) /\ (Stalls => Excused) => HangsForAReason
  BY Zenon DEF HangsForAReason
<1> QED
  BY <1>1, NobodyStalls, PTL
==============================================================================
