# Specifications of skycurrent and lmq

TLA+ modules, TLC configurations and TLAPS proofs for this repository: a
message bus between processes (`skycurrent`), the in-process message queue it
delivers into (`lmq`), and their C, wasm, Deno and websocket interfaces.  Paths
are relative to `src/`; every definition that stands for code is listed with its
lines in `PROJECT.json` under `map`.

- [The system](#the-system)
- [The modules](#the-modules)
- [What the runs show](#what-the-runs-show)
- [Disagreements with the documentation](#disagreements-with-the-documentation)
- [Bounds](#bounds) and [Fairness](#fairness)
- [What is proved](#what-is-proved)
- [What is not modelled](#what-is-not-modelled) and [Plan](#plan)

## The system

```
 application thread            application threads (C, Deno)        browser, ws-client
      | send_stream                  | lmq_register_handler ...          | frames
      v                              v                                   v
 +---------------------------+  +------------------+          +--------------------+
 | combined backing          |  | handler registry |          | ws gateway         |
 |  iceoryx2 actor threads <-+--+--- messages -----+----------+- clients' tasks    |
 |  receive task  -----------+->| LinkMessageQueue |          | broadcast channel  |
 +---------------------------+  +------------------+          +--------------------+
```

### LinkMessageQueue (`lmq/src/lib.rs`)

*State.* A singly linked list of nodes between a root and a tail sentinel; each
node has a mutex, a payload under a reader-writer lock, and the consumers it is
meant for. The queue remembers its last node; a consumer remembers its current
one. A process-wide table holds the active consumers.
*Operations.* `push`, `create_consumer`, `next`, `try_next`, dropping a consumer,
`read` and `claim` on a message. A consumer that walks prunes claimed nodes and
turns their pointers back to the node it walks from.
*Interaction.* One thread pushes, each consumer has its own; they meet at the
node mutexes, the payload locks and a `Notify`.
*Hard.* Pointers are turned while others stand on the nodes; locks are taken in
the order of the list, which pruning changes; the automatic drop ("autodrop")
counts consumers that come and go; `next` must not sleep through a push.
*Correct when* the pointers are never circular and the locks never deadlock, no
consumer passes an unclaimed message, each is given messages once and in order,
nobody sleeps while there is one, and a message is dropped exactly when its last
consumer is done with it.

### Payload lock and views (`lmq/src/lib.rs`, `lmq-wasm/src/lib.rs`, `lmq-deno/mod.ts`)

*State.* The lock's writer bit and its readers; a `MessageRef` is a reader that
lives as long as the application, or a wrapper object, keeps it.
*Operations.* `read` (two nested read locks), `claim`, the automatic drop, the
walk of a consumer, which keeps the write lock throughout.
*Correct when* no view outlives its payload, nobody claims the message a walk
starts from, and every call returns once the views are released.

### Handler registry (`lmq-capi/src/lmq_tokio.rs`, with `lmq-deno/mod.ts`)

*State.* A map from ids to tasks under one lock, a tokio runtime that exists
while the map is not empty, a one-place channel and a mode for each handler.
*Operations.* register, resume, deregister; the callback's result, which may
pause or deregister its own handler.
*Hard.* A deregistration waits for the task with the registry locked; the runtime
goes with the last handler while another thread may be registering one; Deno
runs the callback on the thread that may be waiting for it.
*Correct when* a handler's task has ended once deregistration has returned, no
task escapes the registry, handlers end only on request, resumed handlers call
back, and every call returns.

### Receive loop (`skycurrent/src/backing/combined.rs`, `ws_gateway.rs`, `iox2.rs`, `tokio.rs`)

*State.* The turn of the two backings with its 10 ms, which of them is blocked in
`wait_stream`, the results of waits, half-merged messages; the subscriber's
buffer and the event of iceoryx2, kept by two actor threads; the gateway's
receiving channel and its broadcast channel with one subscription per client.
*Operations.* `recv_stream` = `try_recv_stream` for each backing, then
`wait_stream`; `send_stream`, page by page with a notification after each;
clients connect, send, are written to and disconnect. A message of the mesh is
broadcast to the clients and pushed to the queue; a client's frame is sent to
the mesh, and delivered when its echo comes back.
*Hard.* The flag of a blocked backing is set, cleared and consulted on different
threads; a message may arrive between the last question and the wait; the task
that empties a buffer also fills it; a frame may not be a message at all.
*Correct when* the flag stands for one wait, no page and no frame is slept
through, what is published is delivered, and `try_recv_stream` returns.

### Fragmentation (`skycurrent/src/backing/iox2.rs` 345-559, `tokio.rs` 105-121)

Messages longer than a page are cut into pages that carry an identification and
a number, and merged by every receiver that collects them. A failed send is
repeated as a whole. *Hard:* a page that reached some and is sent to all again,
an attempt given up in the middle, a process that dies or subscribes meanwhile,
sizes that fill a page to the byte. *Correct when* a receiver that collects gets
what was sent, unmixed and once for each attempt, and keeps nothing of it.

### Initialisation and closing (`combined.rs` 149-254 and 529-614, `tokio.rs` 35-98)

*State.* Globals (senders, handles, the receiver of results, the flag of a waiting
backing, the gateway's channel), and the threads and the task of every attempt.
*Operations.* `init`, which tries again until it succeeds; `close`, `sc_close`;
`send_stream` between them; the threads' and the task's own ends. Each is a chain
of awaits and locks. *Interaction.* All go through the globals; `should_collect`
calls back into the application from the receiving thread.
*Hard.* `close` takes a lock that the receive task holds while it awaits; the
receiving thread may be waiting for events, or have calls queued before the one
that closes it; a second `init` may meet the first receive task; any attempt may
fail half way; in Deno the callback runs on the thread that may be in the call.
*Correct when* calls return and leave no thread behind, the receive task ends,
there is one of it at a time, and a new `init` starts from a clean state.

### Start-up of processes (`iox2.rs` 118-198, `ws_gateway.rs` 38-60, `tokio.rs` 35-98)

*State.* What processes of one project directory share: the configuration file of
iceoryx2, the nodes its services admit, the gateway's port, and the buffers of all
subscribers, for which every sender waits. *Operations.* look for the file, write
it, read it, join the services (once for receiving, once for sending), bind the
port; a failed attempt is repeated after 3 s. *Hard.* The file is looked for before
it is written, and written in two steps; an attempt that is repeated keeps what
the one before had; processes are killed at any point.
*Correct when* every `init` comes to its end if there is enough for all, and succeeds
if the file is whole, the file is never left in part, and senders do not wait for a
process that is only starting.

### Websocket client (`skycurrent-ws-client/src/index.ts`)

*State.* The present socket, earlier ones whose events are still to come, a status,
timers that will call `init` again, listeners that wait for a connection, and the
promises of `init` and `sendStream`. *Operations.* `init`, `sendStream`, `close`,
the timer, the events `open` and `close` of every socket. *Interaction.* with the
gateway, which comes and goes; what arrives is handed to the queue.
*Hard.* Events of an old socket act on the globals of the new one; a listener may
be called before it is on its list; `init` first waits for a module, and the
application may call again meanwhile; every close event starts an attempt.
*Correct when* there is one connection at a time, attempts neither stop nor
multiply, sends are sent once and in order, the status is that of the socket, and
promises are settled.

### The rest

C headers and FFI shims hand calls on one to one; hashers have no state; the
examples show use.

## The modules

| module | models | extends / composes |
|---|---|---|
| `LinkMessageQueue` | the queue at the grain of its node mutexes | instantiates `MessageStream` |
| `MessageStream` | what the queue promises its users, as a stream | abstract |
| `MessageLock` | the lock of one payload and all who take it | |
| `HandlerRegistry` | registry, runtime, tasks and application threads | |
| `ReceiveLoop` | receive task, actor threads, gateway tasks and their channels | |
| `Chunking` | sizes: how a payload is cut up and put together | |
| `FragmentedStream` | pages between processes, retries, merging | extends `Chunking` |
| `Lifecycle` | `init`, `close`, `send_stream`, the threads and the task of every attempt | |
| `Startup` | processes that start, send, end and are killed in one directory | |
| `WsClient` | the websocket client and the sockets of its browser | |
| `MC...` | small instances of the above with symmetry sets | |
| `...Proofs` | theorems for every instance | |

A definition with an underscore, `PassOn_ChecksFirst`, is a plausible bug in the
definition before the underscore. It is used by no specification; it documents
which mistake each property would find.

### LinkMessageQueue

A node is a number: `Root`, the messages in the order of push, `TailNode`. A step
is what the code does from taking a lock to giving the last one back. A walking
consumer holds the mutex of its current node over several steps (`pc = "walk"`,
which is what `Free` asks about) and that of the next node over one.

| code | here |
|---|---|
| `push` | `PushBegin` (snapshot of the active consumers), `PushWalk` (the last node on record was pruned), `PushLink`, `PushNotify` |
| `create_consumer` | `CreateConsumer` (sweeps dead trackers from the table) |
| `next` / `try_next` | `Call`, `Enter` (lock, `check_should_now_autodrop` = `PassOn`), then `Prune` for each claimed node and `Deliver` or `Exhaust`; `Await` and `Wake` around the `Notified`; `Cancel` when the future is dropped |
| `drop(MessageConsumer)` | `Leave`, `Release`, `Die`: the table, the check, the tracker |
| `claim` | `Claim` |

The table of active consumers is one per process, so that messages are also meant
for `Strangers`, consumers of other queues.

`MessageStream` says what users may rely on: whoever asks is given the first
message behind its position that nobody claimed, and a message expires when all
it was meant for are done with it. `LinkMessageQueue!ImplementsStream` is the
mapping: the list becomes the log, a consumer's current node its position.

### MessageLock

One message with users, who hold views and claim, and walkers, whose walk comes
to the node or starts from it. parking_lot's lock is modelled as used: a writer
takes the bit, which turns new readers away, then waits for the readers that are
in. `OneAtATime` and `DropsFirst` distinguish threads from a single event loop
and lmq-wasm from lmq-deno.

### HandlerRegistry

Application threads step through `Register` - `Spawn` - `Insert`, `Resume` -
(`ResumeLock`) - `Send`, `Deregister` - `Take` - `Join` - `Check` -
(`TakeRuntime`, `Shut`); a step is the part between two waits. Tasks `Receive`
their signal, `Fetch` a message or NULL, `Return` from the callback, deregister
themselves, and `End` where they await once aborted. The callback's result, the
kind of start and the mode of a resume are any the configuration allows;
`Careful` names the calls an application makes only about a paused handler.
A runtime that is dropped inside one of its own tasks panics after it has told
its workers to stop; the panic ends that task (`panicked`). Whoever then waits for the
task (`Join`) resumes the panic, on which the function called from C aborts the process
(`Aborted`): nothing happens any more.

### ReceiveLoop

`Begin` ... `Forward` are one call of `try_recv_stream`: whose turn it is, the question
to each backing, the merge of a page, the broadcast and the push, or the send of a
frame. `Out`, `Wait` and `Wake` are `wait_stream`, whose future does nothing before it
is awaited. `ActorReturn`, `SendPage` and `Notify` are the actor threads, the others the
tasks of the gateway's clients. A header that nobody collects has its page passed over.
A frame that is too `Short` for the eight bytes of its header's size
(`AskGatewayPanics`), or whose header `send_stream` refuses (`Refused`, `Refuse`), makes
the task panic: `pc` is "ended" for good, while clients, the application and the actor
threads go on. `PageFails` (the page may have come here all the same: one of several is
sent again by the same call, the only one is notified and the call fails), `NotifyFails`
and `AskFails` are errors of iceoryx2; `Retry` sends a message whose call failed again,
as a whole, which receivers may then get twice. Of iceoryx2 is modelled what the code
configures: a publisher waits while a subscriber's buffer is full, and an event stays
pending until the listener takes it. Of the broadcast channels: a sender waits for the
slowest subscriber. Both are external and known here only by their use.

`MeshDelivers` and `TryReturns` hold but for three ends, each a predicate of its own:
the task has `Ended`, it is `EchoBlocked`, waiting for a page to be published in the
buffer that only it empties, or it is in a `Circle` with a client, each waiting for room
with the other. `NeverBlocks` is what the documentation says; it allows only the first.

### Chunking and FragmentedStream

`Chunking` is the arithmetic of `send_stream` and `try_recv_stream`: what fits a
page, how long a chunk is, how many there are, and how the receiver gets those
numbers back from a remainder. `FragmentedStream` uses it. A sender is a process
whose actor thread is in `send_stream`: `Send`, then for each page `SendPage` or
`PageFails` with `Backoff`, and `Notify` or `NotifyFails`; `Again` is the retry of
`tokio.rs` under a new identification, `Die` the end of the process. `Receive` is
`try_recv_stream` for one page: header check, allocation, merge, completion.
Bytes are things of their own, so that a byte in the wrong place shows. Of
iceoryx2 is modelled a queue for each publisher and subscriber, that `send` waits
while one is full, and that a failed `send` may have reached some of them.
Several callers of one process take turns in its actor thread between attempts;
they count as senders of their own. Identifications, drawn from 2^64, are distinct,
and fewer than 2^32 chunks are sent.

### Lifecycle

The application is at one place, `app`, in `init` or `close`; each step is what lies
between two awaits or locks. Every attempt at `init` has a number, which names the
actor threads, the channel for results and the task it starts; the globals
(`receiver`, `recvTx`, ...) hold the number of the attempt they are of, or `None`.

| code | here |
|---|---|
| `init` | `BeginInit`, `StoreReceiver`, `SpawnRecv`, `StoreRecvTx`, `StoreSendTx`, `SetGateway`; each of those that can fail may go back to `StoreReceiver` |
| `close` | `BeginClose`, `CloseRecv`, `TakeRecvTx`, `Signal`, `JoinRecv`, `CloseSend`, `Reset`, `ForgetReceiver`, `ResetTurn`, and `ShutRuntime` in `sc_close` |
| actor threads | `TakeCall`, `WaitReturns`, `RecvEnds`, `SendEnds` |
| `send_stream` | `BeginSend`, `SendPage` for each page, once every subscriber has room |
| `should_collect` | `TakeTry` takes a page and asks, `Collected` has the answer |
| receive task | `try`: `Drain`; `ask`, `asked`: `Ask`, `Answered` with the turn locked; `out`: `AskToWait`; `lock`: `LockReceiver`; `await`: `Woken`, `Framed` with the receiver locked |

`Scenarios` lists sets of what else may happen, one of which, `liberties`, is chosen
at the start: a runtime of one thread, `sc_close`, an `init` while the last
receive task is still there or with no `close` before it, a wait that fails, a
`should_collect` that needs the application's thread. Pages are counted, since
senders wait for room; their contents are left out, since `ReceiveLoop` has them.

### Startup

A process walks through `Begin`, then for its receiving and its sending thread `Check`,
(`Create`, `Fill`,) `Read` and `Join`, then `Bind`. A `Join` or `Bind` that finds no
node or no port goes back (`Retry`) with what the process already holds; a sender that
is replaced lets its thread end (`ThreadEnds`), and only then is its node free. A
running process drains its buffer and sends; `Quit` and `Crash` free all it held. `Read`
of a part ends the process ("panicked"), which may begin again. Each process is built
with the gateway or not. `EveryoneStarts` says that an `init` ends, and how: it
succeeds, or the process is killed, or panics; from when the file is whole and nobody is
about to write it, it does not panic. Of iceoryx2 and the file system is modelled: a
service admits a number of nodes; a page goes to all subscribers when all have room, in
one step; what a dead process held is freed; and a file that is not wholly written is
not accepted.

### WsClient

JavaScript runs one task at a time, so a step is a task or a call.

| code | here |
|---|---|
| `init` | `CallInit`, then `RunInit` or `LoadFails` once `lmq.default()` is settled |
| `connectWebSocket` | `ConnectWebSocket`; `Connected` is what `init` does about the socket |
| `setTimeout(init, ...)` | `timers`, `Timer` |
| `open`, `close` and `error` events | `Open`, `CloseEvent`, of any socket that is not yet closed |
| `connectionListeners` | `waiting`, in their order, `Notify`; `stuck`, those that cannot remove themselves |
| `sendStream`, `close` | `SendStream`, `Close` |

Of the browser is modelled that a socket closed while it connects never opens, that
`readyState` changes with the event except when a closing handshake begins
(`StartClosing`), and that the constructor may throw.

## What the runs show

| run | instance | shows |
|---|---|---|
| `queue_list` | 2 consumers, 4 messages, claims, consumers come late | `Acyclic`, `NoLockCycle`, `SkipsOnlyClaimed` while walks, claims, prunings and pushes interleave |
| `queue_autodrop` | 2 consumers from the start, 3 messages, autodrop, no claims | the queue is a stream: `ImplementsStream`, `SleepersAreUpToDate`, `NextReturns`; no message is dropped too early (`AutodropSafe`), and one that all have passed on is dropped (`PassedIsDropped`); consumers that die before they reach it are in `queue_left_behind.cfg` |
| `lock_views` | 3 users, 2 walkers, anything at any time | `ViewsAreBacked`, `SealedWhileWalking`; if all calls under way wait, it is for a reader, that is a view somebody keeps or a read between its two locks: `StuckForAReason` |
| `handlers_threads` | 2 threads, 2 handlers, 3 runtimes, callbacks return anything | `DeregisterIsFinal`, `NoStrayTask` |
| `handlers_one_thread` | 1 thread that resumes what is paused, 2 handlers | `EndsOnlyOnRequest`, `CallsReturn`, `ResumedCallsBack` |
| `receive_mesh` | a message of two pages, 3 frames (good, too short, refused), 1 client, 1 failure, buffer of 2, channels of 1 | no page is slept through (`SleepsOnEmptyBuffer`) nor asked for from a thread that waits (`BlockedIsWaiting`); what is published arrives (`MeshDelivers`) and tries return (`TryReturns`) unless the task ended or blocks itself in one of two ways, all three of which occur |
| `stream_pages` | 2 senders, 1 receiver, 2 attempts, pages of 6, messages of 1 to 3 pages, any failure | `Intact`, `CompletedOnce`, `Arrives`, `KeptForAReason` |
| `lifecycle` | 2 attempts, failing or not, sends of up to 2 pages, 6 scenarios | calls return (`CallsReturn`) and the task ends (`TaskEnds`) in the expected use; in every scenario a call hangs, and the flag of a waiting backing stays, only for the reasons named (`HangsForAReason`, `BlockedForAReason`), `close` leaves no thread (`CloseIsFinal`), the gateway outlives attempts (`GatewayGoesOn`) |
| `startup` | 2 processes, 2, 4 or 5 nodes, with the gateway or not, 1 killed | `PartForAReason`; with enough for all every `init` ends, and succeeds, unless killed, once the file is whole (`EveryoneStarts`); a sender waits only for an init that fails again and again (`SendsUnlessHindered`) |
| `client` | 3 sockets, 2 calls of `init`, 3 sends, a gateway that comes and goes | `OneLiveSocket`, `AttemptsGoOn`, `NobodyWaitsConnected`, `SentInOrder`, `StatusIsExplained`, `Reconnects`, `InitSettlesIfHeard` |
| `queue_lost`, `receive_frame` | smallest instance that shows it | see the next section |

`TypeOK` is in `stream_receivers.cfg` and proved by TLAPS for every module.

The remaining `.cfg` files are kept for use by hand (`tlc -config X.cfg MC...`); where
a second instance differs by a constant or two, the file's comment gives it:

| configuration | shows |
|---|---|
| `queue_single.cfg` | one consumer that claims and drops what it likes still reads a stream; so do several without claims and drops, which may come at any time |
| `queue_drop.cfg` | `AutodropSafe`, `PassedIsDropped` with claims, late consumers and a stranger |
| `stream_receivers.cfg` | the properties of `stream_pages` with one sender and two receivers, one of which does not collect |
| `queue_backward.cfg` | `VisitedInOrder` is violated |
| `queue_left_behind.cfg` | `DroppedWhenNobodyIsLeft` is violated |
| `lock_two_reads.cfg` | `NextUnblocks` is violated |
| `lock_claim_own_view.cfg` | `ClaimReturns` is violated; one call at a time with the view dropped first returns |
| `handlers_pending.cfg`, `handlers_self.cfg` | `DeregisterReturns` is violated; not in Deno if consumers are freed only with no promise pending |
| `handlers_self.cfg` | with `INVARIANT NeverAborts` that is violated too |
| `handlers_cut_off.cfg` | `EndsOnlyOnRequest` is violated |
| `receive_echo.cfg`, `receive_slow_client.cfg` | `NeverBlocks` is violated |
| `lifecycle_hangs.cfg` | `CloseReturns` is violated, in three scenarios |
| `lifecycle_unclosed.cfg` | `InitReturns` is violated |
| `lifecycle_full.cfg` | `SendReturns` is violated |
| `lifecycle_reasons.cfg` (with `-continue`) | `OneReceiver`, `BlockedIsWaiting` and `GatewayServes` are violated |
| `startup_config.cfg` | `ConfigIsWhole` is violated |
| `startup_port.cfg` | `SendReturns` is violated, and with 2 nodes `OneStarts` |
| `client_status.cfg` (with `-continue`) | `StatusIsRight`, `NothingStuck` and `ClosedStaysClosed` are violated |
| `client_init.cfg` | `InitSettles` is violated |

Runs without deadlock checking are those in which the system may rightly stop:
all messages of the bound are pushed and nobody has to ask for more, or all
attempts at `init` are used up.

## Disagreements with the documentation

Found by the runs that end in a violation:

1. **A consumer can lose the list** (`queue_lost`, `lmq/src/lib.rs:352`). A pruned
   node is pointed back only if the current node is unclaimed. When a consumer
   at a claimed node, or at the root, prunes the claimed last node, that node
   still points to the tail; `push` starts there and links the next message
   behind it, out of everyone's reach. With autodrop alone it takes a consumer
   that comes late; with claims, any second consumer.
2. **A frame can be left lying** (`receive_frame`, `combined.rs:624`). The gateway is
   subscribed to when the future of `wait_stream` is first polled, after the
   gateway was asked; a frame in between wakes nobody. Nor is it fetched when it
   wakes the task while the blocked mesh has the turn (line 338).

And by the further configurations:

3. `read` can deadlock with `next` (`lock_two_reads.cfg`, `lmq/src/lib.rs:64`). The read
   lock is taken again while it is held, and a waiting writer turns readers away.
4. The receive task can block itself (`receive_echo.cfg`, `combined.rs:383`). It sends a
   frame of more pages than its own subscriber's buffer holds, and nobody else
   empties that buffer. It can also wait for a client that waits for it, once the
   channels are full both ways (`receive_slow_client.cfg`, `ws_gateway.rs:112`, `188`):
   that client's task does not read its broadcasts while it hands on a frame, and
   the task that would take the frame broadcasts.
5. A message may be visited twice: a consumer that stands on a claimed node pruned
   by another follows the pointer back (`queue_backward.cfg`, `lmq/src/lib.rs:353`).
6. A message all of whose consumers left before they reached it is never dropped
   (`queue_left_behind.cfg`, `lmq/src/lib.rs:384`; `README.md:38`).
7. In lmq-deno `claim` after `read` waits for the view the object itself holds
   (`lock_claim_own_view.cfg`, `lmq-deno/mod.ts:298`).
8. Deregistration deadlocks with a handler that deregisters itself
   (`handlers_self.cfg`, `lmq_tokio.rs:25`), and in Deno with a callback that waits
   for the event loop (`handlers_pending.cfg`, `lmq-deno/mod.ts:110`).
9. A registration loses its runtime to a deregistration that finds the registry
   still empty (`handlers_cut_off.cfg`, `lmq_tokio.rs:31`).
10. `close` and `init` again leave two receive tasks when the first has not yet seen
    that it is over (`lifecycle_reasons.cfg`); `combined.rs:620` leaves the
    behaviour of two undefined. The next `close` may then never return: the call
    of one task is queued behind the wait of the other, its thread's sender stays
    read-locked for the answer, and `close` wants to write it before it sends the
    signal that would end the wait (`lifecycle_hangs.cfg`, line 544).
11. `init` with no `close` before is said to do nothing (`combined.rs:148`), but
    begins anew, and waits for the receiver that the first receive task holds
    while it awaits (`lifecycle_unclosed.cfg`, line 155).
12. A wait that fails returns before its flag is cleared (`combined.rs:480`, against
    485-487). The task tries again after 100 ms, as `tokio.rs:88` means it to, but
    never asks the mesh again (`lifecycle_reasons.cfg`). The buffer of its process
    fills, and every sender waits for good (`lifecycle_full.cfg`).
13. After `sc_close` and `sc_init` no websocket is served: the runtime took the
    accepting task with it, and the second `init` finds the gateway set up
    (`lifecycle_reasons.cfg`, `ws_gateway.rs:40`).
14. On a runtime of one thread `close` waits for a lock of the receive task, which
    cannot run meanwhile (`lifecycle_hangs.cfg`, `combined.rs:606`).
15. In Deno `should_collect` needs the event loop, which may be inside `sc_close`,
    waiting for the thread that asks, or inside `sc_send_stream`, waiting for room
    in the buffer that thread empties (`lifecycle_hangs.cfg`,
    `skycurrent-deno/mod.ts:34`).
16. A process that starts while another writes the configuration reads a part of it,
    and so does every later one if the writer was killed there; `init` panics and
    asks whether the file was edited by hand (`startup_config.cfg`,
    `iox2.rs:130` and 193).
17. An `init` that is tried again keeps its nodes and its subscriber. A second process
    with the gateway on the same port, or one that lacks a node, thus makes every
    sender wait, for good or until its next attempt replaces the subscriber, which
    takes a node to spare; and two processes of which each has one node and wants
    a second starve each other (`startup_port.cfg`, `tokio.rs:45`, `iox2.rs:171`).
18. A send that is called during the closing handshake is rejected with a
    ReferenceError, and its listener stays on the list
    (`client_status.cfg`, `index.ts:161`).
19. The status of a socket is taken back by the close event of an earlier one
    (`client_status.cfg`, `index.ts:96`).
20. After `close` the close event connects again (`client_status.cfg`, `index.ts:101`).
21. The promise of an `init` that found a socket closing or closed is never settled
    (`client_init.cfg`, `index.ts:72`).
22. A websocket frame that is no message ends the receive task: one of less than eight
    bytes (`combined.rs:368`, 379) or with a header size that `send_stream` refuses
    (391, 393) makes it panic. Nothing is received in that process from then on, its
    buffer fills, and every sender waits for it. `receive_mesh` comes to that end, and
    shows that no such frame does harm in another way.
23. Deregistering a handler can abort the process: one that deregistered itself before
    its entry was made, as the only handler there is, dropped the runtime in its own
    task, which panics, and its deregistration resumes that panic
    (`handlers_self.cfg` with `NeverAborts`, `lmq_tokio.rs:43`, `macros.rs:10-27`);
    `lmq.h:149` says that `TRUE` is returned.

`KeptForAReason` names what a receiver keeps for good, for no code ever removes it:
parts of a message whose sender died or began anew, parts of one under way when
the receiver subscribed, and the last chunk of a completed message when its
sending failed after it had reached this receiver and was repeated
(`iox2.rs:383`).

Seen while reading, with no model yet: a handler in TRY mode whose callback
returns CONTINUE never awaits, so that an abort cannot end it; the value that the
`FinalizationRegistry` in `lmq-deno/mod.ts:95-99` holds keeps its consumer alive;
setting another global `should_collect` in `skycurrent-deno/mod.ts` closes a callback
that the receiving thread may be in.

## Bounds

`MaxMessages` bounds pushes, `MaxRuntimes` the runtimes that are built, `MaxAttempts`
the attempts of all senders at sending and, in `Lifecycle`, the attempts at `init`,
`MaxPages` the pages of a message, `Inits` and `MaxSends` the calls of the client's
application, `MaxCrashes` the processes that are killed, `MaxFailures` the calls of
iceoryx2 that fail in `ReceiveLoop`, whose messages and frames are each sent once but
for retries. All other state is bounded by the code. The sizes are the smallest in
which the hazard in question exists, with one more where that was affordable:

- Pruning needs a claimed node between two others and a pusher that follows it:
  four messages and two consumers give walks that overlap and back pointers in
  a chain. A circle of locks needs two walkers.
- The automatic drop needs two consumers of one message and one that can never
  pass it on: three consumers, one a stranger, two messages.
- A lost wake-up needs one sleeper and one push between its try and its await.
- The payload's lock needs two views and a writer, and a walk beside a claim.
- The registry needs a handler that ends while another begins, and a runtime
  that is built again.
- The receive loop needs a message of two pages to have a page at hand while its
  message is not complete, a good frame beside it and one of each bad kind, and one call
  that fails. The code's sizes are 10 pages and 100 messages: a buffer of two and
  channels of one are full within the instance, so that both ways in which the task can
  block itself occur. The comment in `receive_mesh.cfg` names the larger instances that
  behave as well: two messages, and two failures with a buffer for every page.
- Fragmentation needs a first, a middle and a last chunk, the last full or not,
  the longest payload of one page, a header that leaves no room, and two attempts,
  which are two of one sender or one of each. Queues of two pages let a page that
  was repeated wait beside the first.
- The lifecycle needs two attempts: one that fails and one that does not, or two
  with a `close` between them; a message of two pages for a buffer of one. With three
  attempts and messages of one page the invariants hold as well in `own_runtime`,
  `wait_fails`, `one_thread`, `deno` (0.2 to 0.8 million states each) and `early` (17
  million); that is too long for a regular run.
- Start-up needs two processes: one that writes the file, or holds nodes or the
  port, and one that comes meanwhile. Two nodes are enough for one process, four for
  both, five leave one to spare; one crash leaves a part of the file behind.
- The client needs two sockets of which one is closing while the other opens, and a
  third for an attempt beyond; two calls of `init`, as each brings an attempt of its
  own; three sends, so that one can be sent, one wait and one be stuck.

## Fairness

- *Queue.* A thread in a call goes on; parking_lot's mutexes are fair in the long
  run, hence strong fairness for steps that need a lock. Nobody has to push, call,
  claim or drop. `PushNotify` and `Die` need no lock: weak fairness.
- *Lock.* The same, and views are released in the end, as `lmq.h` asks.
- *Registry.* Threads and tasks that can go on do so, and callbacks return. No call
  has to be made and no message has to come.
- *Receive loop.* The task and the actor threads go on while they can, time passes,
  and a client takes what is written to it, again and again (strong fairness,
  since its task alternates between reading and writing). A call that failed is made
  again after its 100 ms, and iceoryx2 does not fail for ever (`MaxFailures`). Nobody
  has to send.
- *Lifecycle.* An application in `init` or `close` goes on, and so does the task;
  both need locks, hence strong fairness. An actor thread takes its calls. No
  call has to be made, no page or frame has to come, no client has to be there.
- *Start-up.* An `init` goes on, replaced threads end, and a running process drains its
  buffer: weak fairness. A page is sent if all subscribers have room again and
  again (strong fairness: senders take turns). Nobody has to start, send or quit.
- *Client.* The module is loaded or not, timers fire, and a socket that connects or
  closes comes to the end of that. No call has to be made. `Reconnects` assumes, in
  its statement, that the gateway can be reached from some time on and that
  the application stops closing.

## What is proved

TLAPS checks the following for every value of the constants that satisfies the named
assumption of the module (`QueueAssumption`: finitely many consumers, at least one
message; `LockAssumption`; `RegistryAssumption`; `ReceiveAssumption`: frames differ from
messages, some of them are bad, and buffers have room for one; `LifecycleAssumption`:
pages and buffers hold at least one; `ClientAssumption` and `StartupAssumption`:
finitely many sockets, calls and processes).

**`LinkMessageQueueProofs`.** `TypeCorrect`; `MutexHeld`, that a mutex has one
holder and a walk looks at its own node's next; `Extent`, that the list ends at
the tail and no pointer leads to a node that is not linked. `AcyclicList` speaks
of sets of nodes that `next` never leaves: pruning turns a node back only after
the walk's node has moved on beyond it, so such a set after the step would have
been one before. `NoDeadlock` follows, for consumers that wait for each other
hold the nodes of such a set. `Order` is inductive by itself: no pointer, forward
or back, passes an unclaimed message, an unclaimed node never points back, and
the pusher leaves none behind the node it has reached; `NothingSkipped` follows.
Apart from the list, `AutomaticDrop` relates `targets` to the history of who was
there and who passed on, and gives `AutodropIsSafe` and `LastDrops`.

The last part is about queues in which nothing is skipped, which `Orderly` names:
nobody claims and, with autodrop, every consumer comes before the first push; or the
queue has one consumer of its own (of other queues, as many as one likes), which
claims and drops what it wants. Outside of it the three results that follow are
false, as `queue_lost` and `queue_backward.cfg` show. The invariant is `OrderlyInv`: the
list has every message in it (`Straight`), what is gone is behind a consumer that
passed it on or claimed it (`Behind`, `Gone`, `MeantForAll`), and whoever found the
tail and has not been notified since is at the end (`AtTheEnd`). Hence nothing is gone
that a live consumer has before it (`Unread`), so nobody ever prunes, each walk is
one step to the next message, and `OrderlyQueue` closes the circle. From it:
`SleepersUpToDate`, `InOrder` (`VisitedInOrder`), and `KeepsToStream`, that every step of
such a queue is a step of `MessageStream` or a stutter: `PushLink` is its `Append`
(the rest of a push is not seen), `Call` and `Wake` are `Ask`, the check at a node
(`Enter`, `Release`) is `Finish`, `Deliver` is `Give` since the next message is the first
that is left, `Exhaust` is `Nothing` since at the tail none is.

**`MessageLockProofs`.** `ViewsAreSafe` is inductive with the types and stages, since
a writer waits for the readers. `WalksAreSealed` needs `Held`: the writer bit
belongs to the one whose stage says so, so that nobody else is about to take the
payload while a walk is on. `OnlyReadersBlock` (`StuckForAReason`): if all
calls under way wait and there is no reader, the one who has the bit could go on, by
`Held`; so nobody has it, and then whoever has the node's mutex could.

**`HandlerRegistryProofs`.** A deregistration that does not find its handler returns
without waiting. `FreedIsOver` is nevertheless true, because the registry is
locked meanwhile: by `Locked` no other call has the task's handle, by `Calls` the
one that made the task has returned, so by `NoStrayTask` (`WithinReach`) the task
has ended, which `Over` carries to the end of the call.
`EndsAreRequested` (`EndsOnlyOnRequest`) assumes `Alone`: one thread calls, and no
callback deregisters its handler. Without either it is false, for the runtime then
goes between a registration and its task (`handlers_cut_off.cfg`). With it, a task
whose end nobody asked for is on the present runtime (`Housed`): that goes with the
last entry only, when by `NoStrayTask` no task is left and the one caller makes none.

**`ReceiveLoopProofs`.** `OneWait` is inductive with the types. For
`NoPageSleptThrough` the strengthening is `Noticed`: a page nobody is about to
signal, and no sender that failed will, was signalled before, so the actor is not
waiting, and either its result is still to be noticed or (`ToAsk`) the task comes to
the mesh before it waits again; a backing that is asked first and finds nothing hands
the turn on. Both hold whatever frames come: a task that ended no longer sleeps.

**`FragmentedStreamProofs`.** `Lossless`: for every size of page, payload and header
that is accepted, the receiver allocates as many bytes as were sent, takes from each
page the bytes of its chunk, and there are at least two chunks, so that no single
page completes a message. From `ChunkingAssumption` (the metadata of a page leaves
room) by the uniqueness of quotient and remainder (`OneQuotient`, `ChunkCount`).

The types and all four properties of the stream are proved, for any number of
processes and attempts, from `StreamAssumption` beside it (queues have room for a
page). The invariant, `StreamInv`, has to say which message an identification is of,
which is written nowhere in the state: it claims that there is an assignment,
`owner`, that later steps only extend. It has three parts.

- `Inv`: every page is one of the pages of its identification's message, every
  allocation has the bytes of some set of its chunks (`Piece`), and everything
  completed is whole. A new chunk adds its bytes (`OneMorePiece`), and as many chunks
  as there are are all of them (`AllChunks`): `StreamTypeCorrect`, `OnlyWholeMessages`.
- `Order`: chunks of an attempt come in order, and one comes again only when something
  failed. What was completed had the last chunk merged, so that at most this one is
  still to come (`Over`), which is too few for a message of two chunks or more:
  `OncePerAttempt`.
- `Arrival`: a chunk that went to a receiver is on the wire to it, merged, or part of
  what it completed (`HasChunk`), from the first chunk of an attempt that began after
  the receiver subscribed (`Reached`) to the last one when nothing failed (`LastOut`).
  An allocation never has all chunks (`IsItsMessage`), so that with nothing left on
  the wire the message was completed (`AllThere`): `ReturnedMessagesArrive`. With
  `Over`, nothing of it is left: `NothingIsLeft`.

**`WsClientProofs`.** `OneConnection` is inductive with the types, for a socket that is
made takes the place of one that neither connects nor is open. For
`AttemptsContinue` each step moves an attempt between a timer and a socket whose
close event is to come, or starts the one of an `init` that runs; what is counted is
a finite set, of which the lemmas say how it changes. `InOrder` follows from `Line`:
what is sent, followed by what waits, is in the order of the calls and all of it
was called before. `StatusExplained` needs that a status of "connected" has a
socket that is open or closing, and `late` the one event that takes it back.

**`StartupProofs`.** `PartsAreExplained`: whoever makes the file a part is at `fill` until
it is whole, and leaves otherwise only by being killed.

**`LifecycleProofs`.** In every scenario, for any number of attempts. `OneWaitAtATime`
rests on `Flagged`: while a thread can be asked, a wait that is pending in it, in its
queue or among its results has the flag set, and results are taken only from the
thread they belong to or from one that never had any (`Making`, `Unasked`). There is thus
never more than one result (`OneResult`), none is left behind an error when results are
handled (`Handling`), though the code stops at the first.
`CloseLeavesNothing` (`CloseIsFinal`): by `Handles` the handles that `close` joins are
those of the last attempt, so that its threads have ended (`Joined`); by `Attentive`
every thread that waits, or has a wait queued, was reached by the shutdown signal,
for nobody can be asked any more. `GatewayStays` (`GatewayGoesOn`) is inductive with
the types. `FlagIsHonest` (`BlockedForAReason`) is the other direction of `Flagged`, for
applications that close before they initialise again, once the task is gone:
`Undisturbed` says that init then begins with no task and the flag down, `Meant` that
from then on the thread asked is the one whose results are received (`Matched`), and
that the flag goes up with a wait and down with the last good result.

`NobodyStalls` says that no call of the application comes to a standstill but for the
reasons `Excused` names: while `init`, `send` or `close` is under way, the guard of some
step of this process holds. (That the call then returns is liveness, `CallsReturn`.) `Poised` is inductive, on top of the invariant of `CloseLeavesNothing`:
whoever has the turn found the flag down, and only another task sets it meanwhile
(`Free`, `Lowered`); a task that waits for an answer is in the queue of a thread that can
be asked (`Heard`), which lives until it is told to close (`Open`); from `init` to `close`
the last attempt's task lives (`Running`) and asks its own thread (`Owned`); the threads
that nobody asks any more have their events (`Bystanders`); and a task that is alone
learns of every page that comes (`Tended`). So `StallsExcused` finds, for each step that
the call may be at, the thread or task that it waits for able to go on.
`HangsExplained` concludes `HangsForAReason` given that `Stalls`, which spells out the
guards, is `Hangs`, which says it with ENABLED. The prover cannot expand ENABLED, so
that the two agree is a hypothesis there, and the `lifecycle` run checks it.

Only model-checked: liveness (`NextReturns`, `CallsReturn`,
`ResumedCallsBack`, `MeshDelivers`, `TryReturns`, `TaskEnds`, `Reconnects`,
`InitSettlesIfHeard`, `EveryoneStarts`, `SendsUnlessHindered`), which the prover does
not handle under fairness, and with it what `ImplementsStream` says beyond
`KeepsToStream`, that whoever asks is answered; and that `Hangs` (ENABLED) and `Stalls`
(the guards) agree, the hypothesis of `HangsExplained`.

## What is not modelled

- In `Lifecycle` senders that are active during a `close`, and errors of `init` that
  panic. Errors of the file system.
- Malformed frames in `Lifecycle` and `Startup`: their receive tasks end with `close` or
  the process only. An application that calls `send_stream` with a header that is refused
  panics in its own thread, before a page is sent (`tokio.rs:116`).
- A thread other than the actor's that calls into iceoryx2 uninitialised.
- What iceoryx2, tokio and browsers do beyond what is named with each module. In
  particular a page goes to all subscribers in one step in `Startup` and `Lifecycle`
  (in `FragmentedStream` it may reach some), and what a dead process held is freed
  at once.
- Memory orderings and the C pointers behind views: the locks make the steps
  atomic that the code shares.
- Wording, logging, conversions of buffers and pointers in the bindings; C headers and
  macros, which hand calls on; hashers, which have no state; the examples.

## Plan

Order follows importance; each module comes with its instances and theorems.

1. *Done:* `LinkMessageQueue` and `MessageStream`, `MessageLock`,
   `HandlerRegistry`, `ReceiveLoop`, `WsClient` and `Startup`, with the theorems above.
2. *Done:* `Chunking` and `FragmentedStream`, with its theorems. *Abstract, to do:* a
   set of messages each delivered at most once for each attempt.
3. *Done:* `Lifecycle`, with its theorems. *To do:* senders that are active during a
   `close`.
4. *Done:* that `LinkMessageQueue` implements `MessageStream` step by step, where it does.
