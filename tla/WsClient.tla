------------------------------ MODULE WsClient ------------------------------
(***************************************************************************)
(* The client of the websocket gateway for browsers                        *)
(* (skycurrent-ws-client/src/index.ts): one socket at a time, a status,    *)
(* listeners for its changes, sends that wait for a connection, and timers *)
(* that connect again.                                                     *)
(*                                                                         *)
(* JavaScript runs one task at a time: a step is one task, or one call of  *)
(* the application.  Of the browser's sockets is modelled what the code    *)
(* uses: readyState changes in the task that fires the event, except that  *)
(* a closing handshake sets it before the close event; a socket closed     *)
(* while it connects never opens; the promise of lmq.default() is a task   *)
(* of its own, which the application may overtake.                         *)
(***************************************************************************)
EXTENDS Integers, FiniteSets, Sequences, Functions

CONSTANTS Sockets,    \* names for sockets; a closed one's is used again
          Inits,      \* bound: the application's calls of init
          MaxSends,   \* bound: the application's calls of sendStream
          None

ASSUME ClientAssumption ==
  /\ IsFiniteSet(Inits) /\ IsFiniteSet(Sockets)
  /\ MaxSends \in Nat
  /\ None \notin Sockets

VARIABLES
  up,         \* the gateway can be reached
  ready,      \* readyState of each socket
  webSocket,  \* globals.webSocket, None for null
  connected,  \* globals.isConnectedInternal
  timers,     \* how many calls of setTimeout(init) are pending
  queue,      \* globals.queue exists
  promise,    \* the promise of each init of the application
  on,         \* the socket whose events settle that promise, None for none
  calls,      \* how many sends were called; a send is its number
  waiting,    \* connectionListeners: the sends that wait for a connection
  stuck,      \* connectionListeners: those that cannot remove themselves
  sent,       \* what was handed to a socket, in this order
  late        \* history: the close event of an earlier socket came when the
              \* present one was open

socket   == <<ready, webSocket, connected, timers>>
promises == <<promise, on>>
sends    == <<calls, waiting, stuck, sent>>
vars     == <<up, socket, queue, promises, sends, late>>

TypeOK ==
  /\ up \in BOOLEAN /\ queue \in BOOLEAN /\ connected \in BOOLEAN /\ late \in BOOLEAN
  /\ ready \in [Sockets -> {"connecting", "open", "closing", "closed"}]
  /\ webSocket \in Sockets \union {None}
  /\ timers \in Nat
  /\ promise \in [Inits -> {"none", "called", "pending", "resolved", "rejected"}]
  /\ on \in [Inits -> Sockets \union {None}]
  /\ calls \in 0 .. MaxSends
  /\ waiting \in Seq(1 .. MaxSends)
  /\ stuck \subseteq 1 .. MaxSends
  /\ sent \in Seq(1 .. MaxSends)

Init ==
  /\ up \in BOOLEAN
  /\ ready = [s \in Sockets |-> "closed"] /\ webSocket = None
  /\ connected = FALSE /\ timers = 0 /\ queue = FALSE
  /\ promise = [i \in Inits |-> "none"] /\ on = [i \in Inits |-> None]
  /\ calls = 0 /\ waiting = <<>> /\ stuck = {} /\ sent = <<>>
  /\ late = FALSE

\* Is globals.webSocket in one of these states?
Is(states) == webSocket # None /\ ready[webSocket] \in states

Alive == Is({"connecting", "open"})

-----------------------------------------------------------------------------
(* init and connectWebSocket. *)

\* Mutant: a constructor that throws sets no timer.
ConnectWebSocket_GivesUp(t) ==
  \/ \E s \in Sockets \ {webSocket} :
       /\ ready[s] = "closed"
       /\ ready' = [ready EXCEPT ![s] = "connecting"]
       /\ webSocket' = s
       /\ timers' = t
       /\ UNCHANGED connected
  \/ /\ ~up
     /\ connected' = FALSE
     /\ timers' = t
     /\ UNCHANGED <<ready, webSocket>>

\* connectWebSocket, with t timers pending: a new socket takes the place of the
\* one before, whatever events that one may still have, or the constructor
\* throws.
ConnectWebSocket(t) ==
  \/ \E s \in Sockets \ {webSocket} :
       /\ ready[s] = "closed"
       /\ ready' = [ready EXCEPT ![s] = "connecting"]
       /\ webSocket' = s
       /\ timers' = t
       /\ UNCHANGED connected
  \/ /\ ~up
     /\ connected' = FALSE
     /\ timers' = t + 1
     /\ UNCHANGED <<ready, webSocket>>

\* What init does about the socket, with t timers pending.
Connected(t) ==
  \/ Alive /\ timers' = t /\ UNCHANGED <<ready, webSocket, connected>>
  \/ ~Alive /\ ConnectWebSocket(t)

\* The application calls init, which first waits for lmq.default().
CallInit(i) ==
  /\ promise[i] = "none"
  /\ promise' = [promise EXCEPT ![i] = "called"]
  /\ UNCHANGED <<up, socket, queue, on, sends, late>>

\* The module could not be loaded, so that there is no queue to be made.
LoadFails(i) ==
  /\ promise[i] = "called" /\ ~queue
  /\ promise' = [promise EXCEPT ![i] = "rejected"]
  /\ UNCHANGED <<up, socket, queue, on, sends, late>>

\* The socket that init puts its listeners on, None if its events are over:
\* the one there was when it looked, or else the one it has just made.
Heard ==
  IF webSocket = None THEN webSocket'
  ELSE IF ready[webSocket] = "closed" THEN None ELSE webSocket

RunInit(i) ==
  /\ promise[i] = "called"
  /\ Connected(timers)
  /\ promise' = [promise EXCEPT ![i] =
                   IF Is({"open"}) THEN "resolved"
                   ELSE IF webSocket = None /\ webSocket' = None THEN "rejected"
                   ELSE "pending"]
  /\ on' = [on EXCEPT ![i] = IF promise'[i] = "pending" THEN Heard ELSE None]
  /\ queue' = TRUE
  /\ UNCHANGED <<up, sends, late>>

\* A timer fires; nobody has the promise of its init.
Timer ==
  /\ timers > 0
  /\ Connected(timers - 1)
  /\ UNCHANGED <<up, queue, promises, sends, late>>

-----------------------------------------------------------------------------
(* Sockets and the gateway. *)

GatewayChanges ==
  /\ up' = ~up
  /\ UNCHANGED <<socket, queue, promises, sends, late>>

\* Mutant: init does not listen to the close event.
Settle_OnlyResolves(s, result) ==
  IF result = "resolved"
    THEN /\ promise' = [i \in Inits |-> IF on[i] = s THEN result ELSE promise[i]]
         /\ on' = [i \in Inits |-> IF on[i] = s THEN None ELSE on[i]]
    ELSE UNCHANGED promises

\* The promises that hear the events of a socket are settled.
Settle(s, result) ==
  /\ promise' = [i \in Inits |-> IF on[i] = s THEN result ELSE promise[i]]
  /\ on' = [i \in Inits |-> IF on[i] = s THEN None ELSE on[i]]

\* Mutant: the listeners stay on the list.
Notify_KeepsListeners(s) ==
  /\ sent' = sent \o waiting
  /\ UNCHANGED <<waiting, stuck>>

\* The listeners of the list are told that socket s is open: whatever waits takes
\* itself off the list and is sent, in the order of the list, or finds no open
\* socket and is put back without the means to take itself off.
Notify(s) ==
  /\ sent' = IF webSocket = s THEN sent \o waiting ELSE sent
  /\ stuck' = IF webSocket = s THEN stuck ELSE stuck \union Range(waiting)
  /\ waiting' = <<>>

Open(s) ==
  /\ ready[s] = "connecting" /\ up
  /\ ready' = [ready EXCEPT ![s] = "open"]
  /\ connected' = TRUE
  /\ Notify(s)
  /\ late' = FALSE
  /\ Settle(s, "resolved")
  /\ UNCHANGED <<up, webSocket, timers, queue, calls>>

\* The gateway starts the closing handshake.
StartClosing(s) ==
  /\ ready[s] = "open" /\ ~up
  /\ ready' = [ready EXCEPT ![s] = "closing"]
  /\ UNCHANGED <<up, webSocket, connected, timers, queue, promises, sends, late>>

\* Mutant: the status is left to the next open event.
CloseEvent_KeepsStatus(s) ==
  /\ ready[s] = "closing" \/ (ready[s] \in {"connecting", "open"} /\ ~up)
  /\ ready' = [ready EXCEPT ![s] = "closed"]
  /\ timers' = timers + 1
  /\ late' = (late \/ (webSocket # s /\ Is({"open"})))
  /\ Settle(s, "rejected")
  /\ UNCHANGED <<up, webSocket, connected, queue, sends>>

\* Mutant: only a connection that was lost is made again.
CloseEvent_OnlyConnected(s) ==
  /\ ready[s] = "closing" \/ (ready[s] \in {"connecting", "open"} /\ ~up)
  /\ ready' = [ready EXCEPT ![s] = "closed"]
  /\ connected' = FALSE
  /\ timers' = IF connected THEN timers + 1 ELSE timers
  /\ late' = (late \/ (webSocket # s /\ Is({"open"})))
  /\ Settle(s, "rejected")
  /\ UNCHANGED <<up, webSocket, queue, sends>>

\* The close event, after an error event or not: of a socket that was closed by
\* either side, or whose connection was lost or could not be made.
CloseEvent(s) ==
  /\ ready[s] = "closing" \/ (ready[s] \in {"connecting", "open"} /\ ~up)
  /\ ready' = [ready EXCEPT ![s] = "closed"]
  /\ connected' = FALSE
  /\ timers' = timers + 1
  /\ late' = (late \/ (webSocket # s /\ Is({"open"})))
  /\ Settle(s, "rejected")
  /\ UNCHANGED <<up, webSocket, queue, sends>>

-----------------------------------------------------------------------------
(* The other calls of the application. *)

\* Mutant: the status is asked instead of the socket.
SendStream_AsksStatus ==
  /\ calls < MaxSends
  /\ calls' = calls + 1
  /\ IF connected
       THEN sent' = Append(sent, calls') /\ UNCHANGED <<waiting, stuck>>
       ELSE waiting' = Append(waiting, calls') /\ UNCHANGED <<stuck, sent>>
  /\ UNCHANGED <<up, socket, queue, promises, late>>

\* sendStream.  The listener is called at once; if it is told that there is a
\* connection it uses removeListener before that exists, and the promise is
\* rejected with the error this throws.
SendStream ==
  /\ calls < MaxSends
  /\ calls' = calls + 1
  /\ \/ /\ Is({"open"})
        /\ sent' = Append(sent, calls')
        /\ UNCHANGED <<waiting, stuck>>
     \/ /\ ~Is({"open"}) /\ ~connected
        /\ waiting' = Append(waiting, calls')
        /\ UNCHANGED <<stuck, sent>>
     \/ /\ ~Is({"open"}) /\ connected
        /\ stuck' = stuck \union {calls'}
        /\ UNCHANGED <<waiting, sent>>
  /\ UNCHANGED <<up, socket, queue, promises, late>>

\* Mutant: globals.webSocket is forgotten but not closed.
Close_OnlyForgets ==
  /\ webSocket # None
  /\ webSocket' = None
  /\ connected' = FALSE
  /\ UNCHANGED <<up, ready, timers, queue, promises, sends, late>>

Close ==
  /\ webSocket # None
  /\ webSocket' = None
  /\ connected' = FALSE
  /\ ready' = [ready EXCEPT ![webSocket] = IF Alive THEN "closing" ELSE @]
  /\ UNCHANGED <<up, timers, queue, promises, sends, late>>

-----------------------------------------------------------------------------
Next ==
  \/ \E i \in Inits : CallInit(i) \/ LoadFails(i) \/ RunInit(i)
  \/ \E s \in Sockets : Open(s) \/ StartClosing(s) \/ CloseEvent(s)
  \/ Timer \/ GatewayChanges \/ SendStream \/ Close

Spec == Init /\ [][Next]_vars

\* An init whose module is loaded or not goes on, timers fire, and a socket that
\* connects or closes comes to an end of it.
FairSpec ==
  /\ Spec
  /\ WF_vars(Timer)
  /\ \A i \in Inits : WF_vars(RunInit(i) \/ LoadFails(i))
  /\ \A s \in Sockets :
       /\ WF_vars(ready[s] = "connecting" /\ (Open(s) \/ CloseEvent(s)))
       /\ WF_vars(ready[s] = "closing" /\ CloseEvent(s))

-----------------------------------------------------------------------------
(* Properties. *)

\* The sockets whose close event is to come.
Unclosed == {s \in Sockets : ready[s] # "closed"}

\* Calls of init, close events and timers in any order never make a second
\* connection: what connects or is open is globals.webSocket.
OneLiveSocket ==
  \A s \in Sockets : ready[s] \in {"connecting", "open"} => s = webSocket

\* Reconnecting neither stops nor multiplies: once an init has run there is a
\* socket whose close event, or a timer, will try again, and never more of these
\* than the application called init.
AttemptsGoOn ==
  LET attempts == timers + Cardinality(Unclosed)
  IN /\ queue => attempts > 0
     /\ attempts <= Cardinality({i \in Inits : promise[i] \notin {"none", "called"}})

\* With a connection nothing is left waiting for one; only a send that could not
\* take itself off the list stays there.
NobodyWaitsConnected == Is({"open"}) => waiting = <<>>

\* What is sent is sent once and in the order of the calls, across connections.
SentInOrder ==
  \A j, k \in 1 .. Len(sent) : j < k => sent[j] < sent[k]

\* isConnected says that there is a connection only until the close event of the
\* last one, and that there is none, with one open, only if the close event of an
\* earlier socket came after it had opened.
StatusIsExplained ==
  /\ connected => \E s \in Sockets : ready[s] \in {"open", "closing"}
  /\ Is({"open"}) /\ ~connected => late

\* isConnected tells whether the socket is open.
StatusIsRight == Is({"open"}) => connected

\* No send is left on the list with a promise that was rejected.
NothingStuck == stuck = {}

\* After close no socket is made but by an init of the application.
ClosedStaysClosed ==
  [][webSocket = None /\ webSocket' # None => \E i \in Inits : promise'[i] # promise[i]]_vars

\* If the gateway can be reached from some time on and the application stops
\* closing, what it sent before and after is sent, or was rejected at once, and
\* the socket stays open.
Reconnects ==
  (<>[]up /\ <>queue /\ <>[][~Close]_vars)
    => <>[](Is({"open"}) /\ \A m \in 1 .. calls : m \in stuck \/ \E k \in DOMAIN sent : sent[k] = m)

\* The promise of init is settled if the events of the socket that init put its
\* listeners on, which need not be the one it goes on to make, were not over then.
InitSettlesIfHeard == \A i \in Inits : (on[i] # None) ~> (on[i] = None)

\* The promise of init is settled.
InitSettles == \A i \in Inits : (promise[i] = "pending") ~> (promise[i] \in {"resolved", "rejected"})
=============================================================================
