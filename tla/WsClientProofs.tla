--------------------------- MODULE WsClientProofs ---------------------------
(***************************************************************************)
(* The safety of the gateway's client, for any number of sockets, inits    *)
(* and sends and whatever the gateway does.                                *)
(*                                                                         *)
(* A socket is made only when no other connects or is open, so that a      *)
(* socket that opens is globals.webSocket and takes everything that waits: *)
(* what was sent and what waits is one line, in the order of the calls.    *)
(***************************************************************************)
EXTENDS WsClient, SequenceTheorems, FiniteSetTheorems, TLAPS

\* What was sent, and what will be sent next.
Line == sent \o waiting

Increasing(seq) == \A j, k \in 1 .. Len(seq) : j < k => seq[j] < seq[k]

LineInOrder ==
  /\ Increasing(Line)
  /\ \A k \in 1 .. Len(Line) : Line[k] <= calls

Inductive ==
  /\ TypeOK
  /\ OneLiveSocket
  /\ NobodyWaitsConnected
  /\ StatusIsExplained
  /\ LineInOrder

\* Initially there is nothing.
LEMMA InitInductive == Init => Inductive
<1> SUFFICES ASSUME Init PROVE Inductive
  OBVIOUS
<1>1. up \in BOOLEAN
  BY Zenon DEF Init
<1>2. TypeOK
  <2>1. waiting \in Seq(1 .. MaxSends) /\ sent \in Seq(1 .. MaxSends)
    BY DEF Init
  <2>2. calls \in 0 .. MaxSends /\ stuck \subseteq 1 .. MaxSends
    BY ClientAssumption DEF Init
  <2>3. /\ ready \in [Sockets -> {"connecting", "open", "closing", "closed"}]
        /\ promise \in [Inits -> {"none", "called", "pending", "resolved", "rejected"}]
        /\ on \in [Inits -> Sockets \union {None}]
    BY DEF Init
  <2>4. /\ webSocket \in Sockets \union {None} /\ timers \in Nat
        /\ queue \in BOOLEAN /\ connected \in BOOLEAN /\ late \in BOOLEAN
    BY DEF Init
  <2> QED
    BY <1>1, <2>1, <2>2, <2>3, <2>4, Zenon DEF TypeOK
<1>3. OneLiveSocket /\ NobodyWaitsConnected /\ StatusIsExplained
  BY DEF Init, OneLiveSocket, NobodyWaitsConnected, StatusIsExplained, Is
<1>4. Line = <<>>
  BY DEF Init, Line
<1>5. LineInOrder
  BY <1>4 DEF LineInOrder, Increasing
<1> QED
  BY <1>2, <1>3, <1>5 DEF Inductive

\* A new socket connects, or none was made.
LEMMA Connecting ==
  ASSUME NEW t \in Nat, TypeOK, OneLiveSocket, Connected(t)
  PROVE  /\ ready' \in [Sockets -> {"connecting", "open", "closing", "closed"}]
         /\ webSocket' \in Sockets \union {None}
         /\ timers' \in Nat
         /\ connected' \in BOOLEAN
         /\ \/ ready' = ready /\ webSocket' = webSocket /\ connected' = connected
            \/ ready' = ready /\ webSocket' = webSocket /\ ~connected' /\ ~Alive
            \/ /\ ~Alive /\ connected' = connected
               /\ \E s \in Sockets :
                    /\ webSocket' = s /\ ready[s] = "closed"
                    /\ ready' = [ready EXCEPT ![s] = "connecting"]
<1> DEFINE New(s) == /\ ready[s] = "closed"
                     /\ ready' = [ready EXCEPT ![s] = "connecting"]
                     /\ webSocket' = s /\ timers' = t
<1>1. connected' \in BOOLEAN
  BY Zenon DEF TypeOK, Connected, ConnectWebSocket
<1>2. ASSUME NEW s \in Sockets, New(s)
      PROVE  /\ ready' \in [Sockets -> {"connecting", "open", "closing", "closed"}]
             /\ webSocket' \in Sockets \union {None}
             /\ timers' \in Nat
  BY <1>2 DEF TypeOK
<1>3. ASSUME ready' = ready, webSocket' = webSocket, timers' \in {t, t + 1}
      PROVE  /\ ready' \in [Sockets -> {"connecting", "open", "closing", "closed"}]
             /\ webSocket' \in Sockets \union {None}
             /\ timers' \in Nat
  BY <1>3 DEF TypeOK
<1>4. \/ timers' = t /\ UNCHANGED <<ready, webSocket, connected>>
      \/ ~Alive /\ connected' = FALSE /\ timers' = t + 1 /\ UNCHANGED <<ready, webSocket>>
      \/ ~Alive /\ connected' = connected /\ \E s \in Sockets : New(s)
  BY Zenon DEF Connected, ConnectWebSocket
<1> HIDE DEF New
<1>5. /\ ready' \in [Sockets -> {"connecting", "open", "closing", "closed"}]
      /\ webSocket' \in Sockets \union {None}
      /\ timers' \in Nat
  BY <1>2, <1>3, <1>4
<1> QED
  BY <1>1, <1>4, <1>5, Zenon DEF New

\* Every step keeps the types.
LEMMA TypeStep == TypeOK /\ OneLiveSocket /\ [Next]_vars => TypeOK'
<1> SUFFICES ASSUME TypeOK, OneLiveSocket, [Next]_vars PROVE TypeOK'
  OBVIOUS
<1> DEFINE Status  == up' \in BOOLEAN /\ queue' \in BOOLEAN /\ late' \in BOOLEAN
           Socket  == /\ ready' \in [Sockets -> {"connecting", "open", "closing", "closed"}]
                      /\ webSocket' \in Sockets \union {None}
                      /\ timers' \in Nat
                      /\ connected' \in BOOLEAN
           Promise == /\ promise' \in [Inits -> {"none", "called", "pending", "resolved", "rejected"}]
                      /\ on' \in [Inits -> Sockets \union {None}]
           Sends   == /\ calls' \in 0 .. MaxSends
                      /\ waiting' \in Seq(1 .. MaxSends)
                      /\ stuck' \subseteq 1 .. MaxSends
                      /\ sent' \in Seq(1 .. MaxSends)
<1> SUFFICES Status /\ Socket /\ Promise /\ Sends
  BY Zenon DEF TypeOK
<1>1. ASSUME UNCHANGED sends PROVE Sends
  BY <1>1 DEF TypeOK, sends
<1>2. ASSUME UNCHANGED promises PROVE Promise
  BY <1>2 DEF TypeOK, promises
<1>3. ASSUME UNCHANGED socket PROVE Socket
  BY <1>3, Zenon DEF TypeOK, socket
<1>4. ASSUME UNCHANGED <<up, queue, late>> PROVE Status
  BY <1>4, Zenon DEF TypeOK
<1>5. ASSUME NEW i \in Inits, CallInit(i) \/ LoadFails(i) PROVE Status /\ Socket /\ Promise /\ Sends
  <2>1. UNCHANGED sends /\ UNCHANGED socket /\ UNCHANGED <<up, queue, late>>
    BY <1>5 DEF CallInit, LoadFails
  <2>2. Promise
    BY <1>5 DEF TypeOK, CallInit, LoadFails
  <2> QED
    BY <1>1, <1>3, <1>4, <2>1, <2>2
<1>6. ASSUME NEW i \in Inits, RunInit(i) PROVE Status /\ Socket /\ Promise /\ Sends
  <2>1. Sends
    BY <1>1, <1>6 DEF RunInit
  <2>2. Status
    BY <1>6, Zenon DEF TypeOK, RunInit
  <2>3. Socket
    BY <1>6, Connecting DEF TypeOK, RunInit
  <2>4. Heard \in Sockets \union {None}
    BY <2>3 DEF TypeOK, Heard
  <2>5. Promise
    BY <1>6, <2>4 DEF TypeOK, RunInit
  <2> QED
    BY <2>1, <2>2, <2>3, <2>5
<1>7. ASSUME Timer PROVE Status /\ Socket /\ Promise /\ Sends
  <2>1. UNCHANGED sends /\ UNCHANGED promises /\ UNCHANGED <<up, queue, late>>
    BY <1>7 DEF Timer
  <2>2. timers - 1 \in Nat
    BY <1>7 DEF TypeOK, Timer
  <2>3. Socket
    BY <1>7, <2>2, Connecting DEF Timer
  <2> QED
    BY <1>1, <1>2, <1>4, <2>1, <2>3
<1>8. ASSUME GatewayChanges PROVE Status /\ Socket /\ Promise /\ Sends
  <2>1. UNCHANGED sends /\ UNCHANGED promises /\ UNCHANGED socket
    BY <1>8 DEF GatewayChanges
  <2>2. Status
    BY <1>8, Zenon DEF TypeOK, GatewayChanges
  <2> QED
    BY <1>1, <1>2, <1>3, <2>1, <2>2
<1>9. ASSUME NEW s \in Sockets, Open(s) PROVE Status /\ Socket /\ Promise /\ Sends
  <2>1. Status
    BY <1>9, Zenon DEF TypeOK, Open
  <2>2. Socket
    BY <1>9 DEF TypeOK, Open
  <2>3. Promise
    BY <1>9 DEF TypeOK, Open, Settle
  <2>4. webSocket = s
    BY <1>9 DEF OneLiveSocket, Open
  <2>5. Sends
    BY <1>9, <2>4 DEF TypeOK, Open, Notify
  <2> QED
    BY <2>1, <2>2, <2>3, <2>5
<1>10. ASSUME NEW s \in Sockets, StartClosing(s) PROVE Status /\ Socket /\ Promise /\ Sends
  <2>1. UNCHANGED sends /\ UNCHANGED promises /\ UNCHANGED <<up, queue, late>>
    BY <1>10 DEF StartClosing
  <2>2. connected' \in BOOLEAN
    BY <1>10, Zenon DEF TypeOK, StartClosing
  <2>3. Socket
    BY <1>10, <2>2 DEF TypeOK, StartClosing
  <2> QED
    BY <1>1, <1>2, <1>4, <2>1, <2>3
<1>11. ASSUME NEW s \in Sockets, CloseEvent(s) PROVE Status /\ Socket /\ Promise /\ Sends
  <2>1. Sends
    BY <1>1, <1>11 DEF CloseEvent
  <2>2. Status
    BY <1>11, Zenon DEF TypeOK, CloseEvent
  <2>3. Socket
    <3>1. ready' = [ready EXCEPT ![s] = "closed"] /\ timers' = timers + 1 /\ webSocket' = webSocket
      BY <1>11 DEF CloseEvent
    <3>2. /\ ready' \in [Sockets -> {"connecting", "open", "closing", "closed"}]
          /\ webSocket' \in Sockets \union {None}
          /\ timers' \in Nat
      BY <3>1 DEF TypeOK
    <3>3. connected' \in BOOLEAN
      BY <1>11, Zenon DEF CloseEvent
    <3> QED
      BY <3>2, <3>3, Zenon
  <2>4. Promise
    BY <1>11 DEF TypeOK, CloseEvent, Settle
  <2> QED
    BY <2>1, <2>2, <2>3, <2>4
<1>12. ASSUME SendStream PROVE Status /\ Socket /\ Promise /\ Sends
  <2>1. UNCHANGED promises /\ UNCHANGED socket /\ UNCHANGED <<up, queue, late>>
    BY <1>12 DEF SendStream
  <2>2. calls' \in 1 .. MaxSends
    BY <1>12, ClientAssumption DEF TypeOK, SendStream
  <2>3. \/ sent' = Append(sent, calls') /\ waiting' = waiting /\ stuck' = stuck
        \/ waiting' = Append(waiting, calls') /\ sent' = sent /\ stuck' = stuck
        \/ stuck' = stuck \union {calls'} /\ sent' = sent /\ waiting' = waiting
    BY <1>12, Zenon DEF SendStream
  <2>4. /\ calls' \in 0 .. MaxSends
        /\ Append(sent, calls') \in Seq(1 .. MaxSends)
        /\ Append(waiting, calls') \in Seq(1 .. MaxSends)
    BY <2>2 DEF TypeOK
  <2>5. Sends
    BY <2>2, <2>3, <2>4, Zenon DEF TypeOK
  <2> QED
    BY <1>2, <1>3, <1>4, <2>1, <2>5
<1>13. ASSUME Close PROVE Status /\ Socket /\ Promise /\ Sends
  <2>1. UNCHANGED sends /\ UNCHANGED promises /\ UNCHANGED <<up, queue, late>>
    BY <1>13 DEF Close
  <2>2. Socket
    BY <1>13 DEF TypeOK, Close
  <2> QED
    BY <1>1, <1>2, <1>4, <2>1, <2>2
<1>14. CASE UNCHANGED vars
  BY <1>1, <1>2, <1>3, <1>4, <1>14 DEF vars
<1> HIDE DEF Status, Socket, Promise, Sends
<1> QED
  BY <1>5, <1>6, <1>7, <1>8, <1>9, <1>10, <1>11, <1>12, <1>13, <1>14 DEF Next

\* Every step leaves at most one socket that connects or is open.
LEMMA SocketStep == TypeOK /\ OneLiveSocket /\ [Next]_vars => OneLiveSocket'
<1> SUFFICES ASSUME TypeOK, OneLiveSocket, [Next]_vars PROVE OneLiveSocket'
  OBVIOUS
<1> USE DEF OneLiveSocket
<1>1. ASSUME NEW t \in Nat, Connected(t) PROVE OneLiveSocket'
  <2>1. CASE ready' = ready /\ webSocket' = webSocket
    BY <2>1
  <2>2. CASE ~Alive /\ \E s \in Sockets :
               /\ webSocket' = s /\ ready[s] = "closed"
               /\ ready' = [ready EXCEPT ![s] = "connecting"]
    BY <2>2, ClientAssumption DEF TypeOK, Alive, Is
  <2> QED
    BY <1>1, <2>1, <2>2, Connecting
<1>2. ASSUME NEW i \in Inits, CallInit(i) \/ LoadFails(i) \/ RunInit(i) PROVE OneLiveSocket'
  BY <1>1, <1>2 DEF TypeOK, CallInit, LoadFails, RunInit, socket
<1>3. ASSUME Timer PROVE OneLiveSocket'
  BY <1>1, <1>3 DEF TypeOK, Timer
<1>4. ASSUME NEW s \in Sockets, Open(s) \/ StartClosing(s) \/ CloseEvent(s) PROVE OneLiveSocket'
  <2>1. webSocket' = webSocket
    BY <1>4 DEF Open, StartClosing, CloseEvent
  <2>2. \/ ready[s] = "connecting" /\ ready' = [ready EXCEPT ![s] = "open"]
        \/ ready' = [ready EXCEPT ![s] = "closing"]
        \/ ready' = [ready EXCEPT ![s] = "closed"]
    BY <1>4, Zenon DEF Open, StartClosing, CloseEvent
  <2> QED
    BY <2>1, <2>2 DEF TypeOK
<1>5. ASSUME GatewayChanges \/ SendStream \/ UNCHANGED vars PROVE OneLiveSocket'
  BY <1>5 DEF GatewayChanges, SendStream, vars, socket
<1>6. ASSUME Close PROVE OneLiveSocket'
  BY <1>6 DEF TypeOK, Close, Alive, Is
<1> QED
  BY <1>2, <1>3, <1>4, <1>5, <1>6 DEF Next

\* Every step but an open event leaves an open globals.webSocket what it was.
LEMMA Opening ==
  ASSUME TypeOK, [Next]_vars, Is({"open"})'
  PROVE  \/ Is({"open"})
         \/ \E s \in Sockets : Open(s)
<1> SUFFICES ASSUME \A s \in Sockets : ~Open(s) PROVE Is({"open"})
  OBVIOUS
<1> USE DEF Is
<1>1. ASSUME NEW t \in Nat, Connected(t) PROVE Is({"open"})
  BY <1>1, ClientAssumption DEF TypeOK, Connected, ConnectWebSocket
<1>2. ASSUME NEW i \in Inits, CallInit(i) \/ LoadFails(i) \/ RunInit(i) PROVE Is({"open"})
  BY <1>1, <1>2 DEF TypeOK, CallInit, LoadFails, RunInit, socket
<1>3. ASSUME Timer PROVE Is({"open"})
  BY <1>1, <1>3 DEF TypeOK, Timer
<1>4. ASSUME NEW s \in Sockets, StartClosing(s) \/ CloseEvent(s) PROVE Is({"open"})
  BY <1>4 DEF TypeOK, StartClosing, CloseEvent
<1>5. ASSUME GatewayChanges \/ SendStream \/ UNCHANGED vars PROVE Is({"open"})
  BY <1>5 DEF GatewayChanges, SendStream, vars, socket
<1>6. ASSUME Close PROVE Is({"open"})
  BY <1>6 DEF Close
<1> QED
  BY <1>2, <1>3, <1>4, <1>5, <1>6 DEF Next

\* What an open event does to the sends.
LEMMA OpenSends ==
  ASSUME TypeOK, OneLiveSocket, NEW s \in Sockets, Open(s)
  PROVE  sent' = sent \o waiting /\ waiting' = <<>> /\ calls' = calls
BY DEF OneLiveSocket, Open, Notify

\* Every other step but sendStream leaves the sends alone.
LEMMA OtherSends ==
  ASSUME [Next]_vars, ~SendStream, \A s \in Sockets : ~Open(s)
  PROVE  UNCHANGED sends
<1>1. ASSUME NEW i \in Inits, CallInit(i) \/ LoadFails(i) \/ RunInit(i) PROVE UNCHANGED sends
  BY <1>1 DEF CallInit, LoadFails, RunInit
<1>2. ASSUME NEW s \in Sockets, StartClosing(s) \/ CloseEvent(s) PROVE UNCHANGED sends
  BY <1>2 DEF StartClosing, CloseEvent
<1>3. ASSUME Timer \/ GatewayChanges \/ Close \/ UNCHANGED vars PROVE UNCHANGED sends
  BY <1>3 DEF Timer, GatewayChanges, Close, vars
<1> QED
  BY <1>1, <1>2, <1>3 DEF Next

\* Every step leaves nothing waiting for an open connection.
LEMMA WaitingStep ==
  TypeOK /\ OneLiveSocket /\ NobodyWaitsConnected /\ [Next]_vars => NobodyWaitsConnected'
<1> SUFFICES ASSUME TypeOK, OneLiveSocket, NobodyWaitsConnected, [Next]_vars, Is({"open"})'
             PROVE  waiting' = <<>>
  BY DEF NobodyWaitsConnected
<1>1. CASE \E s \in Sockets : Open(s)
  BY <1>1, OpenSends
<1>2. CASE \A s \in Sockets : ~Open(s)
  <2>1. Is({"open"}) /\ waiting = <<>>
    BY <1>2, Opening DEF NobodyWaitsConnected
  <2>2. waiting' = waiting
    BY <1>2, <2>1, OtherSends DEF SendStream, sends
  <2> QED
    BY <2>1, <2>2
<1> QED
  BY <1>1, <1>2

\* Every step leaves a status that the sockets explain.
LEMMA StatusStep == TypeOK /\ StatusIsExplained /\ [Next]_vars => StatusIsExplained'
<1> SUFFICES ASSUME TypeOK, StatusIsExplained, [Next]_vars PROVE StatusIsExplained'
  OBVIOUS
<1> DEFINE Was == \E s \in Sockets : ready[s] \in {"open", "closing"}
           WasExplained == Is({"open"}) /\ ~connected => late
<1>1. (connected => Was) /\ WasExplained
  BY DEF StatusIsExplained
<1> SUFFICES (connected' => Was') /\ WasExplained'
  BY DEF StatusIsExplained
<1>2. ASSUME NEW s \in Sockets, Open(s) PROVE (connected' => Was') /\ WasExplained'
  <2>1. connected' /\ ready'[s] = "open"
    BY <1>2 DEF TypeOK, Open
  <2> QED
    BY <2>1
<1>3. ASSUME ~connected', Is({"open"})' => Is({"open"}) /\ late' PROVE (connected' => Was') /\ WasExplained'
  BY <1>3
<1>4. ASSUME connected' = connected, late' = late, Was => Was', Is({"open"})' => Is({"open"})
      PROVE  (connected' => Was') /\ WasExplained'
  BY <1>1, <1>4
<1>5. ASSUME UNCHANGED <<ready, webSocket, connected, late>> PROVE (connected' => Was') /\ WasExplained'
  BY <1>4, <1>5 DEF Is
<1>6. ASSUME NEW s \in Sockets, StartClosing(s) PROVE (connected' => Was') /\ WasExplained'
  <2>1. connected' = connected /\ late' = late
    BY <1>6 DEF StartClosing
  <2>2. Was'
    BY <1>6 DEF TypeOK, StartClosing
  <2>3. Is({"open"})' => Is({"open"})
    BY <1>6 DEF TypeOK, StartClosing, Is
  <2> HIDE DEF Was
  <2> QED
    BY <1>4, <2>1, <2>2, <2>3
<1>7. ASSUME NEW s \in Sockets, CloseEvent(s) PROVE (connected' => Was') /\ WasExplained'
  <2>1. ~connected'
    BY <1>7 DEF CloseEvent
  <2>2. Is({"open"})' => Is({"open"}) /\ webSocket # s
    BY <1>7 DEF TypeOK, CloseEvent, Is
  <2>3. late' = (late \/ (webSocket # s /\ Is({"open"})))
    BY <1>7 DEF CloseEvent
  <2> QED
    BY <1>3, <2>1, <2>2, <2>3, Zenon
<1>8. ASSUME Close PROVE (connected' => Was') /\ WasExplained'
  BY <1>3, <1>8 DEF Close, Is
<1>9. ASSUME NEW t \in Nat, Connected(t), late' = late PROVE (connected' => Was') /\ WasExplained'
  <2>1. CASE timers' = t /\ UNCHANGED <<ready, webSocket, connected>>
    BY <1>5, <1>9, <2>1
  <2>2. CASE ~Alive /\ ~connected' /\ UNCHANGED <<ready, webSocket>>
    BY <1>3, <2>2 DEF Alive, Is
  <2>3. CASE \E s \in Sockets \ {webSocket} :
               /\ ready[s] = "closed" /\ connected' = connected
               /\ ready' = [ready EXCEPT ![s] = "connecting"]
               /\ webSocket' = s
    <3>1. Was => Was'
      BY <2>3 DEF TypeOK
    <3>2. ~Is({"open"})'
      BY <2>3 DEF TypeOK, Is
    <3>3. connected' = connected
      BY <2>3
    <3> HIDE DEF Was
    <3> QED
      BY <1>4, <1>9, <3>1, <3>2, <3>3
  <2> HIDE DEF Was, WasExplained
  <2> QED
    BY <1>9, <2>1, <2>2, <2>3, Zenon DEF Connected, ConnectWebSocket
<1>10. ASSUME NEW i \in Inits, CallInit(i) \/ LoadFails(i) \/ RunInit(i)
       PROVE  (connected' => Was') /\ WasExplained'
  BY <1>5, <1>9, <1>10 DEF TypeOK, CallInit, LoadFails, RunInit, socket
<1>11. ASSUME Timer PROVE (connected' => Was') /\ WasExplained'
  BY <1>9, <1>11 DEF TypeOK, Timer
<1>12. ASSUME GatewayChanges \/ SendStream \/ UNCHANGED vars PROVE (connected' => Was') /\ WasExplained'
  BY <1>5, <1>12 DEF GatewayChanges, SendStream, vars, socket
<1> HIDE DEF Was, WasExplained
<1> QED
  BY <1>2, <1>6, <1>7, <1>8, <1>10, <1>11, <1>12 DEF Next

\* A larger number may be put at the end of an increasing sequence.
LEMMA AppendIncreasing ==
  ASSUME NEW seq \in Seq(Nat), NEW n \in Nat, NEW m \in Nat, n < m,
         Increasing(seq), \A k \in 1 .. Len(seq) : seq[k] <= n
  PROVE  Increasing(Append(seq, m)) /\ \A k \in 1 .. Len(Append(seq, m)) : Append(seq, m)[k] <= m
<1>1. Len(Append(seq, m)) = Len(seq) + 1 /\ Len(seq) \in Nat
  OBVIOUS
<1>2. \A k \in 1 .. Len(seq) : Append(seq, m)[k] = seq[k] /\ seq[k] \in Nat
  OBVIOUS
<1>3. Append(seq, m)[Len(seq) + 1] = m
  OBVIOUS
<1> QED
  BY <1>1, <1>2, <1>3 DEF Increasing

\* Every step keeps the line in the order of the calls.
LEMMA LineStep ==
  TypeOK /\ OneLiveSocket /\ NobodyWaitsConnected /\ LineInOrder /\ [Next]_vars => LineInOrder'
<1> SUFFICES ASSUME TypeOK, OneLiveSocket, NobodyWaitsConnected, LineInOrder, [Next]_vars
             PROVE  LineInOrder'
  OBVIOUS
<1>1. sent \in Seq(Nat) /\ waiting \in Seq(Nat) /\ calls \in Nat
  BY ClientAssumption DEF TypeOK
<1>2. CASE \E s \in Sockets : Open(s)
  <2>1. Line' = Line /\ calls' = calls
    <3>1. sent \o waiting \in Seq(Nat)
      BY <1>1, ConcatProperties
    <3>2. Line' = (sent \o waiting) \o <<>> /\ calls' = calls
      BY <1>2, OpenSends DEF Line
    <3> QED
      BY <3>1, <3>2, ConcatEmptySeq DEF Line
  <2> QED
    BY <2>1 DEF LineInOrder
<1>3. CASE SendStream
  <2>1. calls' = calls + 1
    BY <1>3 DEF SendStream
  <2>2. Line \in Seq(Nat)
    BY <1>1, ConcatProperties DEF Line
  <2>3. ASSUME Line' = Append(Line, calls') PROVE LineInOrder'
    <3>1. calls' \in Nat /\ calls < calls'
      BY <1>1, <2>1
    <3>2. Increasing(Line) /\ \A k \in 1 .. Len(Line) : Line[k] <= calls
      BY DEF LineInOrder
    <3>3. /\ Increasing(Append(Line, calls'))
          /\ \A k \in 1 .. Len(Append(Line, calls')) : Append(Line, calls')[k] <= calls'
      BY <1>1, <2>2, <3>1, <3>2, AppendIncreasing
    <3> QED
      BY <2>3, <3>3 DEF LineInOrder, Increasing
  <2>4. CASE Is({"open"}) /\ sent' = Append(sent, calls') /\ waiting' = waiting
    <3>1. waiting = <<>>
      BY <2>4 DEF NobodyWaitsConnected
    <3>2. Line = sent
      BY <1>1, <3>1, ConcatEmptySeq DEF Line
    <3>3. Append(sent, calls') \in Seq(Nat)
      BY <1>1, <2>1
    <3>4. Line' = Append(sent, calls')
      BY <2>4, <3>1, <3>3, ConcatEmptySeq DEF Line
    <3> QED
      BY <2>3, <3>2, <3>4
  <2>5. CASE waiting' = Append(waiting, calls') /\ sent' = sent
    <3>1. calls' \in Nat /\ <<calls'>> \in Seq(Nat)
      BY <1>1, <2>1
    <3>2. Line' = sent \o (waiting \o <<calls'>>)
      BY <1>1, <2>5, <3>1, AppendIsConcat DEF Line
    <3>3. Line' = Line \o <<calls'>>
      BY <1>1, <3>1, <3>2, ConcatAssociative DEF Line
    <3>4. Line' = Append(Line, calls')
      BY <2>2, <3>1, <3>3, AppendIsConcat
    <3> QED
      BY <2>3, <3>4
  <2>6. CASE sent' = sent /\ waiting' = waiting
    <3>1. Line' = Line
      BY <2>6 DEF Line
    <3>2. \A k \in 1 .. Len(Line) : Line[k] \in Nat
      BY <2>2
    <3> QED
      BY <1>1, <2>1, <3>1, <3>2 DEF LineInOrder
  <2> QED
    BY <1>3, <2>4, <2>5, <2>6, Zenon DEF SendStream
<1>4. CASE ~SendStream /\ \A s \in Sockets : ~Open(s)
  BY <1>4, OtherSends DEF LineInOrder, Line, sends
<1> QED
  BY <1>2, <1>3, <1>4

\* The invariant of the client.
THEOREM Invariant == Spec => []Inductive
<1>1. Inductive /\ [Next]_vars => Inductive'
  BY TypeStep, SocketStep, WaitingStep, StatusStep, LineStep DEF Inductive
<1> QED
  BY InitInductive, <1>1, PTL DEF Spec

\* Every variable keeps its type.
THEOREM TypeCorrect == Spec => []TypeOK
<1>1. Inductive => TypeOK
  BY DEF Inductive
<1> QED
  BY Invariant, <1>1, PTL

\* However often init runs, what connects or is open is globals.webSocket.
THEOREM OneConnection == Spec => []OneLiveSocket
<1>1. Inductive => OneLiveSocket
  BY DEF Inductive
<1> QED
  BY Invariant, <1>1, PTL

\* With a connection no send waits for one.
THEOREM NothingWaits == Spec => []NobodyWaitsConnected
<1>1. Inductive => NobodyWaitsConnected
  BY DEF Inductive
<1> QED
  BY Invariant, <1>1, PTL

\* isConnected lags behind the socket only as the late close event explains.
THEOREM StatusExplained == Spec => []StatusIsExplained
<1>1. Inductive => StatusIsExplained
  BY DEF Inductive
<1> QED
  BY Invariant, <1>1, PTL

\* The sends reach the sockets once and in the order of the calls.
THEOREM InOrder == Spec => []SentInOrder
<1>1. Inductive => SentInOrder
  <2> SUFFICES ASSUME TypeOK, LineInOrder, NEW j \in 1 .. Len(sent), NEW k \in 1 .. Len(sent), j < k
               PROVE  sent[j] < sent[k]
    BY DEF Inductive, SentInOrder
  <2>1. sent \in Seq(Nat) /\ waiting \in Seq(Nat)
    BY ClientAssumption DEF TypeOK
  <2>2. /\ Len(Line) = Len(sent) + Len(waiting) /\ Len(sent) \in Nat /\ Len(waiting) \in Nat
        /\ \A m \in 1 .. Len(sent) : Line[m] = sent[m]
    BY <2>1 DEF Line
  <2>3. Line[j] < Line[k]
    BY <2>2 DEF LineInOrder, Increasing
  <2> QED
    BY <2>2, <2>3
<1> QED
  BY Invariant, <1>1, PTL

\* What will connect again, and the inits that have run.
Attempts == timers + Cardinality(Unclosed)
HaveRun == {i \in Inits : promise[i] \notin {"none", "called"}}

\* Both are numbers.
LEMMA Counts ==
  ASSUME TypeOK
  PROVE  /\ IsFiniteSet(Unclosed) /\ Cardinality(Unclosed) \in Nat
         /\ IsFiniteSet(HaveRun) /\ Cardinality(HaveRun) \in Nat
         /\ Attempts \in Nat
<1>1. IsFiniteSet(Unclosed) /\ IsFiniteSet(HaveRun)
  BY ClientAssumption, FS_Subset DEF Unclosed, HaveRun
<1> QED
  BY <1>1, FS_CardinalityType DEF TypeOK, Attempts

\* init makes at most one attempt more, and leaves at least one.
LEMMA ConnectedCounts ==
  ASSUME NEW t \in Nat, TypeOK, Connected(t)
  PROVE  /\ Attempts' \in Nat /\ Attempts' > 0
         /\ Attempts' <= t + Cardinality(Unclosed) + 1
<1>1. CASE Alive /\ timers' = t /\ UNCHANGED <<ready, webSocket>>
  <2>1. webSocket \in Unclosed
    BY <1>1 DEF TypeOK, Alive, Is, Unclosed
  <2>2. Cardinality(Unclosed) # 0
    BY <2>1, Counts, FS_EmptySet
  <2>3. Unclosed' = Unclosed
    BY <1>1 DEF Unclosed
  <2> QED
    BY <1>1, <2>2, <2>3, Counts DEF Attempts
<1>2. CASE timers' = t + 1 /\ UNCHANGED <<ready, webSocket>>
  <2>1. Unclosed' = Unclosed
    BY <1>2 DEF Unclosed
  <2> QED
    BY <1>2, <2>1, Counts DEF Attempts
<1>3. CASE timers' = t /\ \E s \in Sockets :
             ready[s] = "closed" /\ ready' = [ready EXCEPT ![s] = "connecting"]
  <2>1. PICK s \in Sockets : ready[s] = "closed" /\ ready' = [ready EXCEPT ![s] = "connecting"]
    BY <1>3
  <2>2. Unclosed' = Unclosed \union {s} /\ s \notin Unclosed
    BY <2>1 DEF TypeOK, Unclosed
  <2>3. Cardinality(Unclosed') = Cardinality(Unclosed) + 1
    BY <2>2, Counts, FS_AddElement
  <2> QED
    BY <1>3, <2>3, Counts DEF Attempts
<1> QED
  BY <1>1, <1>2, <1>3, Zenon DEF Connected, ConnectWebSocket

\* Every step leaves an attempt to come, and not more than inits that have run.
LEMMA AttemptsStep == TypeOK /\ TypeOK' /\ AttemptsGoOn /\ [Next]_vars => AttemptsGoOn'
<1> SUFFICES ASSUME TypeOK, TypeOK', AttemptsGoOn, [Next]_vars PROVE AttemptsGoOn'
  OBVIOUS
<1>1. (queue => Attempts > 0) /\ Attempts <= Cardinality(HaveRun)
  BY DEF AttemptsGoOn, Attempts, HaveRun
<1> SUFFICES (queue' => Attempts' > 0) /\ Attempts' <= Cardinality(HaveRun')
  BY DEF AttemptsGoOn, Attempts, HaveRun
<1> DEFINE Goal == (queue' => Attempts' > 0) /\ Attempts' <= Cardinality(HaveRun')
<1>2. /\ Attempts \in Nat /\ Cardinality(Unclosed) \in Nat
      /\ IsFiniteSet(HaveRun) /\ Cardinality(HaveRun) \in Nat
  BY Counts
<1>3. IsFiniteSet(HaveRun') /\ Cardinality(HaveRun') \in Nat
  <2>1. IsFiniteSet(HaveRun')
    BY ClientAssumption, FS_Subset DEF HaveRun
  <2> QED
    BY <2>1, FS_CardinalityType
<1>4. ASSUME HaveRun \subseteq HaveRun' PROVE Cardinality(HaveRun) <= Cardinality(HaveRun')
  BY <1>3, <1>4, FS_Subset
<1>5. ASSUME queue' = queue, Attempts' = Attempts, HaveRun \subseteq HaveRun' PROVE Goal
  BY <1>1, <1>2, <1>3, <1>4, <1>5
<1>6. ASSUME NEW i \in Inits, CallInit(i) \/ LoadFails(i) PROVE Goal
  <2>1. queue' = queue /\ Attempts' = Attempts
    BY <1>6 DEF CallInit, LoadFails, socket, Attempts, Unclosed
  <2>2. HaveRun \subseteq HaveRun'
    BY <1>6 DEF TypeOK, CallInit, LoadFails, HaveRun
  <2> QED
    BY <1>5, <2>1, <2>2
<1>7. ASSUME NEW i \in Inits, RunInit(i) PROVE Goal
  <2>1. promise[i] = "called" /\ promise' = [promise EXCEPT ![i] = promise'[i]]
        /\ promise'[i] \in {"resolved", "rejected", "pending"}
    BY <1>7 DEF TypeOK, RunInit
  <2>2. HaveRun' = HaveRun \union {i} /\ i \notin HaveRun
    BY <2>1 DEF TypeOK, HaveRun
  <2>3. Cardinality(HaveRun') = Cardinality(HaveRun) + 1
    BY <1>2, <2>2, FS_AddElement
  <2>4. timers \in Nat /\ Connected(timers)
    BY <1>7 DEF TypeOK, RunInit
  <2>5. Attempts' \in Nat /\ Attempts' > 0 /\ Attempts' <= Attempts + 1
    BY <2>4, ConnectedCounts DEF Attempts
  <2> QED
    BY <1>1, <1>2, <2>3, <2>5
<1>8. ASSUME Timer PROVE Goal
  <2>1. timers - 1 \in Nat /\ Connected(timers - 1)
    BY <1>8 DEF TypeOK, Timer
  <2>2. Attempts' \in Nat /\ Attempts' > 0 /\ Attempts' <= Attempts
    <3>1. Attempts' \in Nat /\ Attempts' > 0 /\ Attempts' <= (timers - 1) + Cardinality(Unclosed) + 1
      BY <2>1, ConnectedCounts
    <3>2. (timers - 1) + Cardinality(Unclosed) + 1 = Attempts
      BY <1>2 DEF TypeOK, Attempts
    <3> QED
      BY <3>1, <3>2
  <2>3. HaveRun' = HaveRun
    BY <1>8 DEF Timer, promises, HaveRun
  <2> QED
    BY <1>1, <1>2, <2>2, <2>3
<1>9. ASSUME NEW s \in Sockets, Open(s) \/ CloseEvent(s) PROVE HaveRun \subseteq HaveRun'
  BY <1>9 DEF TypeOK, Open, CloseEvent, Settle, HaveRun
<1>10. ASSUME NEW s \in Sockets, Open(s) PROVE Goal
  <2>1. Unclosed' = Unclosed
    BY <1>10 DEF TypeOK, Open, Unclosed
  <2>2. queue' = queue /\ Attempts' = Attempts
    BY <1>10, <2>1 DEF Open, Attempts
  <2> QED
    BY <1>5, <1>9, <1>10, <2>2
<1>11. ASSUME NEW s \in Sockets, CloseEvent(s) PROVE Goal
  <2>1. s \in Unclosed /\ Unclosed' = Unclosed \ {s}
    BY <1>11 DEF TypeOK, CloseEvent, Unclosed
  <2>2. Cardinality(Unclosed') = Cardinality(Unclosed) - 1
    BY <2>1, Counts, FS_RemoveElement
  <2>3. queue' = queue /\ timers' = timers + 1
    BY <1>11 DEF CloseEvent
  <2>4. Attempts' = Attempts
    BY <1>2, <2>2, <2>3 DEF TypeOK, Attempts
  <2> QED
    BY <1>5, <1>9, <1>11, <2>3, <2>4
<1>12. ASSUME NEW s \in Sockets, StartClosing(s) PROVE Goal
  <2>1. Unclosed' = Unclosed
    BY <1>12 DEF TypeOK, StartClosing, Unclosed
  <2>2. queue' = queue /\ Attempts' = Attempts /\ HaveRun' = HaveRun
    BY <1>12, <2>1 DEF StartClosing, Attempts, promises, HaveRun
  <2> QED
    BY <1>5, <2>2
<1>13. ASSUME Close PROVE Goal
  <2>1. Unclosed' = Unclosed
    BY <1>13 DEF TypeOK, Close, Alive, Is, Unclosed
  <2>2. queue' = queue /\ Attempts' = Attempts /\ HaveRun' = HaveRun
    BY <1>13, <2>1 DEF Close, Attempts, promises, HaveRun
  <2> QED
    BY <1>5, <2>2
<1>14. ASSUME GatewayChanges \/ SendStream \/ UNCHANGED vars PROVE Goal
  <2>1. queue' = queue /\ Attempts' = Attempts /\ HaveRun' = HaveRun
    BY <1>14 DEF GatewayChanges, SendStream, vars, socket, promises, Attempts, Unclosed, HaveRun
  <2> QED
    BY <1>5, <2>1
<1> HIDE DEF Goal
<1>15. Goal
  BY <1>6, <1>7, <1>8, <1>10, <1>11, <1>12, <1>13, <1>14 DEF Next
<1> QED
  BY <1>15 DEF Goal

\* Once an init has run there is always an attempt to come, and never more of them
\* than the application asked for.
THEOREM AttemptsContinue == Spec => []AttemptsGoOn
<1>1. Init => AttemptsGoOn
  <2> SUFFICES ASSUME Init PROVE AttemptsGoOn
    OBVIOUS
  <2>1. Unclosed = {} /\ HaveRun = {} /\ timers = 0 /\ ~queue
    BY DEF Init, Unclosed, HaveRun
  <2>2. Cardinality({}) = 0
    BY FS_EmptySet
  <2> QED
    BY <2>1, <2>2 DEF AttemptsGoOn, HaveRun
<1>2. TypeOK /\ TypeOK' /\ AttemptsGoOn /\ [Next]_vars => AttemptsGoOn'
  BY AttemptsStep
<1> QED
  BY <1>1, <1>2, TypeCorrect, PTL DEF Spec
=============================================================================
