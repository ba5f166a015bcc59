--------------------------- MODULE StartupProofs ---------------------------
(***************************************************************************)
(* For any number of processes and nodes, whatever dies: only a process    *)
(* that was killed while it wrote leaves a part of a configuration file.   *)
(***************************************************************************)
EXTENDS Startup, TLAPS

Stages == {"running"} \union Starting \union Down

\* Types of what Join and Retry change besides the stages.
Nodes ==
  /\ recv \in [Procs -> BOOLEAN] /\ send \in [Procs -> BOOLEAN]
  /\ leaving \in [Procs -> Nat]

\* Initially no process has started.
LEMMA InitTyped == Init => TypeOK /\ PartForAReason
<1> SUFFICES ASSUME Init PROVE TypeOK /\ PartForAReason
  OBVIOUS
<1>1. /\ recv \in [Procs -> BOOLEAN] /\ send \in [Procs -> BOOLEAN] /\ cut \in BOOLEAN
      /\ leaving \in [Procs -> Nat] /\ buffer \in [Procs -> 0 .. BufferSize]
  <2>1. recv \in [Procs -> BOOLEAN] /\ send \in [Procs -> BOOLEAN]
    BY DEF Init
  <2>2. cut \in BOOLEAN
    BY DEF Init
  <2>3. leaving \in [Procs -> Nat] /\ buffer \in [Procs -> 0 .. BufferSize]
    BY StartupAssumption DEF Init
  <2> QED
    BY <2>1, <2>2, <2>3
<1>2. /\ gateways \subseteq Procs /\ limit \in Limits
      /\ stage \in [Procs -> Stages] /\ thread \in [Procs -> {"recv", "send"}]
      /\ port \in Procs \union {None} /\ file \in {"none", "part", "whole"}
      /\ sending \subseteq Procs /\ failed \subseteq Procs /\ crashes \in 0 .. MaxCrashes
  BY StartupAssumption DEF Init, Stages, Down
<1>3. file # "part"
  BY DEF Init
<1> QED
  BY <1>1, <1>2, <1>3 DEF TypeOK, Stages, PartForAReason

\* Every step keeps the types.
LEMMA TypeStep == TypeOK /\ [Next]_vars => TypeOK'
<1> SUFFICES ASSUME TypeOK, [Next]_vars PROVE TypeOK'
  OBVIOUS
<1> DEFINE Places == /\ gateways' \subseteq Procs /\ limit' \in Limits
                     /\ stage' \in [Procs -> Stages] /\ thread' \in [Procs -> {"recv", "send"}]
                     /\ port' \in Procs \union {None} /\ file' \in {"none", "part", "whole"}
                     /\ sending' \subseteq Procs /\ failed' \subseteq Procs
                     /\ crashes' \in 0 .. MaxCrashes
                     /\ buffer' \in [Procs -> 0 .. BufferSize]
<1> SUFFICES Places /\ Nodes' /\ cut' \in BOOLEAN
  BY Zenon DEF TypeOK, Nodes, Stages
<1>1. Nodes
  BY Zenon DEF TypeOK, Nodes
<1>2. ASSUME UNCHANGED node PROVE Nodes'
  BY <1>1, <1>2 DEF node, Nodes
<1>3. ASSUME UNCHANGED cut PROVE cut' \in BOOLEAN
  BY <1>3, Zenon DEF TypeOK
<1>4. ASSUME NEW p \in Procs, Begin(p) \/ Check(p) \/ Create(p) \/ Fill(p) \/ Bind(p)
      PROVE  Places /\ Nodes' /\ cut' \in BOOLEAN
  <2>1. UNCHANGED node /\ UNCHANGED cut
    BY <1>4 DEF Begin, Check, Create, Fill, Bind
  <2>2. Places
    BY <1>4 DEF TypeOK, Begin, Check, Create, Fill, Bind, Step, Retry, Stages, Starting, Down
  <2> QED
    BY <1>2, <1>3, <2>1, <2>2
<1>5. ASSUME NEW p \in Procs, Send(p) \/ SendPage(p) \/ Drain(p)
      PROVE  Places /\ Nodes' /\ cut' \in BOOLEAN
  <2>1. UNCHANGED node /\ UNCHANGED cut
    BY <1>5 DEF Send, SendPage, Drain
  <2>2. buffer' \in [Procs -> 0 .. BufferSize]
    BY <1>5, StartupAssumption DEF TypeOK, Send, SendPage, Drain
  <2>3. Places
    BY <1>5, <2>2 DEF TypeOK, Send, SendPage, Drain, Stages
  <2> QED
    BY <1>2, <1>3, <2>1, <2>3
<1>6. ASSUME NEW p \in Procs, ThreadEnds(p) PROVE Places /\ Nodes' /\ cut' \in BOOLEAN
  <2>1. Nodes'
    BY <1>6 DEF TypeOK, ThreadEnds, Nodes
  <2>2. Places /\ UNCHANGED cut
    BY <1>6 DEF TypeOK, ThreadEnds, Stages
  <2> QED
    BY <1>3, <2>1, <2>2
<1>7. ASSUME NEW p \in Procs, Join(p) PROVE Places /\ Nodes' /\ cut' \in BOOLEAN
  <2>1. CASE Retry(p) /\ UNCHANGED <<node, buffer>>
    <3>1. Places
      BY <1>7, <2>1 DEF TypeOK, Join, Retry, Stages, Starting, Down
    <3> QED
      BY <1>2, <1>3, <1>7, <2>1, <3>1 DEF Join
  <2>2. CASE /\ Admitted(p, recv, send) /\ Step(p, "join", "check")
             /\ thread' = [thread EXCEPT ![p] = "send"]
             /\ buffer' = [buffer EXCEPT ![p] = 0] /\ UNCHANGED failed
    <3>1. Places
      BY <1>7, <2>2, StartupAssumption DEF TypeOK, Join, Step, Stages, Starting, Down
    <3>2. Nodes'
      BY <2>2 DEF TypeOK, Admitted, Nodes
    <3> QED
      BY <1>3, <1>7, <3>1, <3>2 DEF Join
  <2>3. CASE /\ Admitted(p, send, recv) /\ Step(p, "join", "port")
             /\ UNCHANGED <<thread, buffer, failed>>
    <3>1. Places
      BY <1>7, <2>3 DEF TypeOK, Join, Step, Stages, Starting, Down
    <3>2. Nodes'
      BY <2>3 DEF TypeOK, Admitted, Nodes
    <3> QED
      BY <1>3, <1>7, <3>1, <3>2 DEF Join
  <2> QED
    BY <1>7, <2>1, <2>2, <2>3, Zenon DEF Join
<1>8. ASSUME NEW p \in Procs, NEW as \in Down, Ends(p, as), file' = file, failed' = failed, crashes' \in 0 .. MaxCrashes
      PROVE  Places /\ Nodes'
  <2>1. Nodes'
    BY <1>8 DEF TypeOK, Ends, Nodes
  <2>2. stage' \in [Procs -> Stages] /\ buffer' \in [Procs -> 0 .. BufferSize]
    <3>1. stage \in [Procs -> Stages] /\ as \in Stages
      BY DEF TypeOK, Stages
    <3>2. buffer \in [Procs -> 0 .. BufferSize] /\ 0 \in 0 .. BufferSize
      BY StartupAssumption DEF TypeOK
    <3> QED
      BY <1>8, <3>1, <3>2 DEF Ends
  <2>3. Places
    BY <1>8, <2>2 DEF TypeOK, Ends
  <2> QED
    BY <2>1, <2>3
<1>9. ASSUME NEW p \in Procs, Read(p) PROVE Places /\ Nodes' /\ cut' \in BOOLEAN
  <2>1. CASE Step(p, "read", "join") /\ UNCHANGED <<gateways, limit, thread, node, port, buffer, sending>>
    <3>1. Places
      BY <1>9, <2>1 DEF TypeOK, Read, Step, Stages, Starting, Down
    <3> QED
      BY <1>2, <1>3, <1>9, <2>1, <3>1 DEF Read
  <2>2. CASE Ends(p, "panicked")
    BY <1>3, <1>8, <1>9, <2>2 DEF TypeOK, Read, Down
  <2> QED
    BY <1>9, <2>1, <2>2, Zenon DEF Read
<1>10. ASSUME NEW p \in Procs, Quit(p) PROVE Places /\ Nodes' /\ cut' \in BOOLEAN
  BY <1>3, <1>8, <1>10 DEF TypeOK, Quit, Down
<1>11. ASSUME NEW p \in Procs, Crash(p) PROVE Places /\ Nodes' /\ cut' \in BOOLEAN
  <2>1. cut' \in BOOLEAN
    BY <1>11 DEF Crash
  <2>2. crashes' \in 0 .. MaxCrashes
    BY <1>11, StartupAssumption DEF TypeOK, Crash
  <2> QED
    BY <1>8, <1>11, <2>1, <2>2 DEF Crash, Down
<1>12. CASE UNCHANGED vars
  <2>1. UNCHANGED node /\ UNCHANGED cut
    BY <1>12 DEF vars
  <2>2. Places
    BY <1>12 DEF TypeOK, vars, Stages
  <2> QED
    BY <1>2, <1>3, <2>1, <2>2
<1> HIDE DEF Places
<1> QED
  BY <1>4, <1>5, <1>6, <1>7, <1>9, <1>10, <1>11, <1>12 DEF Next, Initialises

\* Every step keeps the reason why the file is in part.
LEMMA PartStep == TypeOK /\ PartForAReason /\ [Next]_vars => PartForAReason'
<1> SUFFICES ASSUME TypeOK, PartForAReason, [Next]_vars, file' = "part"
             PROVE  cut' \/ \E q \in Procs : stage'[q] = "fill"
  BY DEF PartForAReason
<1> DEFINE Reason == cut \/ \E q \in Procs : stage[q] = "fill"
<1>1. ASSUME file' = file PROVE Reason
  BY <1>1 DEF PartForAReason
<1>2. ASSUME NEW p \in Procs, UNCHANGED file, UNCHANGED cut, stage[p] # "fill",
             \E to : stage' = [stage EXCEPT ![p] = to]
      PROVE  Reason'
  BY <1>1, <1>2 DEF TypeOK
<1>3. ASSUME NEW p \in Procs, Begin(p) \/ Check(p) \/ Read(p) \/ Join(p) \/ Bind(p) \/ Quit(p)
      PROVE  Reason'
  <2>1. UNCHANGED file /\ UNCHANGED cut
    BY <1>3 DEF Begin, Check, Read, Join, Bind, Quit
  <2>2. stage[p] # "fill"
    BY <1>3 DEF Begin, Check, Read, Join, Bind, Quit, Step, Down
  <2>3. \E to : stage' = [stage EXCEPT ![p] = to]
    BY <1>3, Zenon DEF Begin, Check, Read, Join, Bind, Quit, Step, Retry, Ends
  <2> QED
    BY <1>2, <2>1, <2>2, <2>3
<1>4. ASSUME NEW p \in Procs, Create(p) PROVE Reason'
  BY <1>4 DEF TypeOK, Create, Step
<1>5. ASSUME NEW p \in Procs, Fill(p) PROVE Reason'
  BY <1>5 DEF Fill
<1>6. ASSUME NEW p \in Procs, Crash(p) PROVE Reason'
  <2>1. CASE stage[p] = "fill"
    BY <1>6, <2>1 DEF Crash
  <2>2. CASE stage[p] # "fill"
    BY <1>1, <1>6, <2>2 DEF TypeOK, Crash, Ends
  <2> QED
    BY <2>1, <2>2
<1>7. ASSUME NEW p \in Procs, ThreadEnds(p) \/ Drain(p) \/ Send(p) \/ SendPage(p) PROVE Reason'
  BY <1>1, <1>7 DEF ThreadEnds, Drain, Send, SendPage
<1>8. ASSUME UNCHANGED vars PROVE Reason'
  BY <1>1, <1>8 DEF vars
<1> HIDE DEF Reason
<1>9. Reason'
  BY <1>3, <1>4, <1>5, <1>6, <1>7, <1>8 DEF Next, Initialises
<1> QED
  BY <1>9 DEF Reason

\* Every variable keeps its type.
THEOREM TypeCorrect == Spec => []TypeOK
BY InitTyped, TypeStep, PTL DEF Spec

\* However many processes start at once, nobody is left with a part of the file
\* when the writers have ended, unless one of them was killed.
THEOREM PartsAreExplained == Spec => []PartForAReason
BY InitTyped, TypeStep, PartStep, PTL DEF Spec
=============================================================================
