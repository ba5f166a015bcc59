------------------------ MODULE HandlerRegistryProofs ------------------------
(***************************************************************************)
(* After a handler was deregistered its task is over, and no task escapes  *)
(* the registry, for any number of threads, handlers, messages and         *)
(* runtimes and whatever callbacks return.                                 *)
(*                                                                         *)
(* A deregistration that does not find its handler returns without waiting *)
(* for the task.  That is safe because it holds the registry's lock: no    *)
(* other call has the task's handle then, the one that made the task has   *)
(* returned, so a task without an entry has ended.                         *)
(*                                                                         *)
(* Where one thread makes all the calls and no handler deregisters itself, *)
(* a handler ends only when it was asked to: the runtime a task is on goes *)
(* with the last entry, and then no task is left and none is being made.   *)
(***************************************************************************)
EXTENDS HandlerRegistry, TLAPS

\* The registry is locked by the one whose call holds it over a step.
Locked == \A a \in Apps : lock = a <=> pc[a] \in {"send", "join", "check", "shut"}

\* A handler that is being registered is known to nobody else; every other
\* call is about a registered one.
Calls ==
  \A a \in Apps :
     /\ pc[a] # "idle" => arg[a].handler \in Handlers
     /\ pc[a] \in {"spawn", "insert"} =>
          /\ arg[a].handler \notin registered
          /\ \A b \in Apps \ {a} : arg[b].handler # arg[a].handler
     /\ pc[a] \notin {"idle", "spawn", "insert"} => arg[a].handler \in registered

\* Tasks exist from Spawn on.
Tasks ==
  /\ \A h \in registered : task[h] # "unborn"
  /\ \A a \in Apps : pc[a] = "spawn" => task[arg[a].handler] = "unborn"
  /\ \A a \in Apps : pc[a] = "insert" => task[arg[a].handler] # "unborn"

\* A handler has no more mail than arrived for it.
Counted == \A h \in Handlers : mail[h] <= arrived[h]

\* What Check and Shut free is over.
Over == \A a \in Apps : pc[a] \in {"check", "shut"} => task[arg[a].handler] = "done"

Inductive ==
  TypeOK /\ Counted /\ Locked /\ Calls /\ Tasks /\ NoStrayTask /\ Over /\ DeregisterIsFinal

\* Every step keeps the types.
LEMMA TypeStep == TypeOK /\ Counted /\ Calls /\ [Next]_vars => TypeOK' /\ Counted'
<1> SUFFICES ASSUME TypeOK, Counted, Calls, [Next]_vars PROVE TypeOK' /\ Counted'
  OBVIOUS
<1> USE RegistryAssumption DEF TypeOK, Counted, Calls, registry, app, handler, queue, history
<1>1. ASSUME NEW a \in Apps, NEW h \in Handlers, Register(a, h) PROVE TypeOK' /\ Counted'
  BY <1>1 DEF Register, Enter, GetRuntime
<1>2. ASSUME NEW a \in Apps, NEW h \in Handlers, NEW m \in Modes, Resume(a, h, m) PROVE TypeOK' /\ Counted'
  BY <1>2 DEF Resume, Enter
<1>3. ASSUME NEW a \in Apps, NEW h \in Handlers, Deregister(a, h) PROVE TypeOK' /\ Counted'
  BY <1>3 DEF Deregister, Enter, GetRuntime
<1>4. ASSUME NEW a \in Apps, Spawn(a) PROVE TypeOK' /\ Counted'
  BY <1>4 DEF Spawn, Go
<1>5. ASSUME NEW a \in Apps, Insert(a) PROVE TypeOK' /\ Counted'
  BY <1>5 DEF Insert, Go
<1>6. ASSUME NEW a \in Apps, ResumeLock(a) PROVE TypeOK' /\ Counted'
  BY <1>6 DEF ResumeLock, Go, Gone
<1>7. ASSUME NEW a \in Apps, Send(a) PROVE TypeOK' /\ Counted'
  <2>1. /\ pc' = [pc EXCEPT ![a] = "idle"]
        /\ arg' = [arg EXCEPT ![a] = [handler |-> Nobody, mode |-> "wait"]]
        /\ lock' = Nobody
    BY <1>7 DEF Send, Go
  <2>2. signal' \in [Handlers -> {"wait", "try", Nobody}]
    <3>1. pc[a] # "idle" /\ arg[a].handler \in Handlers /\ arg[a].mode \in {"wait", "try"}
      BY <1>7 DEF Send, Go
    <3> QED
      BY <1>7, <3>1 DEF Send
  <2>3. UNCHANGED <<runtime, built, tasks, task, home, mode, aborted, panicked, queue, history>>
    BY <1>7 DEF Send
  <2> QED
    BY <2>1, <2>2, <2>3
<1>8. ASSUME NEW a \in Apps, Take(a) PROVE TypeOK' /\ Counted'
  BY <1>8 DEF Take, Go
<1>9. ASSUME NEW a \in Apps, Join(a) PROVE TypeOK' /\ Counted'
  BY <1>9 DEF Join, Go
<1>10. ASSUME NEW a \in Apps, Check(a) PROVE TypeOK' /\ Counted'
  BY <1>10 DEF Check, Go
<1>11. ASSUME NEW a \in Apps, TakeRuntime(a) PROVE TypeOK' /\ Counted'
  BY <1>11 DEF TakeRuntime, Go
<1>12. ASSUME NEW a \in Apps, Shut(a) PROVE TypeOK' /\ Counted'
  BY <1>12 DEF Shut, Go
<1>13. ASSUME NEW h \in Handlers, Arrive(h) PROVE TypeOK' /\ Counted'
  BY <1>13 DEF Arrive
<1>14. ASSUME NEW h \in Handlers, Receive(h) PROVE TypeOK' /\ Counted'
  BY <1>14 DEF Receive, Step
<1>15. ASSUME NEW h \in Handlers, Fetch(h) PROVE TypeOK' /\ Counted'
  BY <1>15 DEF Fetch, Step
<1>16. ASSUME NEW h \in Handlers, Return(h) PROVE TypeOK' /\ Counted'
  BY <1>16 DEF Return, Step
<1>17. ASSUME NEW h \in Handlers, DeregisterItself(h) PROVE TypeOK' /\ Counted'
  BY <1>17 DEF DeregisterItself, Step
<1>18. ASSUME NEW h \in Handlers, End(h) PROVE TypeOK' /\ Counted'
  BY <1>18 DEF End, Step
<1>19. CASE UNCHANGED vars
  BY <1>19 DEF vars
<1> QED
  BY <1>1, <1>2, <1>3, <1>4, <1>5, <1>6, <1>7, <1>8, <1>9, <1>10, <1>11, <1>12, <1>13, <1>14, <1>15, <1>16, <1>17, <1>18, <1>19 DEF Next, NewCall, Serve, Run

\* Every step keeps the holder of the lock.
LEMMA LockedStep == TypeOK /\ Locked /\ [Next]_vars => Locked'
<1> SUFFICES ASSUME TypeOK, Locked, [Next]_vars PROVE Locked'
  OBVIOUS
<1> USE RegistryAssumption DEF TypeOK, Locked, registry, app, handler, queue, history
<1>1. ASSUME NEW a \in Apps, NEW h \in Handlers, Register(a, h) PROVE Locked'
  BY <1>1 DEF Register, Enter, GetRuntime
<1>2. ASSUME NEW a \in Apps, NEW h \in Handlers, NEW m \in Modes, Resume(a, h, m) PROVE Locked'
  BY <1>2 DEF Resume, Enter
<1>3. ASSUME NEW a \in Apps, NEW h \in Handlers, Deregister(a, h) PROVE Locked'
  BY <1>3 DEF Deregister, Enter, GetRuntime
<1>4. ASSUME NEW a \in Apps, Spawn(a) PROVE Locked'
  BY <1>4 DEF Spawn, Go
<1>5. ASSUME NEW a \in Apps, Insert(a) PROVE Locked'
  BY <1>5 DEF Insert, Go
<1>6. ASSUME NEW a \in Apps, ResumeLock(a) PROVE Locked'
  BY <1>6 DEF ResumeLock, Go, Gone
<1>7. ASSUME NEW a \in Apps, Send(a) PROVE Locked'
  BY <1>7 DEF Send, Go, Gone
<1>8. ASSUME NEW a \in Apps, Take(a) PROVE Locked'
  BY <1>8 DEF Take, Go
<1>9. ASSUME NEW a \in Apps, Join(a) PROVE Locked'
  BY <1>9 DEF Join, Go
<1>10. ASSUME NEW a \in Apps, Check(a) PROVE Locked'
  BY <1>10 DEF Check, Go
<1>11. ASSUME NEW a \in Apps, TakeRuntime(a) PROVE Locked'
  BY <1>11 DEF TakeRuntime, Go
<1>12. ASSUME NEW a \in Apps, Shut(a) PROVE Locked'
  BY <1>12 DEF Shut, Go
<1>13. ASSUME NEW h \in Handlers, Arrive(h) PROVE Locked'
  BY <1>13 DEF Arrive
<1>14. ASSUME NEW h \in Handlers, Receive(h) PROVE Locked'
  BY <1>14 DEF Receive, Step
<1>15. ASSUME NEW h \in Handlers, Fetch(h) PROVE Locked'
  BY <1>15 DEF Fetch, Step
<1>16. ASSUME NEW h \in Handlers, Return(h) PROVE Locked'
  BY <1>16 DEF Return, Step
<1>17. ASSUME NEW h \in Handlers, DeregisterItself(h) PROVE Locked'
  BY <1>17 DEF DeregisterItself, Step
<1>18. ASSUME NEW h \in Handlers, End(h) PROVE Locked'
  BY <1>18 DEF End, Step
<1>19. CASE UNCHANGED vars
  BY <1>19 DEF vars
<1> QED
  BY <1>1, <1>2, <1>3, <1>4, <1>5, <1>6, <1>7, <1>8, <1>9, <1>10, <1>11, <1>12, <1>13, <1>14, <1>15, <1>16, <1>17, <1>18, <1>19 DEF Next, NewCall, Serve, Run

\* Every step keeps what calls are about.
LEMMA CallsStep == TypeOK /\ Calls /\ Tasks /\ [Next]_vars => Calls'
<1> SUFFICES ASSUME TypeOK, Calls, Tasks, [Next]_vars PROVE Calls'
  OBVIOUS
<1> USE RegistryAssumption DEF TypeOK, Calls, Tasks, registry, app, handler, queue, history
<1>1. ASSUME NEW a \in Apps, NEW h \in Handlers, Register(a, h) PROVE Calls'
  BY <1>1 DEF Register, Enter, GetRuntime
<1>2. ASSUME NEW a \in Apps, NEW h \in Handlers, NEW m \in Modes, Resume(a, h, m) PROVE Calls'
  BY <1>2 DEF Resume, Enter
<1>3. ASSUME NEW a \in Apps, NEW h \in Handlers, Deregister(a, h) PROVE Calls'
  BY <1>3 DEF Deregister, Enter, GetRuntime
<1>4. ASSUME NEW a \in Apps, Spawn(a) PROVE Calls'
  BY <1>4 DEF Spawn, Go
<1>5. ASSUME NEW a \in Apps, Insert(a) PROVE Calls'
  BY <1>5 DEF Insert, Go
<1>6. ASSUME NEW a \in Apps, ResumeLock(a) PROVE Calls'
  BY <1>6 DEF ResumeLock, Go, Gone
<1>7. ASSUME NEW a \in Apps, Send(a) PROVE Calls'
  <2>1. /\ pc' = [pc EXCEPT ![a] = "idle"]
        /\ arg' = [arg EXCEPT ![a] = [handler |-> Nobody, mode |-> "wait"]]
        /\ pc[a] \in {"resume", "send"}
        /\ task' = task /\ tasks' = tasks /\ registered' = registered
    BY <1>7 DEF Send, Go
  <2> QED
    BY <2>1
<1>8. ASSUME NEW a \in Apps, Take(a) PROVE Calls'
  BY <1>8 DEF Take, Go
<1>9. ASSUME NEW a \in Apps, Join(a) PROVE Calls'
  BY <1>9 DEF Join, Go
<1>10. ASSUME NEW a \in Apps, Check(a) PROVE Calls'
  BY <1>10 DEF Check, Go
<1>11. ASSUME NEW a \in Apps, TakeRuntime(a) PROVE Calls'
  BY <1>11 DEF TakeRuntime, Go
<1>12. ASSUME NEW a \in Apps, Shut(a) PROVE Calls'
  BY <1>12 DEF Shut, Go
<1>13. ASSUME NEW h \in Handlers, Arrive(h) PROVE Calls'
  BY <1>13 DEF Arrive
<1>14. ASSUME NEW h \in Handlers, Receive(h) PROVE Calls'
  BY <1>14 DEF Receive, Step
<1>15. ASSUME NEW h \in Handlers, Fetch(h) PROVE Calls'
  BY <1>15 DEF Fetch, Step
<1>16. ASSUME NEW h \in Handlers, Return(h) PROVE Calls'
  BY <1>16 DEF Return, Step
<1>17. ASSUME NEW h \in Handlers, DeregisterItself(h) PROVE Calls'
  BY <1>17 DEF DeregisterItself, Step
<1>18. ASSUME NEW h \in Handlers, End(h) PROVE Calls'
  BY <1>18 DEF End, Step
<1>19. CASE UNCHANGED vars
  BY <1>19 DEF vars
<1> QED
  BY <1>1, <1>2, <1>3, <1>4, <1>5, <1>6, <1>7, <1>8, <1>9, <1>10, <1>11, <1>12, <1>13, <1>14, <1>15, <1>16, <1>17, <1>18, <1>19 DEF Next, NewCall, Serve, Run

\* Every step keeps what exists.
LEMMA TasksStep == TypeOK /\ Calls /\ Tasks /\ [Next]_vars => Tasks'
<1> SUFFICES ASSUME TypeOK, Calls, Tasks, [Next]_vars PROVE Tasks'
  OBVIOUS
<1> USE RegistryAssumption DEF TypeOK, Calls, Tasks, registry, app, handler, queue, history
<1>1. ASSUME NEW a \in Apps, NEW h \in Handlers, Register(a, h) PROVE Tasks'
  BY <1>1 DEF Register, Enter, GetRuntime
<1>2. ASSUME NEW a \in Apps, NEW h \in Handlers, NEW m \in Modes, Resume(a, h, m) PROVE Tasks'
  BY <1>2 DEF Resume, Enter
<1>3. ASSUME NEW a \in Apps, NEW h \in Handlers, Deregister(a, h) PROVE Tasks'
  BY <1>3 DEF Deregister, Enter, GetRuntime
<1>4. ASSUME NEW a \in Apps, Spawn(a) PROVE Tasks'
  BY <1>4 DEF Spawn, Go
<1>5. ASSUME NEW a \in Apps, Insert(a) PROVE Tasks'
  BY <1>5 DEF Insert, Go
<1>6. ASSUME NEW a \in Apps, ResumeLock(a) PROVE Tasks'
  BY <1>6 DEF ResumeLock, Go, Gone
<1>7. ASSUME NEW a \in Apps, Send(a) PROVE Tasks'
  <2>1. /\ pc' = [pc EXCEPT ![a] = "idle"]
        /\ arg' = [arg EXCEPT ![a] = [handler |-> Nobody, mode |-> "wait"]]
        /\ task' = task /\ registered' = registered
    BY <1>7 DEF Send, Go
  <2> QED
    BY <2>1
<1>8. ASSUME NEW a \in Apps, Take(a) PROVE Tasks'
  BY <1>8 DEF Take, Go
<1>9. ASSUME NEW a \in Apps, Join(a) PROVE Tasks'
  BY <1>9 DEF Join, Go
<1>10. ASSUME NEW a \in Apps, Check(a) PROVE Tasks'
  BY <1>10 DEF Check, Go
<1>11. ASSUME NEW a \in Apps, TakeRuntime(a) PROVE Tasks'
  BY <1>11 DEF TakeRuntime, Go
<1>12. ASSUME NEW a \in Apps, Shut(a) PROVE Tasks'
  BY <1>12 DEF Shut, Go
<1>13. ASSUME NEW h \in Handlers, Arrive(h) PROVE Tasks'
  BY <1>13 DEF Arrive
<1>14. ASSUME NEW h \in Handlers, Receive(h) PROVE Tasks'
  BY <1>14 DEF Receive, Step
<1>15. ASSUME NEW h \in Handlers, Fetch(h) PROVE Tasks'
  BY <1>15 DEF Fetch, Step
<1>16. ASSUME NEW h \in Handlers, Return(h) PROVE Tasks'
  BY <1>16 DEF Return, Step
<1>17. ASSUME NEW h \in Handlers, DeregisterItself(h) PROVE Tasks'
  BY <1>17 DEF DeregisterItself, Step
<1>18. ASSUME NEW h \in Handlers, End(h) PROVE Tasks'
  BY <1>18 DEF End, Step
<1>19. CASE UNCHANGED vars
  BY <1>19 DEF vars
<1> QED
  BY <1>1, <1>2, <1>3, <1>4, <1>5, <1>6, <1>7, <1>8, <1>9, <1>10, <1>11, <1>12, <1>13, <1>14, <1>15, <1>16, <1>17, <1>18, <1>19 DEF Next, NewCall, Serve, Run

\* Every step keeps tasks within reach.
LEMMA StrayStep == TypeOK /\ Calls /\ NoStrayTask /\ [Next]_vars => NoStrayTask'
<1> SUFFICES ASSUME TypeOK, Calls, NoStrayTask, [Next]_vars PROVE NoStrayTask'
  OBVIOUS
<1> USE RegistryAssumption DEF TypeOK, Calls, NoStrayTask, registry, app, handler, queue, history
<1>1. ASSUME NEW a \in Apps, NEW h \in Handlers, Register(a, h) PROVE NoStrayTask'
  BY <1>1 DEF Register, Enter, GetRuntime
<1>2. ASSUME NEW a \in Apps, NEW h \in Handlers, NEW m \in Modes, Resume(a, h, m) PROVE NoStrayTask'
  BY <1>2 DEF Resume, Enter
<1>3. ASSUME NEW a \in Apps, NEW h \in Handlers, Deregister(a, h) PROVE NoStrayTask'
  BY <1>3 DEF Deregister, Enter, GetRuntime
<1>4. ASSUME NEW a \in Apps, Spawn(a) PROVE NoStrayTask'
  BY <1>4 DEF Spawn, Go
<1>5. ASSUME NEW a \in Apps, Insert(a) PROVE NoStrayTask'
  BY <1>5 DEF Insert, Go
<1>6. ASSUME NEW a \in Apps, ResumeLock(a) PROVE NoStrayTask'
  BY <1>6 DEF ResumeLock, Go, Gone
<1>7. ASSUME NEW a \in Apps, Send(a) PROVE NoStrayTask'
  <2>1. /\ pc' = [pc EXCEPT ![a] = "idle"]
        /\ arg' = [arg EXCEPT ![a] = [handler |-> Nobody, mode |-> "wait"]]
        /\ pc[a] \in {"resume", "send"}
        /\ task' = task /\ tasks' = tasks /\ registered' = registered
    BY <1>7 DEF Send, Go
  <2> QED
    BY <2>1
<1>8. ASSUME NEW a \in Apps, Take(a) PROVE NoStrayTask'
  BY <1>8 DEF Take, Go
<1>9. ASSUME NEW a \in Apps, Join(a) PROVE NoStrayTask'
  BY <1>9 DEF Join, Go
<1>10. ASSUME NEW a \in Apps, Check(a) PROVE NoStrayTask'
  BY <1>10 DEF Check, Go
<1>11. ASSUME NEW a \in Apps, TakeRuntime(a) PROVE NoStrayTask'
  BY <1>11 DEF TakeRuntime, Go
<1>12. ASSUME NEW a \in Apps, Shut(a) PROVE NoStrayTask'
  BY <1>12 DEF Shut, Go
<1>13. ASSUME NEW h \in Handlers, Arrive(h) PROVE NoStrayTask'
  BY <1>13 DEF Arrive
<1>14. ASSUME NEW h \in Handlers, Receive(h) PROVE NoStrayTask'
  BY <1>14 DEF Receive, Step
<1>15. ASSUME NEW h \in Handlers, Fetch(h) PROVE NoStrayTask'
  BY <1>15 DEF Fetch, Step
<1>16. ASSUME NEW h \in Handlers, Return(h) PROVE NoStrayTask'
  BY <1>16 DEF Return, Step
<1>17. ASSUME NEW h \in Handlers, DeregisterItself(h) PROVE NoStrayTask'
  BY <1>17 DEF DeregisterItself, Step
<1>18. ASSUME NEW h \in Handlers, End(h) PROVE NoStrayTask'
  BY <1>18 DEF End, Step
<1>19. CASE UNCHANGED vars
  BY <1>19 DEF vars
<1> QED
  BY <1>1, <1>2, <1>3, <1>4, <1>5, <1>6, <1>7, <1>8, <1>9, <1>10, <1>11, <1>12, <1>13, <1>14, <1>15, <1>16, <1>17, <1>18, <1>19 DEF Next, NewCall, Serve, Run

\* Every step keeps what is over.
LEMMA OverStep == TypeOK /\ Locked /\ Calls /\ Tasks /\ NoStrayTask /\ Over /\ [Next]_vars => Over'
<1> SUFFICES ASSUME TypeOK, Locked, Calls, Tasks, NoStrayTask, Over, [Next]_vars PROVE Over'
  OBVIOUS
<1> USE RegistryAssumption DEF TypeOK, Calls, Tasks, Over, registry, app, handler, queue, history
<1>1. ASSUME NEW a \in Apps, NEW h \in Handlers, Register(a, h) PROVE Over'
  BY <1>1 DEF Register, Enter, GetRuntime
<1>2. ASSUME NEW a \in Apps, NEW h \in Handlers, NEW m \in Modes, Resume(a, h, m) PROVE Over'
  BY <1>2 DEF Resume, Enter
<1>3. ASSUME NEW a \in Apps, NEW h \in Handlers, Deregister(a, h) PROVE Over'
  BY <1>3 DEF Deregister, Enter, GetRuntime
<1>4. ASSUME NEW a \in Apps, Spawn(a) PROVE Over'
  BY <1>4 DEF Spawn, Go
<1>5. ASSUME NEW a \in Apps, Insert(a) PROVE Over'
  BY <1>5 DEF Insert, Go
<1>6. ASSUME NEW a \in Apps, ResumeLock(a) PROVE Over'
  BY <1>6 DEF ResumeLock, Go, Gone
<1>7. ASSUME NEW a \in Apps, Send(a) PROVE Over'
  BY <1>7 DEF Send, Go, Gone
<1>8. ASSUME NEW a \in Apps, Take(a) PROVE Over'
  <2> DEFINE h == arg[a].handler
  <2>1. pc[a] = "take" /\ lock = Nobody /\ h \in registered /\ h \in Handlers
    BY <1>8 DEF Take, Go
  <2>2. \A b \in Apps : pc[b] # "join"
    BY <2>1 DEF Locked
  <2>3. \A b \in Apps : pc[b] = "insert" => arg[b].handler # h
    BY <2>1
  <2>4. h \notin tasks => task[h] = "done"
    BY <2>1, <2>2, <2>3 DEF NoStrayTask
  <2>5. /\ pc' = [pc EXCEPT ![a] = IF h \in tasks THEN "join" ELSE "check"]
        /\ arg' = arg /\ task' = task
    BY <1>8 DEF Take, Go
  <2> QED
    BY <2>4, <2>5
<1>9. ASSUME NEW a \in Apps, Join(a) PROVE Over'
  BY <1>9 DEF Join, Go
<1>10. ASSUME NEW a \in Apps, Check(a) PROVE Over'
  BY <1>10 DEF Check, Go
<1>11. ASSUME NEW a \in Apps, TakeRuntime(a) PROVE Over'
  BY <1>11 DEF TakeRuntime, Go
<1>12. ASSUME NEW a \in Apps, Shut(a) PROVE Over'
  BY <1>12 DEF Shut, Go
<1>13. ASSUME NEW h \in Handlers, Arrive(h) PROVE Over'
  BY <1>13 DEF Arrive
<1>14. ASSUME NEW h \in Handlers, Receive(h) PROVE Over'
  BY <1>14 DEF Receive, Step
<1>15. ASSUME NEW h \in Handlers, Fetch(h) PROVE Over'
  BY <1>15 DEF Fetch, Step
<1>16. ASSUME NEW h \in Handlers, Return(h) PROVE Over'
  BY <1>16 DEF Return, Step
<1>17. ASSUME NEW h \in Handlers, DeregisterItself(h) PROVE Over'
  BY <1>17 DEF DeregisterItself, Step
<1>18. ASSUME NEW h \in Handlers, End(h) PROVE Over'
  BY <1>18 DEF End, Step
<1>19. CASE UNCHANGED vars
  BY <1>19 DEF vars
<1> QED
  BY <1>1, <1>2, <1>3, <1>4, <1>5, <1>6, <1>7, <1>8, <1>9, <1>10, <1>11, <1>12, <1>13, <1>14, <1>15, <1>16, <1>17, <1>18, <1>19 DEF Next, NewCall, Serve, Run

\* Every step keeps what was freed over.
LEMMA FinalStep == TypeOK /\ Tasks /\ Calls /\ Over /\ DeregisterIsFinal /\ [Next]_vars => DeregisterIsFinal'
<1> SUFFICES ASSUME TypeOK, Tasks, Calls, Over, DeregisterIsFinal, [Next]_vars PROVE DeregisterIsFinal'
  OBVIOUS
<1> USE RegistryAssumption DEF TypeOK, Calls, Tasks, Over, DeregisterIsFinal, registry, app, handler, queue, history
<1>1. ASSUME NEW a \in Apps, NEW h \in Handlers, Register(a, h) PROVE DeregisterIsFinal'
  BY <1>1 DEF Register, Enter, GetRuntime
<1>2. ASSUME NEW a \in Apps, NEW h \in Handlers, NEW m \in Modes, Resume(a, h, m) PROVE DeregisterIsFinal'
  BY <1>2 DEF Resume, Enter
<1>3. ASSUME NEW a \in Apps, NEW h \in Handlers, Deregister(a, h) PROVE DeregisterIsFinal'
  BY <1>3 DEF Deregister, Enter, GetRuntime
<1>4. ASSUME NEW a \in Apps, Spawn(a) PROVE DeregisterIsFinal'
  BY <1>4 DEF Spawn, Go
<1>5. ASSUME NEW a \in Apps, Insert(a) PROVE DeregisterIsFinal'
  BY <1>5 DEF Insert, Go
<1>6. ASSUME NEW a \in Apps, ResumeLock(a) PROVE DeregisterIsFinal'
  BY <1>6 DEF ResumeLock, Go, Gone
<1>7. ASSUME NEW a \in Apps, Send(a) PROVE DeregisterIsFinal'
  BY <1>7 DEF Send, Go, Gone
<1>8. ASSUME NEW a \in Apps, Take(a) PROVE DeregisterIsFinal'
  BY <1>8 DEF Take, Go
<1>9. ASSUME NEW a \in Apps, Join(a) PROVE DeregisterIsFinal'
  BY <1>9 DEF Join, Go
<1>10. ASSUME NEW a \in Apps, Check(a) PROVE DeregisterIsFinal'
  BY <1>10 DEF Check, Go
<1>11. ASSUME NEW a \in Apps, TakeRuntime(a) PROVE DeregisterIsFinal'
  BY <1>11 DEF TakeRuntime, Go
<1>12. ASSUME NEW a \in Apps, Shut(a) PROVE DeregisterIsFinal'
  BY <1>12 DEF Shut, Go
<1>13. ASSUME NEW h \in Handlers, Arrive(h) PROVE DeregisterIsFinal'
  BY <1>13 DEF Arrive
<1>14. ASSUME NEW h \in Handlers, Receive(h) PROVE DeregisterIsFinal'
  BY <1>14 DEF Receive, Step
<1>15. ASSUME NEW h \in Handlers, Fetch(h) PROVE DeregisterIsFinal'
  BY <1>15 DEF Fetch, Step
<1>16. ASSUME NEW h \in Handlers, Return(h) PROVE DeregisterIsFinal'
  BY <1>16 DEF Return, Step
<1>17. ASSUME NEW h \in Handlers, DeregisterItself(h) PROVE DeregisterIsFinal'
  BY <1>17 DEF DeregisterItself, Step
<1>18. ASSUME NEW h \in Handlers, End(h) PROVE DeregisterIsFinal'
  BY <1>18 DEF End, Step
<1>19. CASE UNCHANGED vars
  BY <1>19 DEF vars
<1> QED
  BY <1>1, <1>2, <1>3, <1>4, <1>5, <1>6, <1>7, <1>8, <1>9, <1>10, <1>11, <1>12, <1>13, <1>14, <1>15, <1>16, <1>17, <1>18, <1>19 DEF Next, NewCall, Serve, Run

\* Initially nothing is registered and nobody calls.
LEMMA InitInductive == Init => Inductive
<1> SUFFICES ASSUME Init PROVE Inductive
  OBVIOUS
<1> QED
  BY RegistryAssumption
     DEF Init, Inductive, TypeOK, Counted, Locked, Calls, Tasks, NoStrayTask, Over, DeregisterIsFinal

\* The invariant of the registry.
THEOREM Invariant == Spec => []Inductive
<1>1. Inductive /\ [Next]_vars => Inductive'
  BY TypeStep, LockedStep, CallsStep, TasksStep, StrayStep, OverStep, FinalStep DEF Inductive
<1> QED
  BY InitInductive, <1>1, PTL DEF Spec

\* Every variable keeps its type.
THEOREM TypeCorrect == Spec => []TypeOK
<1>1. Inductive => TypeOK
  BY DEF Inductive
<1> QED
  BY Invariant, <1>1, PTL

\* Once lmq_deregister_handler has returned the handler's task is over, so its
\* consumer and its user data may be freed.
THEOREM FreedIsOver == Spec => []DeregisterIsFinal
<1>1. Inductive => DeregisterIsFinal
  BY DEF Inductive
<1> QED
  BY Invariant, <1>1, PTL

\* A task that goes on can be resumed and ended, by way of its entry or of the
\* call that makes or takes it.
THEOREM WithinReach == Spec => []NoStrayTask
<1>1. Inductive => NoStrayTask
  BY DEF Inductive
<1> QED
  BY Invariant, <1>1, PTL
-----------------------------------------------------------------------------
(* Nothing ends unasked. *)

\* One thread makes all calls, and no callback answers that its handler is to
\* be deregistered, so that the runtime goes only with a call nobody overtakes.
Alone == (\A a, b \in Apps : a = b) /\ "deregister" \notin Outcomes

\* Who is being deregistered, or was aborted, was asked to end.
Asked ==
  /\ aborted \subseteq requested
  /\ \A a \in Apps : pc[a] \in {"take", "join", "check", "shut"} => arg[a].handler \in requested

\* Until its end is asked for, a task has the runtime it was, or is being, made on.
Housed ==
  \A h \in Handlers :
     \/ h \in requested
     \/ home[h] = runtime /\ runtime # 0
     \/ task[h] \in {"unborn", "done"} /\ \A a \in Apps : pc[a] = "spawn" => arg[a].handler # h

\* No task is about to deregister its own handler.
NeverDeregisters == \A h \in Handlers : task[h] # "deregister"

Requests == NeverDeregisters /\ Asked /\ Housed /\ EndsOnlyOnRequest

\* No task comes to deregister its own handler.
LEMMA NeverAskedByCallback ==
  ASSUME Alone, TypeOK, NeverDeregisters, [Next]_vars
  PROVE  NeverDeregisters'
<1> USE RegistryAssumption DEF Alone, TypeOK, NeverDeregisters, registry, app, handler, queue, history
<1>1. ASSUME NEW a \in Apps, NEW h \in Handlers, Register(a, h) PROVE NeverDeregisters'
  BY <1>1 DEF Register, Enter, GetRuntime
<1>2. ASSUME NEW a \in Apps, NEW h \in Handlers, NEW m \in Modes, Resume(a, h, m) PROVE NeverDeregisters'
  BY <1>2 DEF Resume, Enter
<1>3. ASSUME NEW a \in Apps, NEW h \in Handlers, Deregister(a, h) PROVE NeverDeregisters'
  BY <1>3 DEF Deregister, Enter, GetRuntime
<1>4. ASSUME NEW a \in Apps, Spawn(a) PROVE NeverDeregisters'
  BY <1>4 DEF Spawn, Go
<1>5. ASSUME NEW a \in Apps, Insert(a) PROVE NeverDeregisters'
  BY <1>5 DEF Insert, Go
<1>6. ASSUME NEW a \in Apps, ResumeLock(a) PROVE NeverDeregisters'
  BY <1>6 DEF ResumeLock, Go, Gone
<1>7. ASSUME NEW a \in Apps, Send(a) PROVE NeverDeregisters'
  BY <1>7 DEF Send, Go, Gone
<1>8. ASSUME NEW a \in Apps, Take(a) PROVE NeverDeregisters'
  BY <1>8 DEF Take, Go
<1>9. ASSUME NEW a \in Apps, Join(a) PROVE NeverDeregisters'
  BY <1>9 DEF Join, Go
<1>10. ASSUME NEW a \in Apps, Check(a) PROVE NeverDeregisters'
  BY <1>10 DEF Check, Go
<1>11. ASSUME NEW a \in Apps, TakeRuntime(a) PROVE NeverDeregisters'
  BY <1>11 DEF TakeRuntime, Go
<1>12. ASSUME NEW a \in Apps, Shut(a) PROVE NeverDeregisters'
  BY <1>12 DEF Shut, Go
<1>13. ASSUME NEW h \in Handlers, Arrive(h) PROVE NeverDeregisters'
  BY <1>13 DEF Arrive
<1>14. ASSUME NEW h \in Handlers, Receive(h) PROVE NeverDeregisters'
  BY <1>14 DEF Receive, Step
<1>15. ASSUME NEW h \in Handlers, Fetch(h) PROVE NeverDeregisters'
  BY <1>15 DEF Fetch, Step
<1>16. ASSUME NEW h \in Handlers, Return(h) PROVE NeverDeregisters'
  <2>1. task'[h] \in {"loop", "paused"} /\ \A g \in Handlers \ {h} : task'[g] = task[g]
    BY <1>16 DEF Return, Step
  <2> QED
    BY <2>1
<1>17. ASSUME NEW h \in Handlers, DeregisterItself(h) PROVE NeverDeregisters'
  BY <1>17 DEF DeregisterItself, Step
<1>18. ASSUME NEW h \in Handlers, End(h) PROVE NeverDeregisters'
  BY <1>18 DEF End, Step
<1>19. CASE UNCHANGED vars
  BY <1>19 DEF vars
<1> QED
  BY <1>1, <1>2, <1>3, <1>4, <1>5, <1>6, <1>7, <1>8, <1>9, <1>10, <1>11, <1>12, <1>13, <1>14, <1>15, <1>16, <1>17, <1>18, <1>19 DEF Next, NewCall, Serve, Run

\* Only a deregistration aborts, and what it is about was asked to end.
LEMMA AskedStep ==
  ASSUME TypeOK, Asked, [Next]_vars
  PROVE  Asked'
<1> USE RegistryAssumption DEF TypeOK, Asked, registry, app, handler, queue, history
<1>1. ASSUME NEW a \in Apps, NEW h \in Handlers, Register(a, h) PROVE Asked'
  BY <1>1 DEF Register, Enter, GetRuntime
<1>2. ASSUME NEW a \in Apps, NEW h \in Handlers, NEW m \in Modes, Resume(a, h, m) PROVE Asked'
  BY <1>2 DEF Resume, Enter
<1>3. ASSUME NEW a \in Apps, NEW h \in Handlers, Deregister(a, h) PROVE Asked'
  BY <1>3 DEF Deregister, Enter, GetRuntime
<1>4. ASSUME NEW a \in Apps, Spawn(a) PROVE Asked'
  BY <1>4 DEF Spawn, Go
<1>5. ASSUME NEW a \in Apps, Insert(a) PROVE Asked'
  BY <1>5 DEF Insert, Go
<1>6. ASSUME NEW a \in Apps, ResumeLock(a) PROVE Asked'
  BY <1>6 DEF ResumeLock, Go, Gone
<1>7. ASSUME NEW a \in Apps, Send(a) PROVE Asked'
  <2>1. /\ pc' = [pc EXCEPT ![a] = "idle"] /\ \A b \in Apps \ {a} : arg'[b] = arg[b]
        /\ aborted' = aborted /\ requested' = requested
    BY <1>7 DEF Send, Go
  <2> QED
    BY <2>1
<1>8. ASSUME NEW a \in Apps, Take(a) PROVE Asked'
  BY <1>8 DEF Take, Go
<1>9. ASSUME NEW a \in Apps, Join(a) PROVE Asked'
  BY <1>9 DEF Join, Go
<1>10. ASSUME NEW a \in Apps, Check(a) PROVE Asked'
  BY <1>10 DEF Check, Go
<1>11. ASSUME NEW a \in Apps, TakeRuntime(a) PROVE Asked'
  BY <1>11 DEF TakeRuntime, Go
<1>12. ASSUME NEW a \in Apps, Shut(a) PROVE Asked'
  BY <1>12 DEF Shut, Go
<1>13. ASSUME NEW h \in Handlers, Arrive(h) PROVE Asked'
  BY <1>13 DEF Arrive
<1>14. ASSUME NEW h \in Handlers, Receive(h) PROVE Asked'
  BY <1>14 DEF Receive, Step
<1>15. ASSUME NEW h \in Handlers, Fetch(h) PROVE Asked'
  BY <1>15 DEF Fetch, Step
<1>16. ASSUME NEW h \in Handlers, Return(h) PROVE Asked'
  BY <1>16 DEF Return, Step
<1>17. ASSUME NEW h \in Handlers, DeregisterItself(h) PROVE Asked'
  BY <1>17 DEF DeregisterItself, Step
<1>18. ASSUME NEW h \in Handlers, End(h) PROVE Asked'
  BY <1>18 DEF End, Step
<1>19. CASE UNCHANGED vars
  BY <1>19 DEF vars
<1> QED
  BY <1>1, <1>2, <1>3, <1>4, <1>5, <1>6, <1>7, <1>8, <1>9, <1>10, <1>11, <1>12, <1>13, <1>14, <1>15, <1>16, <1>17, <1>18, <1>19 DEF Next, NewCall, Serve, Run

\* A runtime goes when no task is left on it and none is being made; one that is
\* built replaces none.
LEMMA HousedStep ==
  ASSUME Alone, TypeOK, NoStrayTask, NeverDeregisters, Housed, [Next]_vars
  PROVE  Housed'
<1> USE RegistryAssumption DEF TypeOK, Housed, registry, app, handler, queue, history
<1>1. ASSUME NEW a \in Apps, NEW h \in Handlers, Register(a, h) PROVE Housed'
  <2>1. /\ home' = [home EXCEPT ![h] = runtime'] /\ requested' = requested /\ task' = task
        /\ pc' = [pc EXCEPT ![a] = "spawn"] /\ arg'[a].handler = h /\ pc[a] = "idle"
    BY <1>1 DEF Register, Enter
  <2>2. runtime' \in Nat /\ runtime' # 0 /\ (runtime # 0 => runtime' = runtime)
    BY <1>1 DEF Register, GetRuntime
  <2>3. ASSUME NEW g \in Handlers, g \notin requested' PROVE
           \/ home'[g] = runtime'
           \/ task'[g] \in {"unborn", "done"} /\ \A b \in Apps : pc'[b] = "spawn" => arg'[b].handler # g
    BY <2>1, <2>2, <2>3 DEF Alone
  <2> QED
    BY <2>2, <2>3
<1>2. ASSUME NEW a \in Apps, NEW h \in Handlers, NEW m \in Modes, Resume(a, h, m) PROVE Housed'
  BY <1>2 DEF Resume, Enter
<1>3. ASSUME NEW a \in Apps, NEW h \in Handlers, Deregister(a, h) PROVE Housed'
  <2>1. /\ requested \subseteq requested' /\ UNCHANGED <<home, task>>
        /\ pc' = [pc EXCEPT ![a] = "take"] /\ pc[a] = "idle"
    BY <1>3 DEF Deregister, Enter
  <2>2. runtime' \in Nat /\ runtime' # 0 /\ (runtime # 0 => runtime' = runtime)
    BY <1>3 DEF Deregister, GetRuntime
  <2>3. ASSUME NEW g \in Handlers, g \notin requested' PROVE
           \/ home'[g] = runtime'
           \/ task'[g] \in {"unborn", "done"} /\ \A b \in Apps : pc'[b] = "spawn" => arg'[b].handler # g
    BY <2>1, <2>2, <2>3 DEF Alone
  <2> QED
    BY <2>2, <2>3
<1>4. ASSUME NEW a \in Apps, Spawn(a) PROVE Housed'
  <2>1. /\ pc[a] = "spawn" /\ pc' = [pc EXCEPT ![a] = "insert"] /\ UNCHANGED <<arg, runtime, requested, home>>
        /\ \A h \in Handlers : task'[h] = task[h] \/ h = arg[a].handler
    BY <1>4 DEF Spawn, Go
  <2> QED
    BY <2>1 DEF Alone
<1>5. ASSUME NEW a \in Apps, Insert(a) PROVE Housed'
  BY <1>5 DEF Insert, Go
<1>6. ASSUME NEW a \in Apps, ResumeLock(a) PROVE Housed'
  BY <1>6 DEF ResumeLock, Go, Gone
<1>7. ASSUME NEW a \in Apps, Send(a) PROVE Housed'
  <2>1. /\ pc' = [pc EXCEPT ![a] = "idle"] /\ \A b \in Apps \ {a} : arg'[b] = arg[b]
        /\ UNCHANGED <<requested, home, runtime, task>>
    BY <1>7 DEF Send, Go
  <2> QED
    BY <2>1
<1>8. ASSUME NEW a \in Apps, Take(a) PROVE Housed'
  BY <1>8 DEF Take, Go
<1>9. ASSUME NEW a \in Apps, Join(a) PROVE Housed'
  BY <1>9 DEF Join, Go
<1>10. ASSUME NEW a \in Apps, Check(a) PROVE Housed'
  BY <1>10 DEF Check, Go
<1>11. ASSUME NEW a \in Apps, TakeRuntime(a) PROVE Housed'
  <2>1. pc[a] = "check" /\ tasks = {} /\ pc' = [pc EXCEPT ![a] = "shut"] /\ UNCHANGED <<requested, home, task, arg>>
    BY <1>11 DEF TakeRuntime, Go
  <2>2. \A h \in Handlers : task[h] \in {"unborn", "done"}
    BY <2>1 DEF Alone, NoStrayTask
  <2>3. \A b \in Apps : pc'[b] # "spawn"
    BY <2>1 DEF Alone
  <2> QED
    BY <2>1, <2>2, <2>3
<1>12. ASSUME NEW a \in Apps, Shut(a) PROVE Housed'
  BY <1>12 DEF Shut, Go
<1>13. ASSUME NEW h \in Handlers, Arrive(h) PROVE Housed'
  BY <1>13 DEF Arrive
<1>14. ASSUME NEW h \in Handlers, Receive(h) PROVE Housed'
  BY <1>14 DEF Receive, Step
<1>15. ASSUME NEW h \in Handlers, Fetch(h) PROVE Housed'
  BY <1>15 DEF Fetch, Step
<1>16. ASSUME NEW h \in Handlers, Return(h) PROVE Housed'
  BY <1>16 DEF Return, Step
<1>17. ASSUME NEW h \in Handlers, DeregisterItself(h) PROVE Housed'
  BY <1>17 DEF DeregisterItself, Step, NeverDeregisters
<1>18. ASSUME NEW h \in Handlers, End(h) PROVE Housed'
  BY <1>18 DEF End, Step
<1>19. CASE UNCHANGED vars
  BY <1>19 DEF vars
<1> QED
  BY <1>1, <1>2, <1>3, <1>4, <1>5, <1>6, <1>7, <1>8, <1>9, <1>10, <1>11, <1>12, <1>13, <1>14, <1>15, <1>16, <1>17, <1>18, <1>19 DEF Next, NewCall, Serve, Run

\* A task ends aborted, on a runtime that is gone, or not at all.
LEMMA EndsStep ==
  ASSUME TypeOK, NeverDeregisters, Asked, Housed, EndsOnlyOnRequest, [Next]_vars
  PROVE  EndsOnlyOnRequest'
<1> USE RegistryAssumption DEF TypeOK, EndsOnlyOnRequest, registry, app, handler, queue, history
<1>1. ASSUME NEW a \in Apps, NEW h \in Handlers, Register(a, h) PROVE EndsOnlyOnRequest'
  BY <1>1 DEF Register, Enter, GetRuntime
<1>2. ASSUME NEW a \in Apps, NEW h \in Handlers, NEW m \in Modes, Resume(a, h, m) PROVE EndsOnlyOnRequest'
  BY <1>2 DEF Resume, Enter
<1>3. ASSUME NEW a \in Apps, NEW h \in Handlers, Deregister(a, h) PROVE EndsOnlyOnRequest'
  BY <1>3 DEF Deregister, Enter, GetRuntime
<1>4. ASSUME NEW a \in Apps, Spawn(a) PROVE EndsOnlyOnRequest'
  <2>1. pc[a] = "spawn" /\ requested' = requested /\ \A h \in Handlers : task'[h] = task[h] \/ h = arg[a].handler
    BY <1>4 DEF Spawn, Go
  <2>2. task'[arg[a].handler] = "done" /\ arg[a].handler \in Handlers => home[arg[a].handler] # runtime
    BY <1>4 DEF Spawn
  <2>3. ASSUME NEW h \in Handlers, task'[h] = "done" PROVE h \in requested'
    BY <2>1, <2>2, <2>3 DEF Housed
  <2> QED
    BY <2>3
<1>5. ASSUME NEW a \in Apps, Insert(a) PROVE EndsOnlyOnRequest'
  BY <1>5 DEF Insert, Go
<1>6. ASSUME NEW a \in Apps, ResumeLock(a) PROVE EndsOnlyOnRequest'
  BY <1>6 DEF ResumeLock, Go, Gone
<1>7. ASSUME NEW a \in Apps, Send(a) PROVE EndsOnlyOnRequest'
  BY <1>7 DEF Send
<1>8. ASSUME NEW a \in Apps, Take(a) PROVE EndsOnlyOnRequest'
  BY <1>8 DEF Take, Go
<1>9. ASSUME NEW a \in Apps, Join(a) PROVE EndsOnlyOnRequest'
  BY <1>9 DEF Join, Go
<1>10. ASSUME NEW a \in Apps, Check(a) PROVE EndsOnlyOnRequest'
  BY <1>10 DEF Check, Go
<1>11. ASSUME NEW a \in Apps, TakeRuntime(a) PROVE EndsOnlyOnRequest'
  BY <1>11 DEF TakeRuntime, Go
<1>12. ASSUME NEW a \in Apps, Shut(a) PROVE EndsOnlyOnRequest'
  BY <1>12 DEF Shut, Go
<1>13. ASSUME NEW h \in Handlers, Arrive(h) PROVE EndsOnlyOnRequest'
  BY <1>13 DEF Arrive
<1>14. ASSUME NEW h \in Handlers, Receive(h) PROVE EndsOnlyOnRequest'
  BY <1>14 DEF Receive, Step
<1>15. ASSUME NEW h \in Handlers, Fetch(h) PROVE EndsOnlyOnRequest'
  BY <1>15 DEF Fetch, Step
<1>16. ASSUME NEW h \in Handlers, Return(h) PROVE EndsOnlyOnRequest'
  BY <1>16 DEF Return, Step
<1>17. ASSUME NEW h \in Handlers, DeregisterItself(h) PROVE EndsOnlyOnRequest'
  BY <1>17 DEF DeregisterItself, Step, NeverDeregisters
<1>18. ASSUME NEW h \in Handlers, End(h) PROVE EndsOnlyOnRequest'
  <2>1. h \in requested
    BY <1>18 DEF End, Step, Doomed, Asked, Housed
  <2> QED
    BY <1>18, <2>1 DEF End, Step
<1>19. CASE UNCHANGED vars
  BY <1>19 DEF vars
<1> QED
  BY <1>1, <1>2, <1>3, <1>4, <1>5, <1>6, <1>7, <1>8, <1>9, <1>10, <1>11, <1>12, <1>13, <1>14, <1>15, <1>16, <1>17, <1>18, <1>19 DEF Next, NewCall, Serve, Run

\* "A callback that will be called whenever a new unclaimed message is
\* available": no handler ends unless the application asked for its end, even
\* as runtimes go and are built again with the last and the next handler.
THEOREM EndsAreRequested ==
  ASSUME Alone
  PROVE  Spec => []EndsOnlyOnRequest
<1>1. Init => Requests
  BY RegistryAssumption DEF Init, Requests, NeverDeregisters, Asked, Housed, EndsOnlyOnRequest
<1>2. Inductive /\ Requests /\ [Next]_vars => Requests'
  BY NeverAskedByCallback, AskedStep, HousedStep, EndsStep DEF Inductive, Requests
<1>3. Requests => EndsOnlyOnRequest
  BY DEF Requests
<1> QED
  BY <1>1, <1>2, <1>3, Invariant, PTL DEF Spec

=============================================================================
