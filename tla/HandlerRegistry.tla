-------------------------- MODULE HandlerRegistry --------------------------
(***************************************************************************)
(* The registry of message handlers of the C API (lmq-capi, lmq_tokio.rs): *)
(* application threads register, resume and deregister handlers, each of   *)
(* which is a task on a tokio runtime that is built with the first handler *)
(* and shut down with the last.  The registry has one lock, LMQ_WAIT_TASKS.*)
(*                                                                         *)
(* Of tokio is modelled what this code uses: abort and the shutdown of a   *)
(* runtime end a task where it awaits, never inside a poll; a channel of   *)
(* one resume signal; a runtime that is dropped inside a task panics, once *)
(* its workers have been told to stop, and takes that task with it; and    *)
(* who waits for a task learns of its panic.  Of Deno, that a callback     *)
(* runs on the event loop of the thread that made it while the caller      *)
(* waits.                                                                  *)
(***************************************************************************)
EXTENDS Integers, FiniteSets

CONSTANTS Apps,          \* application threads
          Handlers,      \* the handlers that are ever registered, one id each
          Outcomes,      \* what the callbacks return
          Starts,        \* how a handler starts: "paused", "awaiting" a message
          Modes,         \* how the application resumes: "wait", "try"
          Careful,       \* the calls made only about a handler that is paused
          OnEventLoop,   \* the callbacks run on the application's own thread
          MaxMessages,   \* bound: messages that arrive for one handler
          MaxRuntimes,   \* bound: runtimes that are ever built
          Nobody

ASSUME RegistryAssumption ==
  /\ Outcomes \subseteq {"continue", "pause", "deregister"}
  /\ Starts \subseteq {"paused", "awaiting"}
  /\ Modes \subseteq {"wait", "try"}
  /\ Careful \subseteq {"resume", "deregister"}
  /\ OnEventLoop \in BOOLEAN
  /\ MaxMessages \in Nat /\ MaxRuntimes \in Nat
  /\ Nobody \notin Apps \union Handlers

VARIABLES
  runtime,     \* TOKIO_RT: the number of the runtime, 0 for None
  built,       \* how many runtimes were built
  tasks,       \* the keys of LMQ_WAIT_TASKS
  lock,        \* the application thread that holds LMQ_WAIT_TASKS over a step
  pc,          \* where each application thread is
  arg,         \* the handler its call is about, and the mode of a resume
  task,        \* where each handler's task is
  home,        \* the runtime each task was spawned on
  mode,        \* resume_mode of each task
  signal,      \* the buffered resume signal, Nobody for none
  aborted,     \* the handlers whose task was told to abort
  panicked,    \* those whose task ended with a panic
  mail,        \* how many messages wait for each handler's consumer
  arrived,     \* how many messages arrived for it so far
  registered,  \* history: the handlers whose id was returned
  requested,   \* history: those that somebody asked to end
  freed        \* history: those whose deregistration returned

registry == <<runtime, built, tasks, lock>>
app      == <<pc, arg>>
handler  == <<task, home, mode, signal, aborted, panicked>>
queue    == <<mail, arrived>>
history  == <<registered, requested, freed>>
vars     == <<registry, app, handler, queue, history>>

TypeOK ==
  /\ runtime \in 0 .. built /\ built \in 0 .. MaxRuntimes
  /\ tasks \subseteq Handlers
  /\ lock \in Apps \union {Nobody}
  /\ pc \in [Apps -> {"idle", "spawn", "insert", "resume", "send",
                      "take", "join", "check", "shut", "aborted"}]
  /\ arg \in [Apps -> [handler : Handlers \union {Nobody}, mode : {"wait", "try"}]]
  /\ task \in [Handlers -> {"unborn", "paused", "loop", "awaiting", "callback",
                            "deregister", "done"}]
  /\ home \in [Handlers -> 0 .. MaxRuntimes]
  /\ mode \in [Handlers -> {"wait", "try"}]
  /\ signal \in [Handlers -> {"wait", "try", Nobody}]
  /\ aborted \subseteq Handlers /\ panicked \subseteq Handlers
  /\ mail \in [Handlers -> 0 .. MaxMessages]
  /\ arrived \in [Handlers -> 0 .. MaxMessages]
  /\ registered \subseteq Handlers /\ requested \subseteq Handlers /\ freed \subseteq Handlers

Init ==
  /\ runtime = 0 /\ built = 0
  /\ tasks = {}
  /\ lock = Nobody
  /\ pc = [a \in Apps |-> "idle"]
  /\ arg = [a \in Apps |-> [handler |-> Nobody, mode |-> "wait"]]
  /\ task = [h \in Handlers |-> "unborn"]
  /\ home = [h \in Handlers |-> 0]
  /\ mode = [h \in Handlers |-> "wait"]
  /\ signal = [h \in Handlers |-> Nobody]
  /\ aborted = {} /\ panicked = {}
  /\ mail = [h \in Handlers |-> 0]
  /\ arrived = [h \in Handlers |-> 0]
  /\ registered = {} /\ requested = {} /\ freed = {}

-----------------------------------------------------------------------------
(* The runtime. *)

\* A call to TOKIO_RT waits while a runtime is being shut down, then finds the
\* runtime or builds one.
RuntimeBusy == \E a \in Apps : pc[a] = "shut"

GetRuntime ==
  /\ ~RuntimeBusy
  /\ IF runtime # 0
       THEN UNCHANGED <<runtime, built>>
       ELSE built < MaxRuntimes /\ built' = built + 1 /\ runtime' = built'

\* A task is inside a poll: it has not come to an await.
InPoll(h) == task[h] \in {"loop", "callback", "deregister"}

\* A task ends at an await once it was aborted or its runtime is shut down.
Doomed(h) == h \in aborted \/ home[h] # runtime

-----------------------------------------------------------------------------
(* Application threads. *)

Enter(a, h, m, stage) ==
  /\ pc[a] = "idle"
  /\ pc' = [pc EXCEPT ![a] = stage]
  /\ arg' = [arg EXCEPT ![a] = [handler |-> h, mode |-> m]]

Go(a, from, to) ==
  /\ pc[a] = from
  /\ pc' = [pc EXCEPT ![a] = to]
  /\ arg' = IF to = "idle" THEN [arg EXCEPT ![a] = [handler |-> Nobody, mode |-> "wait"]]
                           ELSE arg

\* lmq_register_handler: a new id and a handle to the runtime, ...
Register(a, h) ==
  /\ task[h] = "unborn"
  /\ \A b \in Apps : arg[b].handler # h
  /\ GetRuntime
  /\ Enter(a, h, "wait", "spawn")
  /\ home' = [home EXCEPT ![h] = runtime']
  /\ UNCHANGED <<tasks, lock, task, mode, signal, aborted, panicked, queue, history>>

\* ... the task, which is cancelled at once if that runtime is gone by now, ...
Spawn(a) ==
  LET h == arg[a].handler IN
  /\ Go(a, "spawn", "insert")
  /\ \E start \in Starts :
       task' = [task EXCEPT ![h] = IF home[h] = runtime THEN start ELSE "done"]
  /\ UNCHANGED <<registry, home, mode, signal, aborted, panicked, queue, history>>

\* ... and its entry in the registry, made last.
Insert(a) ==
  /\ lock = Nobody
  /\ Go(a, "insert", "idle")
  /\ tasks' = tasks \union {arg[a].handler}
  /\ registered' = registered \union {arg[a].handler}
  /\ UNCHANGED <<runtime, built, lock, handler, queue, requested, freed>>

\* A handler in a callback that was called when it was resumed is not paused.
Allowed(call, h) == call \in Careful => task[h] = "paused" /\ signal[h] = Nobody

\* lmq_resume_handler sends its signal with the registry locked.
Resume(a, h, m) ==
  /\ h \in registered \ freed
  /\ Allowed("resume", h)
  /\ Enter(a, h, m, "resume")
  /\ UNCHANGED <<registry, handler, queue, history>>

Gone(h) == h \notin tasks \/ task[h] = "done"

\* The channel is full: blocking_send waits, and the registry stays locked.
ResumeLock(a) ==
  LET h == arg[a].handler IN
  /\ lock = Nobody
  /\ Go(a, "resume", "send")
  /\ ~Gone(h) /\ signal[h] # Nobody
  /\ lock' = a
  /\ UNCHANGED <<runtime, built, tasks, handler, queue, history>>

\* The signal is buffered, or the handler is no longer there.
Send(a) ==
  LET h == arg[a].handler IN
  /\ \/ lock = Nobody /\ Go(a, "resume", "idle")
     \/ lock = a /\ Go(a, "send", "idle")
  /\ Gone(h) \/ signal[h] = Nobody
  /\ signal' = IF Gone(h) THEN signal ELSE [signal EXCEPT ![h] = arg[a].mode]
  /\ lock' = Nobody
  /\ UNCHANGED <<runtime, built, tasks, task, home, mode, aborted, panicked, queue, history>>

\* lmq_deregister_handler gets a runtime to block on, ...
Deregister(a, h) ==
  /\ h \in registered \ freed
  /\ Allowed("deregister", h)
  /\ GetRuntime
  /\ Enter(a, h, "wait", "take")
  /\ requested' = requested \union {h}
  /\ UNCHANGED <<tasks, lock, handler, queue, registered, freed>>

\* Mutant: the task is aborted but not waited for.
Take_DoesNotWait(a) ==
  LET h == arg[a].handler IN
  /\ lock = Nobody
  /\ Go(a, "take", "check")
  /\ lock' = a
  /\ tasks' = tasks \ {h}
  /\ aborted' = IF h \in tasks THEN aborted \union {h} ELSE aborted
  /\ UNCHANGED <<runtime, built, task, home, mode, signal, panicked, queue, history>>

\* Mutant: the task is waited for but not aborted.
Take_DoesNotAbort(a) ==
  LET h == arg[a].handler IN
  /\ lock = Nobody
  /\ Go(a, "take", IF h \in tasks THEN "join" ELSE "check")
  /\ lock' = a
  /\ tasks' = tasks \ {h}
  /\ UNCHANGED <<runtime, built, handler, queue, history>>

\* ... locks the registry for all that follows, takes the entry out, ...
Take(a) ==
  LET h == arg[a].handler IN
  /\ lock = Nobody
  /\ Go(a, "take", IF h \in tasks THEN "join" ELSE "check")
  /\ lock' = a
  /\ tasks' = tasks \ {h}
  /\ aborted' = IF h \in tasks THEN aborted \union {h} ELSE aborted
  /\ UNCHANGED <<runtime, built, task, home, mode, signal, panicked, queue, history>>

\* ... waits for the aborted task to end, whose panic it would resume, on which
\* the function called from C aborts the process ...
Join(a) ==
  LET h == arg[a].handler IN
  /\ \/ Go(a, "join", "check") /\ h \notin panicked /\ UNCHANGED lock
     \/ Go(a, "join", "aborted") /\ h \in panicked /\ lock' = Nobody
  /\ task[h] = "done"
  /\ UNCHANGED <<runtime, built, tasks, handler, queue, history>>

\* ... and returns, unless the registry is empty and there is a runtime.
Check(a) ==
  /\ tasks # {} \/ runtime = 0
  /\ Go(a, "check", "idle")
  /\ lock' = Nobody
  /\ freed' = freed \union {arg[a].handler}
  /\ UNCHANGED <<runtime, built, tasks, handler, queue, registered, requested>>

\* Mutant: the runtime goes although handlers are registered.
TakeRuntime_Always(a) ==
  /\ runtime # 0
  /\ Go(a, "check", "shut")
  /\ runtime' = 0
  /\ UNCHANGED <<built, tasks, lock, handler, queue, history>>

\* Then the runtime is taken ...
TakeRuntime(a) ==
  /\ tasks = {} /\ runtime # 0
  /\ Go(a, "check", "shut")
  /\ runtime' = 0
  /\ UNCHANGED <<built, tasks, lock, handler, queue, history>>

\* ... and its shutdown waits until none of its tasks is inside a poll.
Shut(a) ==
  /\ Go(a, "shut", "idle")
  /\ \A h \in Handlers : home[h] = built => ~InPoll(h)
  /\ lock' = Nobody
  /\ freed' = freed \union {arg[a].handler}
  /\ UNCHANGED <<runtime, built, tasks, handler, queue, registered, requested>>

-----------------------------------------------------------------------------
(* Handlers. *)

\* A message is pushed for the handler's consumer.
Arrive(h) ==
  /\ arrived[h] < MaxMessages
  /\ arrived' = [arrived EXCEPT ![h] = @ + 1]
  /\ mail' = [mail EXCEPT ![h] = @ + 1]
  /\ UNCHANGED <<registry, app, handler, history>>

Step(h, from, to) == task[h] = from /\ task' = [task EXCEPT ![h] = to]

\* Mutant: the mode asked for is ignored.
Receive_KeepsMode(h) ==
  /\ signal[h] # Nobody
  /\ Step(h, "paused", "loop")
  /\ signal' = [signal EXCEPT ![h] = Nobody]
  /\ UNCHANGED <<registry, app, home, mode, aborted, panicked, queue, history>>

\* The paused task receives its signal, which also ends a start in pause.
Receive(h) ==
  /\ signal[h] # Nobody
  /\ Step(h, "paused", "loop")
  /\ mode' = [mode EXCEPT ![h] = signal[h]]
  /\ signal' = [signal EXCEPT ![h] = Nobody]
  /\ UNCHANGED <<registry, app, home, aborted, panicked, queue, history>>

\* The consumer's next or try_next: the callback is called with a message, or
\* with NULL when it was only to try; else the task awaits a message.
Fetch(h) ==
  /\ \/ Step(h, "loop", IF mail[h] = 0 /\ mode[h] = "wait" THEN "awaiting" ELSE "callback")
     \/ mail[h] > 0 /\ Step(h, "awaiting", "callback")
  /\ mail' = [mail EXCEPT ![h] = IF @ = 0 THEN 0 ELSE @ - 1]
  /\ UNCHANGED <<registry, app, home, mode, signal, aborted, panicked, arrived, history>>

\* The callback returns; one on the event loop waits for the application's call.
Return(h) ==
  /\ OnEventLoop => \A a \in Apps : pc[a] = "idle"
  /\ \E outcome \in Outcomes :
       /\ Step(h, "callback", CASE outcome = "continue"   -> "loop"
                                [] outcome = "pause"      -> "paused"
                                [] outcome = "deregister" -> "deregister")
       /\ requested' = IF outcome = "deregister" THEN requested \union {h} ELSE requested
  /\ UNCHANGED <<registry, app, home, mode, signal, aborted, panicked, queue, registered, freed>>

\* The handler deregisters itself, inside its poll: a lock it cannot get blocks
\* its worker thread.  With the last entry the runtime goes; dropping it here
\* panics, which ends the task where the break would.
DeregisterItself(h) ==
  /\ lock = Nobody
  /\ Step(h, "deregister", "done")
  /\ tasks' = tasks \ {h}
  /\ IF tasks' = {} /\ runtime # 0
       THEN runtime' = 0 /\ panicked' = panicked \union {h}
       ELSE UNCHANGED <<runtime, panicked>>
  /\ UNCHANGED <<built, lock, app, home, mode, signal, aborted, queue, history>>

\* The task ends where it awaits.
End(h) ==
  /\ Doomed(h)
  /\ \E from \in {"paused", "awaiting"} : Step(h, from, "done")
  /\ UNCHANGED <<registry, app, home, mode, signal, aborted, panicked, queue, history>>

-----------------------------------------------------------------------------

\* The process is no more.
Aborted == \E a \in Apps : pc[a] = "aborted"

\* What an application thread does inside a call, and a task by itself.
Serve(a) ==
  /\ ~Aborted
  /\ \/ Spawn(a) \/ Insert(a) \/ ResumeLock(a) \/ Send(a) \/ Take(a)
     \/ Join(a) \/ Check(a) \/ TakeRuntime(a) \/ Shut(a)

Run(h) == ~Aborted /\ (Receive(h) \/ Fetch(h) \/ Return(h) \/ DeregisterItself(h) \/ End(h))

\* The application makes a call.
NewCall == \E a \in Apps : \E h \in Handlers :
  Register(a, h) \/ Deregister(a, h) \/ \E m \in Modes : Resume(a, h, m)

Next ==
  \/ ~Aborted /\ (NewCall \/ \E h \in Handlers : Arrive(h))
  \/ \E a \in Apps : Serve(a)
  \/ \E h \in Handlers : Run(h)

Spec == Init /\ [][Next]_vars

\* Threads and tasks that can go on do so, the registry's lock being fair in
\* the long run; callbacks return.  No call and no message has to come.
Fairness ==
  /\ \A a \in Apps : SF_vars(Serve(a))
  /\ \A h \in Handlers : SF_vars(Run(h))

FairSpec == Spec /\ Fairness

-----------------------------------------------------------------------------

\* Once deregistration has returned, with either result, the handler's task is
\* over: the application may free the consumer and the user data, which the
\* bindings do at once.
DeregisterIsFinal == \A h \in freed : task[h] = "done"

\* "A callback that will be called whenever a new unclaimed message is
\* available": a handler ends only when somebody asked for it.
EndsOnlyOnRequest == \A h \in Handlers : task[h] = "done" => h \in requested

\* A task that has not ended has an entry in the registry, by which it can be
\* resumed and ended, except while the call that makes or takes it is running.
NoStrayTask ==
  \A h \in Handlers :
     \/ task[h] \in {"unborn", "done"}
     \/ h \in tasks
     \/ \E a \in Apps : arg[a].handler = h /\ pc[a] \in {"insert", "join"}

\* Deregistration is answered by "TRUE" or "FALSE", not by the end of the process.
NeverAborts == ~Aborted

\* Every call of the C API returns.
CallsReturn == \A a \in Apps : pc[a] # "idle" ~> pc[a] = "idle"

\* "Returns TRUE if a handler was successfully deregistered": it does return.
DeregisterReturns == \A a \in Apps : pc[a] = "take" ~> pc[a] = "idle"

\* A handler that was resumed calls back, with a message if it waits for one.
ResumedCallsBack ==
  \A h \in Handlers :
     (signal[h] # Nobody /\ (signal[h] = "wait" => mail[h] > 0))
        ~> (task[h] = "callback" \/ h \in requested)
=============================================================================
