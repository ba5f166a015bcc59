------------------------------ MODULE Startup ------------------------------
(***************************************************************************)
(* Processes that start in one project directory (init of tokio.rs,        *)
(* combined.rs, iox2.rs and ws_gateway.rs): they share the configuration   *)
(* file of iceoryx2, which the first one writes, the nodes its services    *)
(* admit, the gateway's port, and each other's buffers.                    *)
(*                                                                         *)
(* What one process does between init and close is in Lifecycle.  A thread *)
(* whose attempt failed or was replaced keeps its node until it has ended. *)
(* Of iceoryx2 is modelled that a service admits a number of nodes, that a *)
(* page is sent when every subscriber has room, and that what a dead       *)
(* process held is freed.  A file that is not yet written is rejected.     *)
(***************************************************************************)
EXTENDS Integers, FiniteSets, FiniteSetsExt

CONSTANTS Procs,        \* processes
          Limits,       \* how many nodes the services admit
          BufferSize,   \* pages that a subscriber's buffer holds
          MaxCrashes,   \* bound: processes that are killed
          None

ASSUME StartupAssumption ==
  /\ IsFiniteSet(Procs) /\ None \notin Procs
  /\ Limits \subseteq Nat /\ BufferSize \in Nat \ {0} /\ MaxCrashes \in Nat

VARIABLES
  gateways,  \* the processes built with the gateway; never changes
  limit,     \* how many nodes the services admit; never changes
  stage,     \* where each process is; "off" and "panicked" if it is none
  thread,    \* the thread its init is about: "recv" or "send"
  recv,      \* does IOX2_RECV_SENDER_TX lead to a thread with a node?
  send,      \* likewise IOX2_SEND_SENDER_TX
  leaving,   \* nodes of its threads that were replaced and have not yet ended
  port,      \* who listens on the gateway's port
  file,      \* the configuration: "none", "part" of it, or "whole"
  buffer,    \* the pages in the buffer of its subscriber
  sending,   \* its application is in send_stream
  failed,    \* history: processes an attempt of which failed
  crashes,   \* how many were killed
  cut        \* history: one was killed while it wrote the file

node == <<recv, send, leaving>>
vars == <<gateways, limit, stage, thread, node, port, file, buffer, sending, failed, crashes, cut>>

Starting == {"check", "create", "fill", "read", "join", "port"}
Down == {"off", "panicked"}

TypeOK ==
  /\ gateways \subseteq Procs /\ limit \in Limits
  /\ stage \in [Procs -> {"running"} \union Starting \union Down]
  /\ thread \in [Procs -> {"recv", "send"}]
  /\ recv \in [Procs -> BOOLEAN] /\ send \in [Procs -> BOOLEAN]
  /\ leaving \in [Procs -> Nat]
  /\ port \in Procs \union {None}
  /\ file \in {"none", "part", "whole"}
  /\ buffer \in [Procs -> 0 .. BufferSize]
  /\ sending \subseteq Procs /\ failed \subseteq Procs
  /\ crashes \in 0 .. MaxCrashes /\ cut \in BOOLEAN

Init ==
  /\ gateways \in SUBSET Procs /\ limit \in Limits
  /\ stage = [p \in Procs |-> "off"] /\ thread = [p \in Procs |-> "recv"]
  /\ recv = [p \in Procs |-> FALSE] /\ send = [p \in Procs |-> FALSE]
  /\ leaving = [p \in Procs |-> 0]
  /\ port = None
  /\ file \in {"none", "whole"}
  /\ buffer = [p \in Procs |-> 0]
  /\ sending = {} /\ failed = {}
  /\ crashes = 0 /\ cut = FALSE

Step(p, from, to) == stage[p] = from /\ stage' = [stage EXCEPT ![p] = to]

-----------------------------------------------------------------------------
(* init, for the receiving thread and then for the sending one. *)

Begin(p) ==
  /\ stage[p] \in Down /\ stage' = [stage EXCEPT ![p] = "check"]
  /\ thread' = [thread EXCEPT ![p] = "recv"]
  /\ failed' = failed \ {p}
  /\ UNCHANGED <<gateways, limit, node, port, file, buffer, sending, crashes, cut>>

\* Is there a configuration file?
Check(p) ==
  /\ IF file = "none" THEN Step(p, "check", "create") ELSE Step(p, "check", "read")
  /\ UNCHANGED <<gateways, limit, thread, node, port, file, buffer, sending, failed, crashes, cut>>

\* std::fs::write opens the file, which makes it empty, and fills it.
Create(p) ==
  /\ Step(p, "create", "fill")
  /\ file' = "part"
  /\ UNCHANGED <<gateways, limit, thread, node, port, buffer, sending, failed, crashes, cut>>

\* Mutant: what was written stays in a buffer of the process.
Fill_Unflushed(p) ==
  /\ Step(p, "fill", "read")
  /\ UNCHANGED <<gateways, limit, thread, node, port, file, buffer, sending, failed, crashes, cut>>

Fill(p) ==
  /\ Step(p, "fill", "read")
  /\ file' = "whole"
  /\ UNCHANGED <<gateways, limit, thread, node, port, buffer, sending, failed, crashes, cut>>

\* Mutant: nobody cleans up after a process.
Ends_KeepsNodes(p, as) ==
  /\ stage' = [stage EXCEPT ![p] = as]
  /\ port' = IF port = p THEN None ELSE port
  /\ buffer' = [buffer EXCEPT ![p] = 0]
  /\ sending' = sending \ {p}
  /\ UNCHANGED <<gateways, limit, thread, node>>

\* The process is gone, and all it held.
Ends(p, as) ==
  /\ stage' = [stage EXCEPT ![p] = as]
  /\ recv' = [recv EXCEPT ![p] = FALSE]
  /\ send' = [send EXCEPT ![p] = FALSE]
  /\ leaving' = [leaving EXCEPT ![p] = 0]
  /\ port' = IF port = p THEN None ELSE port
  /\ buffer' = [buffer EXCEPT ![p] = 0]
  /\ sending' = sending \ {p}
  /\ UNCHANGED <<gateways, limit, thread>>

\* A file that cannot be parsed makes init panic.
Read(p) ==
  /\ stage[p] = "read"
  /\ IF file = "whole"
       THEN Step(p, "read", "join") /\ UNCHANGED <<gateways, limit, thread, node, port, buffer, sending>>
       ELSE Ends(p, "panicked")
  /\ UNCHANGED <<file, failed, crashes, cut>>

HeldBy(p) == (IF recv[p] THEN 1 ELSE 0) + (IF send[p] THEN 1 ELSE 0) + leaving[p]

Used == MapThenSumSet(HeldBy, Procs)

\* The attempt failed; the next one begins 3 s later.
Retry(p) ==
  /\ stage' = [stage EXCEPT ![p] = "check"]
  /\ thread' = [thread EXCEPT ![p] = "recv"]
  /\ failed' = failed \union {p}

\* The thread has its node and ports, and its sender replaces that of an earlier
\* attempt, whose thread then ends.
Admitted(p, mine, yours) ==
  /\ mine' = [mine EXCEPT ![p] = TRUE]
  /\ leaving' = [leaving EXCEPT ![p] = IF mine[p] THEN @ + 1 ELSE @]
  /\ UNCHANGED yours

Join(p) ==
  /\ stage[p] = "join"
  /\ \/ Used = limit /\ Retry(p) /\ UNCHANGED <<node, buffer>>
     \/ /\ Used < limit /\ thread[p] = "recv"
        /\ Admitted(p, recv, send)
        /\ Step(p, "join", "check")
        /\ thread' = [thread EXCEPT ![p] = "send"]
        /\ buffer' = [buffer EXCEPT ![p] = 0]
        /\ UNCHANGED failed
     \/ /\ Used < limit /\ thread[p] = "send"
        /\ Admitted(p, send, recv)
        /\ Step(p, "join", "port")
        /\ UNCHANGED <<thread, buffer, failed>>
  /\ UNCHANGED <<gateways, limit, port, file, sending, crashes, cut>>

\* A thread whose sender was replaced ends.
ThreadEnds(p) ==
  /\ leaving[p] > 0
  /\ leaving' = [leaving EXCEPT ![p] = @ - 1]
  /\ UNCHANGED <<gateways, limit, stage, thread, recv, send, port, file, buffer, sending, failed, crashes, cut>>

\* The gateway's port is bound; then the receive task is started.
Bind(p) ==
  /\ stage[p] = "port"
  /\ \/ /\ p \notin gateways \/ port = None
        /\ Step(p, "port", "running")
        /\ port' = IF p \in gateways THEN p ELSE port
        /\ UNCHANGED <<thread, failed>>
     \/ p \in gateways /\ port # None /\ Retry(p) /\ UNCHANGED port
  /\ UNCHANGED <<gateways, limit, node, file, buffer, sending, crashes, cut>>

-----------------------------------------------------------------------------
(* Processes that run. *)

\* Mutant: the receive task leaves the last page.
Drain_OverlooksOne(p) ==
  /\ stage[p] = "running" /\ buffer[p] > 1
  /\ buffer' = [buffer EXCEPT ![p] = @ - 1]
  /\ UNCHANGED <<gateways, limit, stage, thread, node, port, file, sending, failed, crashes, cut>>

\* The receive task takes a page.
Drain(p) ==
  /\ stage[p] = "running" /\ buffer[p] > 0
  /\ buffer' = [buffer EXCEPT ![p] = @ - 1]
  /\ UNCHANGED <<gateways, limit, stage, thread, node, port, file, sending, failed, crashes, cut>>

Send(p) ==
  /\ stage[p] = "running" /\ p \notin sending
  /\ sending' = sending \union {p}
  /\ UNCHANGED <<gateways, limit, stage, thread, node, port, file, buffer, failed, crashes, cut>>

\* A page goes to every subscriber, when all have room.
SendPage(p) ==
  /\ p \in sending
  /\ \A q \in Procs : recv[q] => buffer[q] < BufferSize
  /\ buffer' = [q \in Procs |-> IF recv[q] THEN buffer[q] + 1 ELSE buffer[q]]
  /\ sending' = sending \ {p}
  /\ UNCHANGED <<gateways, limit, stage, thread, node, port, file, failed, crashes, cut>>

\* A process comes to its end, or is killed at any point.
Quit(p) ==
  /\ stage[p] = "running"
  /\ Ends(p, "off")
  /\ UNCHANGED <<file, failed, crashes, cut>>

Crash(p) ==
  /\ stage[p] \notin Down /\ crashes < MaxCrashes
  /\ crashes' = crashes + 1
  /\ cut' = (cut \/ stage[p] = "fill")
  /\ Ends(p, "off")
  /\ UNCHANGED <<file, failed>>

-----------------------------------------------------------------------------
Initialises(p) ==
  Check(p) \/ Create(p) \/ Fill(p) \/ Read(p) \/ Join(p) \/ Bind(p)

Next ==
  \E p \in Procs :
    \/ Begin(p) \/ Initialises(p) \/ ThreadEnds(p)
    \/ Drain(p) \/ Send(p) \/ SendPage(p) \/ Quit(p) \/ Crash(p)

\* What was begun goes on; a sender waits its turn among others.  No process has
\* to start, send or end.
Fairness ==
  \A p \in Procs :
    /\ WF_vars(Initialises(p)) /\ WF_vars(ThreadEnds(p))
    /\ WF_vars(Drain(p)) /\ SF_vars(SendPage(p))

Spec == Init /\ [][Next]_vars
FairSpec == Spec /\ Fairness

-----------------------------------------------------------------------------
(* Properties. *)

\* A configuration of which only a part is there has somebody who is writing it,
\* unless one was killed while it wrote: nothing mends the file then, since init
\* looks only whether there is one.
PartForAReason == file = "part" => cut \/ \E p \in Procs : stage[p] = "fill"

\* Two threads of every process may have a node, and one process wants the port.
Enough == limit >= 2 * Cardinality(Procs) /\ Cardinality(gateways) <= 1

\* The file is there, and nobody is about to write it again.
Settled == file = "whole" /\ \A p \in Procs : stage[p] \notin {"create", "fill"}

\* Then init does not go on for ever in any process, whatever the others do: no
\* attempt fails again and again, nor is what it left behind in its way.  It
\* succeeds, or the process is killed, or reads a part of the file and panics; the
\* last only while there is still somebody who writes the file or left it in part.
EveryoneStarts ==
  Enough => \A p \in Procs :
    /\ stage[p] \in Starting ~> stage[p] \in {"running"} \union Down
    /\ stage[p] \in Starting /\ Settled ~> stage[p] \in {"running", "off"}

\* A process whose init tries again and again has a subscriber that nobody reads.
Hinders(p) == stage[p] \in Starting /\ recv[p] /\ p \in failed

\* A send_stream of any process returns ('Block' makes it wait for the slowest
\* subscriber), unless from some time on there is such a process, and the nodes run
\* out again and again: with a node to spare the next attempt replaces the subscriber.
SendsUnlessHindered ==
  \A p \in Procs :
    \/ []<>(p \notin sending)
    \/ <>[](\E q \in Procs : Hinders(q)) /\ []<>(Used = limit)

\* What the error message of iox2.rs presumes: only an edit by hand can make the
\* file one that init cannot read.
ConfigIsWhole == \A p \in Procs : stage[p] = "read" => file = "whole"

\* Of processes that start together one succeeds, if the services admit its two
\* nodes.
OneStarts ==
  limit >= 2 /\ gateways = {} =>
    (\A p \in Procs : stage[p] \in Starting) ~> (\E p \in Procs : stage[p] \notin Starting)

\* A send_stream returns.
SendReturns == \A p \in Procs : p \in sending ~> p \notin sending
=============================================================================
