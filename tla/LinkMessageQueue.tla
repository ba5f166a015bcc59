-------------------------- MODULE LinkMessageQueue --------------------------
(***************************************************************************)
(* The linked-list message queue of lmq/src/lib.rs, at the grain of its    *)
(* node mutexes.                                                           *)
(*                                                                         *)
(* A node is a number: Root, then one per message in the order of push,    *)
(* then the sentinel TailNode.  One thread pushes (push is &mut self) and  *)
(* each consumer runs on a thread of its own.  A step is what the code     *)
(* does between taking a lock on a node and letting go of the last lock    *)
(* it shares with nobody: a consumer that walks keeps the mutex of its     *)
(* current node over several steps, and the next node's over one.          *)
(*                                                                         *)
(* Consumers are registered in one process-wide table whatever queue they  *)
(* belong to, so that a message is also meant for the Strangers, consumers *)
(* of other queues, who never call next on this one.  The views that       *)
(* MessageRef hands out, which delay a claim and a walk, are the subject   *)
(* of module MessageLock.                                                  *)
(***************************************************************************)
EXTENDS Integers, FiniteSets

CONSTANTS Consumers,     \* the consumers that are ever created
          Strangers,     \* those of them that belong to another queue
          MaxMessages,   \* bound: how many messages are pushed
          Autodrop,      \* the cargo feature "autodrop"
          Claims,        \* does the application call NextMessage::claim
          LateJoins      \* may a consumer be created after the first push

ASSUME QueueAssumption ==
  /\ IsFiniteSet(Consumers)
  /\ Strangers \subseteq Consumers
  /\ MaxMessages \in Nat \ {0}
  /\ {Autodrop, Claims, LateJoins} \subseteq BOOLEAN

Root     == 0
Messages == 1 .. MaxMessages
TailNode == MaxMessages + 1
Linkable == Root .. MaxMessages      \* the nodes that have a next

VARIABLES
  full,       \* the messages whose payload is Some: pushed and unclaimed
  nxt,        \* NextMessage::next of each node but the tail
  targets,    \* NextMessage::target_consumers of each message
  active,     \* the keys of ACTIVE_MESSAGE_CONSUMERS
  life,       \* the life of each consumer, up to the end of its drop_tracker
  cur,        \* MessageConsumer::current
  pc,         \* where the consumer's thread is in next / try_next
  blocking,   \* the consumers whose running call is next, not try_next
  at,         \* `next` of try_next: the node a walking consumer locks next
  notified,   \* the consumers whose Notified has been completed
  pushed,     \* how many message nodes exist
  last,       \* LinkMessageQueue::last
  ppc,        \* where the pushing thread is
  end,        \* `current_last` of push
  seen,       \* history: the messages each consumer was given
  audience,   \* history: target_consumers as push recorded it
  passed,     \* history: who asked for more, or dropped itself, at a message
  dropped     \* history: the messages claimed by the automatic drop

message  == <<full, nxt, targets>>
consumer == <<active, life, cur, pc, blocking, at, notified>>
pusher   == <<pushed, last, ppc, end>>
history  == <<seen, audience, passed, dropped>>
vars     == <<message, consumer, pusher, history>>

-----------------------------------------------------------------------------

TypeOK ==
  /\ full \subseteq Messages
  /\ nxt \in [Linkable -> Root .. TailNode]
  /\ targets \in [Messages -> SUBSET Consumers]
  /\ active \subseteq Consumers
  /\ life \in [Consumers -> {"unborn", "live", "leaving", "left", "dead"}]
  /\ cur \in [Consumers -> Linkable]
  /\ pc \in [Consumers -> {"idle", "enter", "walk", "none", "wait"}]
  /\ blocking \subseteq Consumers
  /\ at \in [Consumers -> Root .. TailNode]
  /\ notified \subseteq Consumers
  /\ pushed \in Root .. MaxMessages
  /\ last \in Linkable
  /\ ppc \in {"idle", "link", "notify"}
  /\ end \in Linkable
  /\ seen \in [Consumers -> SUBSET Messages]
  /\ audience \in [Messages -> SUBSET Consumers]
  /\ passed \in [Messages -> SUBSET Consumers]
  /\ dropped \subseteq Messages

Init ==
  /\ full = {}
  /\ nxt = [n \in Linkable |-> TailNode]
  /\ targets = [m \in Messages |-> {}]
  /\ active = {}
  /\ life = [c \in Consumers |-> "unborn"]
  /\ cur = [c \in Consumers |-> Root]
  /\ pc = [c \in Consumers |-> "idle"]
  /\ blocking = {}
  /\ at = [c \in Consumers |-> TailNode]
  /\ notified = {}
  /\ pushed = 0
  /\ last = Root
  /\ ppc = "idle"
  /\ end = Root
  /\ seen = [c \in Consumers |-> {}]
  /\ audience = [m \in Messages |-> {}]
  /\ passed = [m \in Messages |-> {}]
  /\ dropped = {}

\* The mutex of node n is held over a step only by a consumer that walks from n.
Free(n) == \A c \in Consumers : ~(pc[c] = "walk" /\ cur[c] = n)

\* The messages the list holds: the one being pushed is not linked in yet.
Length == IF ppc = "link" THEN pushed - 1 ELSE pushed
Linked == 1 .. Length

-----------------------------------------------------------------------------
(* The pushing thread. *)

\* push, up to the first lock: a node with the tail as its next and a snapshot
\* of the active consumers.
PushBegin ==
  /\ ppc = "idle"
  /\ pushed < MaxMessages
  /\ pushed' = pushed + 1
  /\ full' = full \union {pushed'}
  /\ targets' = [targets EXCEPT ![pushed'] = active]
  /\ audience' = [audience EXCEPT ![pushed'] = active]
  /\ end' = last
  /\ ppc' = "link"
  /\ UNCHANGED <<nxt, consumer, last, seen, passed, dropped>>

\* The node on record was pruned: follow the pointer its pruner left in it.
PushWalk ==
  /\ ppc = "link"
  /\ Free(end)
  /\ nxt[end] # TailNode
  /\ end' = nxt[end]
  /\ UNCHANGED <<message, consumer, pushed, last, ppc, history>>

\* The node points to the tail: link the new node behind it and record it.
PushLink ==
  /\ ppc = "link"
  /\ Free(end)
  /\ nxt[end] = TailNode
  /\ nxt' = [nxt EXCEPT ![end] = pushed]
  /\ last' = pushed
  /\ end' = pushed
  /\ ppc' = "notify"
  /\ UNCHANGED <<full, targets, consumer, pushed, history>>

\* Mutant: only the Notified futures that are already awaited are completed.
PushNotify_OnlySleepers ==
  /\ ppc = "notify"
  /\ notified' = notified \union {c \in blocking : pc[c] = "wait"}
  /\ ppc' = "idle"
  /\ UNCHANGED <<message, active, life, cur, pc, blocking, at,
                 pushed, last, end, history>>

\* notify_waiters completes every Notified created so far, polled or not.
PushNotify ==
  /\ ppc = "notify"
  /\ notified' = blocking
  /\ ppc' = "idle"
  /\ UNCHANGED <<message, active, life, cur, pc, blocking, at,
                 pushed, last, end, history>>

-----------------------------------------------------------------------------
(* The life of a consumer.  push excludes create_consumer: &mut against &.  *)

CreateConsumer(c) ==
  /\ life[c] = "unborn"
  /\ ppc = "idle"
  /\ LateJoins \/ pushed = 0
  /\ life' = [life EXCEPT ![c] = "live"]
  /\ active' = IF Autodrop THEN {d \in active : life[d] # "dead"} \union {c}
                           ELSE active
  /\ UNCHANGED <<message, cur, pc, blocking, at, notified, pusher, history>>

\* Enters next or try_next.  next first creates its Notified.
Call(c, blocks) ==
  /\ c \notin Strangers
  /\ life[c] = "live"
  /\ pc[c] = "idle"
  /\ pc' = [pc EXCEPT ![c] = "enter"]
  /\ blocking' = IF blocks THEN blocking \union {c} ELSE blocking
  /\ UNCHANGED <<message, active, life, cur, at, notified, pusher, history>>

\* Mutant: a consumer whose drop has begun counts as dead.
PassOn_CountsLeaving(c) ==
  LET m == cur[c]
      spent == \A d \in targets[m] \ {c} : life[d] # "live"
      autodropped == IF Autodrop /\ spent THEN {m} ELSE {}
  IN  IF m \in Messages
        THEN /\ targets' = [targets EXCEPT ![m] = @ \ {c}]
             /\ passed' = [passed EXCEPT ![m] = @ \union {c}]
             /\ full' = full \ autodropped
             /\ dropped' = dropped \union (full \intersect autodropped)
        ELSE UNCHANGED <<targets, passed, full, dropped>>

\* Mutant: the check runs before c is removed from the targets.
PassOn_ChecksFirst(c) ==
  LET m == cur[c]
      spent == \A d \in targets[m] : life[d] = "dead"
      autodropped == IF Autodrop /\ spent THEN {m} ELSE {}
  IN  IF m \in Messages
        THEN /\ targets' = [targets EXCEPT ![m] = @ \ {c}]
             /\ passed' = [passed EXCEPT ![m] = @ \union {c}]
             /\ full' = full \ autodropped
             /\ dropped' = dropped \union (full \intersect autodropped)
        ELSE UNCHANGED <<targets, passed, full, dropped>>

\* check_should_now_autodrop, under the mutex of c's current node: c is no
\* longer a target, and when every target left is dead the message is claimed.
PassOn(c) ==
  LET m == cur[c]
      spent == \A d \in targets[m] \ {c} : life[d] = "dead"
      autodropped == IF Autodrop /\ spent THEN {m} ELSE {}
  IN  IF m \in Messages
        THEN /\ targets' = [targets EXCEPT ![m] = @ \ {c}]
             /\ passed' = [passed EXCEPT ![m] = @ \union {c}]
             /\ full' = full \ autodropped
             /\ dropped' = dropped \union (full \intersect autodropped)
        ELSE UNCHANGED <<targets, passed, full, dropped>>

\* Mutant: every walk starts from the root.
Enter_FromRoot(c) ==
  /\ pc[c] = "enter"
  /\ Free(cur[c])
  /\ PassOn(c)
  /\ pc' = [pc EXCEPT ![c] = "walk"]
  /\ at' = [at EXCEPT ![c] = nxt[Root]]
  /\ UNCHANGED <<nxt, active, life, cur, blocking, notified, pusher, seen, audience>>

\* try_next locks the current node, passes it on, takes its payload's write
\* lock for the whole walk and reads where the walk starts.
Enter(c) ==
  /\ pc[c] = "enter"
  /\ Free(cur[c])
  /\ PassOn(c)
  /\ pc' = [pc EXCEPT ![c] = "walk"]
  /\ at' = [at EXCEPT ![c] = nxt[cur[c]]]
  /\ UNCHANGED <<nxt, active, life, cur, blocking, notified, pusher, seen, audience>>

\* The call returns: `at`, `blocking` and `notified` are locals of it.
Return(c) ==
  /\ pc' = [pc EXCEPT ![c] = "idle"]
  /\ at' = [at EXCEPT ![c] = TailNode]
  /\ blocking' = blocking \ {c}
  /\ notified' = notified \ {c}

\* Mutant: the consumer moves to the node behind the one it returns.
Deliver_MovesBeyond(c) ==
  /\ pc[c] = "walk"
  /\ at[c] \in full
  /\ Free(at[c])
  /\ nxt' = [nxt EXCEPT ![cur[c]] = at[c]]
  /\ cur' = [cur EXCEPT ![c] = IF nxt[at[c]] = TailNode THEN at[c] ELSE nxt[at[c]]]
  /\ seen' = [seen EXCEPT ![c] = @ \union {at[c]}]
  /\ Return(c)
  /\ UNCHANGED <<full, targets, active, life, pusher, audience, passed, dropped>>

\* The next node is an unclaimed message: link to it, move to it, return it.
Deliver(c) ==
  /\ pc[c] = "walk"
  /\ at[c] \in full
  /\ Free(at[c])
  /\ nxt' = [nxt EXCEPT ![cur[c]] = at[c]]
  /\ cur' = [cur EXCEPT ![c] = at[c]]
  /\ seen' = [seen EXCEPT ![c] = @ \union {at[c]}]
  /\ Return(c)
  /\ UNCHANGED <<full, targets, active, life, pusher, audience, passed, dropped>>

\* Mutant: the skipped node points back before the current node moves on.
Prune_PointsBackFirst(c) ==
  /\ pc[c] = "walk"
  /\ at[c] \notin full \union {TailNode}
  /\ Free(at[c])
  /\ nxt' = [nxt EXCEPT ![at[c]] = IF cur[c] \in full THEN cur[c] ELSE @]
  /\ at' = [at EXCEPT ![c] = nxt[at[c]]]
  /\ UNCHANGED <<full, targets, active, life, cur, pc, blocking, notified, pusher, history>>

\* Mutant: the walk reads the skipped node's next after pointing it back.
Prune_ReadsLate(c) ==
  /\ pc[c] = "walk"
  /\ at[c] \notin full \union {TailNode}
  /\ Free(at[c])
  /\ nxt' = [nxt EXCEPT ![cur[c]] = nxt[at[c]],
                        ![at[c]] = IF cur[c] \in full THEN cur[c] ELSE @]
  /\ at' = [at EXCEPT ![c] = nxt'[at[c]]]
  /\ UNCHANGED <<full, targets, active, life, cur, pc, blocking, notified, pusher, history>>

\* The next node is claimed: skip it and, if the current node is unclaimed,
\* point the skipped node back at it.
Prune(c) ==
  /\ pc[c] = "walk"
  /\ at[c] \notin full \union {TailNode}
  /\ Free(at[c])
  /\ nxt' = [nxt EXCEPT ![cur[c]] = nxt[at[c]],
                        ![at[c]] = IF cur[c] \in full THEN cur[c] ELSE @]
  /\ at' = [at EXCEPT ![c] = nxt[at[c]]]
  /\ UNCHANGED <<full, targets, active, life, cur, pc, blocking, notified, pusher, history>>

\* The next node is the tail: try_next returns None.
Exhaust(c) ==
  /\ pc[c] = "walk"
  /\ at[c] = TailNode
  /\ nxt' = [nxt EXCEPT ![cur[c]] = TailNode]
  /\ IF c \in blocking
       THEN /\ pc' = [pc EXCEPT ![c] = "none"]
            /\ UNCHANGED <<at, blocking, notified>>
       ELSE Return(c)
  /\ UNCHANGED <<full, targets, active, life, cur, pusher, history>>

\* Mutant: next creates its Notified only now.
Await_NewNotified(c) ==
  /\ pc[c] = "none"
  /\ pc' = [pc EXCEPT ![c] = "wait"]
  /\ notified' = notified \ {c}
  /\ UNCHANGED <<message, active, life, cur, blocking, at, pusher, history>>

\* next awaits the Notified it created before it tried, with no lock held.
Await(c) ==
  /\ pc[c] = "none"
  /\ pc' = [pc EXCEPT ![c] = "wait"]
  /\ UNCHANGED <<message, active, life, cur, blocking, at, notified, pusher, history>>

\* The Notified completes; the loop of next creates another and tries again.
Wake(c) ==
  /\ pc[c] = "wait"
  /\ c \in notified
  /\ pc' = [pc EXCEPT ![c] = "enter"]
  /\ notified' = notified \ {c}
  /\ UNCHANGED <<message, active, life, cur, blocking, at, pusher, history>>

\* The future of next is dropped at its only await point.
Cancel(c) ==
  /\ pc[c] = "wait"
  /\ Return(c)
  /\ UNCHANGED <<message, active, life, cur, pusher, history>>

\* NextMessage::claim on a message c was given.  The NextMessage outlives the
\* consumer; the payload's write lock is taken while a consumer walks from m.
Claim(c, m) ==
  /\ Claims
  /\ m \in seen[c] \intersect full
  /\ Free(m)
  /\ full' = full \ {m}
  /\ UNCHANGED <<nxt, targets, consumer, pusher, history>>

\* Dropping a consumer, in three steps: out of the table of active consumers,
\* the check at the current node, and after the body of drop the tracker.
Leave(c) ==
  /\ life[c] = "live"
  /\ pc[c] = "idle"
  /\ life' = [life EXCEPT ![c] = IF Autodrop THEN "leaving" ELSE "dead"]
  /\ active' = active \ {c}
  /\ UNCHANGED <<message, cur, pc, blocking, at, notified, pusher, history>>

Release(c) ==
  /\ life[c] = "leaving"
  /\ Free(cur[c])
  /\ PassOn(c)
  /\ life' = [life EXCEPT ![c] = "left"]
  /\ UNCHANGED <<nxt, active, cur, pc, blocking, at, notified, pusher, seen, audience>>

Die(c) ==
  /\ life[c] = "left"
  /\ life' = [life EXCEPT ![c] = "dead"]
  /\ UNCHANGED <<message, active, cur, pc, blocking, at, notified, pusher, history>>

-----------------------------------------------------------------------------

Push == PushBegin \/ PushWalk \/ PushLink \/ PushNotify

\* What a consumer's thread does by itself once a call has been made.
Run(c) == Enter(c) \/ Deliver(c) \/ Prune(c) \/ Exhaust(c) \/ Await(c) \/ Wake(c)

Consume(c) ==
  \/ CreateConsumer(c)
  \/ \E blocks \in BOOLEAN : Call(c, blocks)
  \/ Run(c)
  \/ Cancel(c)
  \/ \E m \in Messages : Claim(c, m)
  \/ Leave(c) \/ Release(c) \/ Die(c)

Next == Push \/ \E c \in Consumers : Consume(c)

Spec == Init /\ [][Next]_vars

\* A thread that is in a call keeps running, and parking_lot's mutexes are
\* eventually fair: a thread that finds one free again and again gets it.
\* Nobody has to push, to call, to claim or to drop anything.
Fairness ==
  /\ SF_vars(PushWalk \/ PushLink)
  /\ WF_vars(PushNotify)
  /\ \A c \in Consumers : SF_vars(Run(c)) /\ SF_vars(Release(c)) /\ WF_vars(Die(c))

FairSpec == Spec /\ Fairness

-----------------------------------------------------------------------------
(* The list. *)

\* The comments [3], [4] and [5] of try_next: the pointers are never circular.
\* There is no set of nodes that following next never leaves, in any state,
\* between the steps of pruning consumers and of the pusher.
Acyclic ==
  \A S \in (SUBSET Linkable) \ {{}} : \E n \in S : nxt[n] \notin S

\* Threads that hold a node and are about to lock another never wait for each
\* other in a circle, nor one for itself: the node mutexes cannot deadlock.
NoLockCycle ==
  \A S \in (SUBSET {c \in Consumers : pc[c] = "walk"}) \ {{}} :
     \E c \in S : \A d \in S : at[c] # cur[d]

\* A consumer that moves forward never leaves an unclaimed message behind,
\* whatever the others claim and prune while it walks.
SkipsOnlyClaimed ==
  [][\A c \in Consumers : \A m \in full : ~(cur[c] < m /\ m < cur'[c])]_vars

\* "Each unclaimed message is visited once and in order of arrival": a
\* consumer never moves back to a message, nor to one it was given before.
VisitedInOrder ==
  [][\A c \in Consumers : cur'[c] # cur[c] => cur'[c] > cur[c]]_vars

\* "Any currently blocked MessageConsumer's will unblock at the new message":
\* a consumer sleeps only when it was given every message in the list that is
\* still unclaimed and follows its own, or it is about to be woken.
SleepersAreUpToDate ==
  \A c \in Consumers :
     pc[c] = "wait" /\ c \notin notified /\ ppc = "idle" =>
       \A m \in Linked \intersect full : m > cur[c] => m \in seen[c]

\* The same as progress: a call of next that has an unclaimed message before
\* it ends, or somebody claims that message.
NextReturns ==
  \A c \in Consumers : \A m \in Messages :
     (c \in blocking /\ m \in Linked \intersect full /\ m > cur[c])
        ~> (c \notin blocking \/ m \notin full)

(* The automatic drop. *)

\* No message is dropped under a consumer that was active when it was pushed,
\* until that consumer has asked for more at that message, or is gone.
AutodropSafe ==
  \A m \in dropped : \A c \in audience[m] : c \in passed[m] \/ life[c] = "dead"

\* A message is dropped with the last of its consumers to pass it on, whatever
\* the order in which they do, and it stays dropped.
PassedIsDropped ==
  \A m \in Messages : audience[m] # {} /\ audience[m] \subseteq passed[m] => m \notin full

\* "When all consumers pertaining to a message in this way are either dropped
\* or passes on the message, the message is automatically dropped/claimed."
DroppedWhenNobodyIsLeft ==
  \A m \in Messages :
     audience[m] # {} /\ (\A c \in audience[m] : c \in passed[m] \/ life[c] = "dead")
        => m \notin full

-----------------------------------------------------------------------------
(* What a consumer is promised, under a mapping of the list to a stream.    *)

Stream == INSTANCE MessageStream WITH
  log      <- Length,
  gone     <- {m \in Linked : m \notin full},
  meantFor <- [m \in Messages |-> IF m \in Linked THEN audience[m] ELSE {}],
  position <- cur,
  phase    <- [c \in Consumers |->
                 IF life[c] # "live" THEN "away"
                 ELSE IF pc[c] \in {"enter", "walk"} THEN "asking" ELSE "resting"],
  given    <- seen,
  done     <- passed

\* The queue is that stream: every call is answered, with the first message
\* that is neither claimed nor dropped, and only what all are done with goes.
ImplementsStream == Stream!Spec
=============================================================================
