----------------------- MODULE LinkMessageQueueProofs -----------------------
(***************************************************************************)
(* What holds of the LinkMessageQueue for any number of consumers and      *)
(* messages, with and without the feature "autodrop".                      *)
(*                                                                         *)
(* The order of the argument: the types; who holds a node's mutex, and     *)
(* that a walking consumer looks at its node's own next; where the list    *)
(* ends; that no pointer passes an unclaimed message in either direction;  *)
(* that the pointers are never circular, which makes the mutexes safe;     *)
(* apart from the list, the bookkeeping of the automatic drop; and, for    *)
(* the queues in which nothing is skipped, that sleepers are up to date,   *)
(* that nobody moves back and that the queue is the stream it promises.    *)
(***************************************************************************)
EXTENDS LinkMessageQueue, TLAPS

\* What the check at c's current node does, on the root and on a message.
LEMMA PassOnEffect ==
  ASSUME TypeOK, NEW c \in Consumers, PassOn(c)
  PROVE  /\ full' \subseteq full
         /\ dropped' \subseteq dropped \union full
         /\ targets' \in [Messages -> SUBSET Consumers]
         /\ passed' \in [Messages -> SUBSET Consumers]
         /\ \A m \in Messages : /\ targets'[m] = targets[m] \ (IF m = cur[c] THEN {c} ELSE {})
                              /\ passed'[m] = passed[m] \union (IF m = cur[c] THEN {c} ELSE {})
         /\ \A m \in dropped' \ dropped :
               m = cur[c] /\ Autodrop /\ \A d \in targets[m] \ {c} : life[d] = "dead"
         /\ \A m \in Messages :
               (Autodrop /\ m = cur[c] /\ \A d \in targets[m] \ {c} : life[d] = "dead") => m \notin full'
<1>1. CASE cur[c] \in Messages
  BY <1>1 DEF PassOn, TypeOK
<1>2. CASE cur[c] \notin Messages
  <2>1. UNCHANGED <<targets, passed, full, dropped>>
    BY <1>2 DEF PassOn
  <2> QED
    BY <1>2, <2>1 DEF TypeOK
<1> QED
  BY <1>1, <1>2

\* Every type is kept, by every action.
THEOREM TypeCorrect == Spec => []TypeOK
<1>1. Init => TypeOK
  BY QueueAssumption DEF Init, TypeOK, Root, Messages, TailNode, Linkable
<1>2. TypeOK /\ [Next]_vars => TypeOK'
  <2> SUFFICES ASSUME TypeOK, [Next]_vars PROVE TypeOK'
    OBVIOUS
  <2> USE QueueAssumption DEF TypeOK, Root, Messages, TailNode, Linkable, message, consumer, pusher, history
  <2>1. CASE PushBegin
    BY <2>1 DEF PushBegin
  <2>2. CASE PushWalk
    BY <2>2 DEF PushWalk
  <2>3. CASE PushLink
    <3>1. pushed \in Linkable /\ nxt' \in [Linkable -> Root .. TailNode]
      BY <2>3 DEF PushLink
    <3>2. last' \in Linkable /\ end' \in Linkable /\ ppc' = "notify"
      BY <2>3, <3>1 DEF PushLink
    <3>3. UNCHANGED <<full, targets, consumer, pushed, history>>
      BY <2>3 DEF PushLink
    <3> QED
      BY <3>1, <3>2, <3>3
  <2>4. CASE PushNotify
    BY <2>4 DEF PushNotify
  <2>5. ASSUME NEW c \in Consumers, Consume(c) PROVE TypeOK'
    <3>1. CASE CreateConsumer(c)
      BY <3>1 DEF CreateConsumer
    <3>2. ASSUME NEW blocks \in BOOLEAN, Call(c, blocks) PROVE TypeOK'
      BY <3>2 DEF Call
    <3>3. CASE Enter(c)
      BY <3>3, PassOnEffect DEF Enter
    <3>4. CASE Deliver(c)
      <4>1. at[c] \in Messages /\ at[c] \in Linkable /\ at[c] \in Root .. TailNode /\ TailNode \in Root .. TailNode
        BY <3>4 DEF Deliver
      <4>2. nxt' \in [Linkable -> Root .. TailNode]
        BY <3>4, <4>1 DEF Deliver
      <4>3. cur' \in [Consumers -> Linkable]
        BY <3>4, <4>1 DEF Deliver
      <4>4. seen' \in [Consumers -> SUBSET Messages]
        BY <3>4, <4>1 DEF Deliver
      <4>5. /\ pc' \in [Consumers -> {"idle", "enter", "walk", "none", "wait"}]
            /\ at' \in [Consumers -> Root .. TailNode]
        BY <3>4, <4>1 DEF Deliver, Return
      <4>6. blocking' \subseteq Consumers /\ notified' \subseteq Consumers
        BY <3>4 DEF Deliver, Return
      <4>7. UNCHANGED <<full, targets, active, life, pusher, audience, passed, dropped>>
        BY <3>4 DEF Deliver
      <4> QED
        BY <4>2, <4>3, <4>4, <4>5, <4>6, <4>7
    <3>5. CASE Prune(c)
      <4>1. cur[c] \in Linkable /\ at[c] \in Linkable /\ nxt[at[c]] \in Root .. TailNode
        BY <3>5 DEF Prune
      <4>2. nxt' \in [Linkable -> Root .. TailNode]
        BY <3>5, <4>1 DEF Prune
      <4>3. at' \in [Consumers -> Root .. TailNode]
        BY <3>5, <4>1 DEF Prune
      <4>4. UNCHANGED <<full, targets, active, life, cur, pc, blocking, notified,
                        pushed, last, ppc, end, seen, audience, passed, dropped>>
        BY <3>5 DEF Prune
      <4> QED
        BY <4>2, <4>3, <4>4
    <3>6. CASE Exhaust(c)
      <4>1. nxt' \in [Linkable -> Root .. TailNode] /\ TailNode \in Root .. TailNode
        BY <3>6 DEF Exhaust
      <4>2. /\ pc' \in [Consumers -> {"idle", "enter", "walk", "none", "wait"}]
            /\ at' \in [Consumers -> Root .. TailNode]
            /\ blocking' \subseteq Consumers /\ notified' \subseteq Consumers
        BY <3>6, <4>1 DEF Exhaust, Return
      <4>3. UNCHANGED <<full, targets, active, life, cur, pusher, history>>
        BY <3>6 DEF Exhaust
      <4> QED
        BY <4>1, <4>2, <4>3
    <3>7. CASE Wake(c)
      BY <3>7 DEF Wake
    <3>8. CASE Cancel(c)
      <4>1. /\ pc' \in [Consumers -> {"idle", "enter", "walk", "none", "wait"}]
            /\ at' \in [Consumers -> Root .. TailNode]
        BY <3>8 DEF Cancel, Return
      <4>2. blocking' \subseteq Consumers /\ notified' \subseteq Consumers
        BY <3>8 DEF Cancel, Return
      <4>3. UNCHANGED <<message, active, life, cur, pusher, history>>
        BY <3>8 DEF Cancel
      <4> QED
        BY <4>1, <4>2, <4>3
    <3>9. ASSUME NEW m \in Messages, Claim(c, m) PROVE TypeOK'
      BY <3>9 DEF Claim
    <3>10. CASE Leave(c)
      BY <3>10 DEF Leave
    <3>11. CASE Release(c)
      BY <3>11, PassOnEffect DEF Release
    <3>12. CASE Die(c)
      BY <3>12 DEF Die
    <3>13. CASE Await(c)
      BY <3>13 DEF Await
    <3> QED
      BY <2>5, <3>1, <3>2, <3>3, <3>4, <3>5, <3>6, <3>7, <3>8, <3>9, <3>10, <3>11, <3>12, <3>13 DEF Consume, Run
  <2>6. CASE UNCHANGED vars
    BY <2>6 DEF vars
  <2> QED
    BY <2>1, <2>2, <2>3, <2>4, <2>5, <2>6 DEF Next, Push
<1> QED
  BY <1>1, <1>2, PTL DEF Spec

-----------------------------------------------------------------------------
(* Who holds a node. *)

\* One walking consumer per node, and since nobody else changes the next of a
\* node that is held, the walk is always about to lock that very next.
MutexInv ==
  /\ \A c, d \in Consumers :
        pc[c] = "walk" /\ pc[d] = "walk" /\ cur[c] = cur[d] => c = d
  /\ \A c \in Consumers : pc[c] = "walk" => at[c] = nxt[cur[c]]

\* The node mutex is exclusive, and a pruning walk never works on a stale next.
THEOREM MutexHeld == Spec => []MutexInv
<1>1. Init => MutexInv
  BY DEF Init, MutexInv
<1>2. TypeOK /\ MutexInv /\ [Next]_vars => MutexInv'
  <2> SUFFICES ASSUME TypeOK, MutexInv, [Next]_vars PROVE MutexInv'
    OBVIOUS
  <2> USE DEF MutexInv, TypeOK, message, consumer, pusher, history
  <2>1. CASE PushBegin
    BY <2>1 DEF PushBegin
  <2>2. CASE PushWalk
    BY <2>2 DEF PushWalk
  <2>3. CASE PushLink
    BY <2>3 DEF PushLink, Free
  <2>4. CASE PushNotify
    BY <2>4 DEF PushNotify
  <2>5. ASSUME NEW c \in Consumers, Consume(c) PROVE MutexInv'
    <3>1. CASE CreateConsumer(c)
      BY <3>1 DEF CreateConsumer
    <3>2. ASSUME NEW blocks \in BOOLEAN, Call(c, blocks) PROVE MutexInv'
      BY <3>2 DEF Call
    <3>3. CASE Enter(c)
      BY <3>3 DEF Enter, Free
    <3>4. CASE Deliver(c)
      BY <3>4 DEF Deliver, Return
    <3>5. CASE Prune(c)
      <4>1. at[c] \in Linkable /\ at[c] # cur[c]
        BY <3>5, QueueAssumption DEF Prune, Free, Root, TailNode, Linkable
      <4>2. \A d \in Consumers \ {c} :
              pc[d] = "walk" => cur[d] # cur[c] /\ cur[d] # at[c]
        BY <3>5 DEF Prune, Free
      <4> QED
        BY <3>5, <4>1, <4>2 DEF Prune
    <3>6. CASE Exhaust(c)
      BY <3>6 DEF Exhaust, Return
    <3>7. CASE Wake(c)
      BY <3>7 DEF Wake
    <3>8. CASE Cancel(c)
      BY <3>8 DEF Cancel, Return
    <3>9. ASSUME NEW m \in Messages, Claim(c, m) PROVE MutexInv'
      BY <3>9 DEF Claim
    <3>10. CASE Leave(c)
      BY <3>10 DEF Leave
    <3>11. CASE Release(c)
      BY <3>11 DEF Release
    <3>12. CASE Die(c)
      BY <3>12 DEF Die
    <3>13. CASE Await(c)
      BY <3>13 DEF Await
    <3> QED
      BY <2>5, <3>1, <3>2, <3>3, <3>4, <3>5, <3>6, <3>7, <3>8, <3>9, <3>10, <3>11, <3>12, <3>13 DEF Consume, Run
  <2>6. CASE UNCHANGED vars
    BY <2>6 DEF vars
  <2> QED
    BY <2>1, <2>2, <2>3, <2>4, <2>5, <2>6 DEF Next, Push
<1> QED
  BY <1>1, <1>2, TypeCorrect, PTL DEF Spec

-----------------------------------------------------------------------------
(* Where the list ends. *)

\* Everything but the tail that anything points to is in the list.
ExtentInv ==
  /\ last = Length
  /\ ppc = "link" => pushed > 0 /\ end <= Length
  /\ full \subseteq 1 .. pushed
  /\ \A c \in Consumers : cur[c] <= Length
  /\ \A n \in Linkable : nxt[n] # TailNode => n <= Length /\ nxt[n] <= Length

\* The node being pushed is unreachable until it is linked in.
THEOREM Extent == Spec => []ExtentInv
<1>1. Init => ExtentInv
  BY QueueAssumption DEF Init, ExtentInv, Length, Root, TailNode, Linkable
<1>2. TypeOK /\ MutexInv /\ ExtentInv /\ [Next]_vars => ExtentInv'
  <2> SUFFICES ASSUME TypeOK, MutexInv, ExtentInv, [Next]_vars PROVE ExtentInv'
    OBVIOUS
  <2> USE QueueAssumption DEF ExtentInv, TypeOK, Length, Root, Messages, TailNode, Linkable,
                              message, consumer, pusher, history
  <2>1. CASE PushBegin
    BY <2>1 DEF PushBegin
  <2>2. CASE PushWalk
    BY <2>2 DEF PushWalk
  <2>3. CASE PushLink
    BY <2>3 DEF PushLink
  <2>4. CASE PushNotify
    BY <2>4 DEF PushNotify
  <2>5. ASSUME NEW c \in Consumers, Consume(c) PROVE ExtentInv'
    <3>1. CASE CreateConsumer(c)
      BY <3>1 DEF CreateConsumer
    <3>2. ASSUME NEW blocks \in BOOLEAN, Call(c, blocks) PROVE ExtentInv'
      BY <3>2 DEF Call
    <3>3. CASE Enter(c)
      BY <3>3, PassOnEffect DEF Enter
    <3>4. CASE Deliver(c)
      <4>1. at[c] = nxt[cur[c]] /\ at[c] # TailNode
        BY <3>4 DEF Deliver, MutexInv
      <4> QED
        BY <3>4, <4>1 DEF Deliver, Return
    <3>5. CASE Prune(c)
      <4>1. at[c] = nxt[cur[c]] /\ at[c] # TailNode
        BY <3>5 DEF Prune, MutexInv
      <4> QED
        BY <3>5, <4>1 DEF Prune
    <3>6. CASE Exhaust(c)
      BY <3>6 DEF Exhaust, Return
    <3>7. CASE Wake(c)
      BY <3>7 DEF Wake
    <3>8. CASE Cancel(c)
      BY <3>8 DEF Cancel, Return
    <3>9. ASSUME NEW m \in Messages, Claim(c, m) PROVE ExtentInv'
      BY <3>9 DEF Claim
    <3>10. CASE Leave(c)
      BY <3>10 DEF Leave
    <3>11. CASE Release(c)
      BY <3>11, PassOnEffect DEF Release
    <3>12. CASE Die(c)
      BY <3>12 DEF Die
    <3>13. CASE Await(c)
      BY <3>13 DEF Await
    <3> QED
      BY <2>5, <3>1, <3>2, <3>3, <3>4, <3>5, <3>6, <3>7, <3>8, <3>9, <3>10, <3>11, <3>12, <3>13 DEF Consume, Run
  <2>6. CASE UNCHANGED vars
    BY <2>6 DEF vars
  <2> QED
    BY <2>1, <2>2, <2>3, <2>4, <2>5, <2>6 DEF Next, Push
<1> QED
  BY <1>1, <1>2, TypeCorrect, MutexHeld, PTL DEF Spec

-----------------------------------------------------------------------------
(* The pointers are never circular. *)

\* Pruning turns a pointer back only after the node it turns to has moved on,
\* so that no set of nodes is ever closed under next.
THEOREM AcyclicList == Spec => []Acyclic
<1>1. Init => Acyclic
  BY QueueAssumption DEF Init, Acyclic, Root, TailNode, Linkable
<1>2. TypeOK /\ MutexInv /\ ExtentInv /\ Acyclic /\ [Next]_vars => Acyclic'
  <2> SUFFICES ASSUME TypeOK, MutexInv, ExtentInv, Acyclic, [Next]_vars PROVE Acyclic'
    OBVIOUS
  <2>1. nxt' = nxt => Acyclic'
    BY DEF Acyclic
  <2>2. CASE PushLink
    <3> SUFFICES ASSUME NEW S \in (SUBSET Linkable) \ {{}}, \A n \in S : nxt'[n] \in S
                 PROVE  FALSE
      BY DEF Acyclic
    <3>1. /\ nxt' = [nxt EXCEPT ![end] = pushed]
          /\ end # pushed /\ pushed \in Linkable /\ nxt[pushed] = TailNode
      BY <2>2, QueueAssumption
      DEF PushLink, ExtentInv, TypeOK, Length, Root, Messages, TailNode, Linkable
    <3>2. end \notin S
      <4> SUFFICES ASSUME end \in S PROVE FALSE
        OBVIOUS
      <4>1. pushed \in S
        BY <3>1 DEF TypeOK
      <4>2. TailNode \in S
        BY <3>1, <4>1 DEF TypeOK
      <4> QED
        BY <4>2, QueueAssumption DEF Linkable, TailNode, Root
    <3>3. \A n \in S : nxt[n] \in S
      BY <3>1, <3>2 DEF TypeOK
    <3> QED
      BY <3>3 DEF Acyclic
  <2>3. ASSUME NEW c \in Consumers, Deliver(c) PROVE Acyclic'
    <3>1. nxt' = nxt
      BY <2>3 DEF Deliver, MutexInv, TypeOK
    <3> QED
      BY <2>1, <3>1
  <2>4. ASSUME NEW c \in Consumers, Exhaust(c) PROVE Acyclic'
    <3>1. nxt' = nxt
      BY <2>4 DEF Exhaust, MutexInv, TypeOK
    <3> QED
      BY <2>1, <3>1
  <2>5. ASSUME NEW c \in Consumers, Prune(c) PROVE Acyclic'
    <3> DEFINE here == cur[c]
               skip == at[c]
    <3> SUFFICES ASSUME NEW S \in (SUBSET Linkable) \ {{}}, \A n \in S : nxt'[n] \in S
                 PROVE  FALSE
      BY DEF Acyclic
    <3>1. /\ here \in Linkable /\ skip \in Linkable /\ here # skip
          /\ nxt[here] = skip
      BY <2>5, QueueAssumption
      DEF Prune, Free, MutexInv, TypeOK, Root, TailNode, Linkable
    <3>2. /\ nxt'[here] = nxt[skip]
          /\ nxt'[skip] \in {here, nxt[skip]}
          /\ \A n \in Linkable \ {here, skip} : nxt'[n] = nxt[n]
      BY <2>5, <3>1 DEF Prune, TypeOK
    <3> HIDE DEF here, skip
    <3>3. CASE here \notin S /\ skip \notin S
      BY <3>2, <3>3 DEF Acyclic
    <3>4. CASE here \in S
      <4>1. \A n \in S \union {skip} : nxt[n] \in S \union {skip}
        BY <3>1, <3>2, <3>4
      <4>2. S \union {skip} \in (SUBSET Linkable) \ {{}}
        BY <3>1
      <4> QED
        BY <4>1, <4>2 DEF Acyclic
    <3>5. CASE here \notin S /\ skip \in S
      <4>1. \A n \in S : nxt[n] \in S
        BY <3>1, <3>2, <3>5
      <4> QED
        BY <4>1 DEF Acyclic
    <3> QED
      BY <3>3, <3>4, <3>5
  <2>6. CASE PushBegin \/ PushWalk \/ PushNotify \/ UNCHANGED vars
    BY <2>1, <2>6 DEF PushBegin, PushWalk, PushNotify, message, vars
  <2>7. ASSUME NEW c \in Consumers, Consume(c), ~(Deliver(c) \/ Exhaust(c) \/ Prune(c))
        PROVE  nxt' = nxt
    BY <2>7 DEF Consume, Run, CreateConsumer, Call, Enter, Await, Wake, Cancel, Claim,
                Leave, Release, Die, message
  <2>8. ASSUME NEW c \in Consumers, Consume(c) PROVE Acyclic'
    BY <2>1, <2>3, <2>4, <2>5, <2>7, <2>8
  <2> QED
    BY <2>2, <2>6, <2>8 DEF Next, Push
<1> QED
  BY <1>1, <1>2, TypeCorrect, MutexHeld, Extent, PTL DEF Spec

\* Consumers that hold a node and wait for the next never wait in a circle:
\* the nodes they hold would be a circle of pointers.
THEOREM NoDeadlock == Spec => []NoLockCycle
<1>1. TypeOK /\ MutexInv /\ Acyclic => NoLockCycle
  <2> SUFFICES ASSUME TypeOK, MutexInv, Acyclic,
                      NEW S \in (SUBSET {c \in Consumers : pc[c] = "walk"}) \ {{}},
                      \A c \in S : \E d \in S : at[c] = cur[d]
               PROVE  FALSE
    BY DEF NoLockCycle
  <2> DEFINE held == {cur[c] : c \in S}
  <2>1. held \in (SUBSET Linkable) \ {{}}
    <3>1. \A c \in S : cur[c] \in Linkable
      BY DEF TypeOK
    <3>2. PICK c \in S : TRUE
      OBVIOUS
    <3>3. cur[c] \in held
      OBVIOUS
    <3> QED
      BY <3>1, <3>3
  <2>2. \A n \in held : nxt[n] \in held
    BY DEF MutexInv
  <2> HIDE DEF held
  <2> QED
    BY <2>1, <2>2 DEF Acyclic
<1> QED
  BY <1>1, TypeCorrect, MutexHeld, AcyclicList, PTL

-----------------------------------------------------------------------------
(* No pointer passes an unclaimed message. *)

Between(a, m, b) == (a < m /\ m < b) \/ (b < m /\ m < a)

\* Neither a pointer forward nor one back passes an unclaimed message, an
\* unclaimed node never points back, and when the pusher walks there is no
\* unclaimed message behind the node it has reached.
OrderInv ==
  /\ \A n \in Linkable : nxt[n] # TailNode =>
        /\ \A m \in full \intersect Linked : ~Between(n, m, nxt[n])
        /\ n \in full => n < nxt[n]
  /\ ppc = "link" => \A m \in full \intersect Linked : m <= end

\* Claims and prunings of many consumers never hide an unclaimed message.
THEOREM Order == Spec => []OrderInv
<1>1. Init => OrderInv
  BY DEF Init, OrderInv
<1>2. TypeOK /\ MutexInv /\ ExtentInv /\ Acyclic /\ OrderInv /\ [Next]_vars => OrderInv'
  <2> SUFFICES ASSUME TypeOK, MutexInv, ExtentInv, Acyclic, OrderInv, [Next]_vars
               PROVE  OrderInv'
    OBVIOUS
  <2>1. ASSUME full' \subseteq full, UNCHANGED <<nxt, pushed, ppc, end>>
        PROVE  OrderInv'
    BY <2>1 DEF OrderInv, Linked, Length
  <2>2. CASE PushBegin
    <3>1. /\ ppc = "idle" /\ ppc' = "link" /\ pushed' = pushed + 1
          /\ end' = last /\ full' = full \union {pushed'} /\ nxt' = nxt
      BY <2>2 DEF PushBegin
    <3>2. last = pushed /\ Linked = 1 .. pushed /\ Linked' = 1 .. pushed
      BY <3>1, QueueAssumption DEF ExtentInv, Length, Linked, TypeOK, Root
    <3>3. full' \intersect Linked' = full \intersect Linked
      BY <3>1, <3>2, QueueAssumption DEF TypeOK, Root
    <3>4. \A n \in Linkable : nxt[n] # TailNode => n # pushed'
      BY <3>1, <3>2, QueueAssumption DEF ExtentInv, TypeOK, Length, Root, TailNode, Linkable
    <3>5. \A m \in full' \intersect Linked' : m <= end'
      BY <3>1, <3>2, <3>3
    <3> QED
      BY <3>1, <3>3, <3>4, <3>5 DEF OrderInv
  <2>3. CASE PushWalk
    <3>1. /\ ppc = "link" /\ nxt[end] # TailNode /\ end' = nxt[end]
          /\ UNCHANGED <<full, nxt, pushed, ppc>>
      BY <2>3 DEF PushWalk, message
    <3>2. \A m \in full \intersect Linked : m <= nxt[end]
      <4> SUFFICES ASSUME NEW m \in full \intersect Linked, m > nxt[end] PROVE FALSE
        BY QueueAssumption DEF TypeOK, Root, Messages, TailNode, Linkable
      <4>1. m <= end
        BY <3>1 DEF OrderInv
      <4>2. m = end => end < nxt[end]
        BY <3>1 DEF OrderInv, TypeOK
      <4>3. ~Between(end, m, nxt[end])
        BY <3>1 DEF OrderInv, TypeOK
      <4> QED
        BY <4>1, <4>2, <4>3, QueueAssumption
        DEF Between, TypeOK, Root, Messages, TailNode, Linkable
    <3> QED
      BY <3>1, <3>2 DEF OrderInv, Linked, Length
  <2>4. CASE PushLink
    <3> USE QueueAssumption DEF TypeOK, ExtentInv, Length, Root, Messages, TailNode, Linkable
    <3>1. /\ ppc = "link" /\ ppc' = "notify" /\ pushed' = pushed /\ full' = full
          /\ nxt' = [nxt EXCEPT ![end] = pushed]
      BY <2>4 DEF PushLink
    <3>2. Linked = 1 .. pushed - 1 /\ Linked' = 1 .. pushed
      BY <3>1 DEF Linked
    <3>3. ASSUME NEW n \in Linkable, n # end, nxt[n] # TailNode
          PROVE  /\ \A m \in full \intersect Linked' : ~Between(n, m, nxt[n])
                 /\ n \in full => n < nxt[n]
      BY <3>1, <3>2, <3>3 DEF OrderInv, Between
    <3>4. \A m \in full \intersect Linked' : ~Between(end, m, pushed)
      BY <3>1, <3>2 DEF OrderInv, Between
    <3>5. end < pushed
      BY <3>1
    <3> QED
      BY <3>1, <3>3, <3>4, <3>5 DEF OrderInv
  <2>5. CASE PushNotify
    <3>1. /\ ppc = "notify" /\ ppc' = "idle"
          /\ UNCHANGED <<full, nxt, pushed, end>>
      BY <2>5 DEF PushNotify, message
    <3> QED
      BY <3>1 DEF OrderInv, Linked, Length
  <2>6. ASSUME NEW c \in Consumers, Consume(c) PROVE OrderInv'
    <3>1. CASE CreateConsumer(c)
      BY <2>1, <3>1 DEF CreateConsumer, message, pusher
    <3>2. ASSUME NEW blocks \in BOOLEAN, Call(c, blocks) PROVE OrderInv'
      BY <2>1, <3>2 DEF Call, message, pusher
    <3>3. CASE Enter(c)
      BY <2>1, <3>3, PassOnEffect DEF Enter, pusher
    <3>4. CASE Deliver(c)
      BY <2>1, <3>4 DEF Deliver, MutexInv, TypeOK, pusher
    <3>5. CASE Prune(c)
      <4> DEFINE here == cur[c]
                 skip == at[c]
      <4> USE QueueAssumption DEF Root, Messages, TailNode, Linkable
      <4>1. /\ here \in Linkable /\ skip \in Linkable /\ here # skip
            /\ nxt[here] = skip /\ skip \notin full /\ skip # TailNode
        BY <3>5 DEF Prune, Free, MutexInv, TypeOK
      <4>2. /\ nxt'[here] = nxt[skip]
            /\ nxt'[skip] = IF here \in full THEN here ELSE nxt[skip]
            /\ \A n \in Linkable \ {here, skip} : nxt'[n] = nxt[n]
            /\ UNCHANGED <<full, pushed, ppc, end>>
        BY <3>5, <4>1 DEF Prune, TypeOK, pusher
      <4>3. nxt[skip] # here
        <5> SUFFICES ASSUME nxt[skip] = here PROVE FALSE
          OBVIOUS
        <5>1. \A n \in {here, skip} : nxt[n] \in {here, skip}
          BY <4>1
        <5>2. {here, skip} \in (SUBSET Linkable) \ {{}}
          BY <4>1
        <5> QED
          BY <5>1, <5>2 DEF Acyclic
      <4>4. /\ \A m \in full \intersect Linked : ~Between(here, m, skip)
            /\ here \in full => here < skip
            /\ here \in full => here \in Linked
        BY <4>1 DEF OrderInv, ExtentInv, Linked, Length, TypeOK
      <4>5. nxt[skip] # TailNode =>
              \A m \in full \intersect Linked : ~Between(skip, m, nxt[skip])
        BY <4>1 DEF OrderInv
      <4>6. nxt[skip] # TailNode =>
              /\ \A m \in full \intersect Linked : ~Between(here, m, nxt[skip])
              /\ here \in full => here < nxt[skip]
        <5> SUFFICES ASSUME nxt[skip] # TailNode
                     PROVE  /\ \A m \in full \intersect Linked : ~Between(here, m, nxt[skip])
                            /\ here \in full => here < nxt[skip]
          OBVIOUS
        <5>1. here \in Int /\ skip \in Int /\ nxt[skip] \in Int
          BY <4>1 DEF TypeOK
        <5>2. \A m \in full \intersect Linked : m \in Int /\ m # skip
          BY <4>1 DEF TypeOK
        <5> HIDE DEF here, skip
        <5>3. \A m \in full \intersect Linked : ~Between(here, m, nxt[skip])
          BY <4>4, <4>5, <5>1, <5>2 DEF Between
        <5>4. here \in full => here < nxt[skip]
          BY <4>3, <4>4, <4>5, <5>1 DEF Between
        <5> QED
          BY <5>3, <5>4
      <4>7. \A m \in full \intersect Linked : ~Between(skip, m, here)
        BY <4>4 DEF Between
      <4>8. full' \intersect Linked' = full \intersect Linked
        BY <4>2 DEF Linked, Length
      <4> HIDE DEF here, skip
      <4>9. ASSUME NEW n \in Linkable, nxt'[n] # TailNode
            PROVE  /\ \A m \in full' \intersect Linked' : ~Between(n, m, nxt'[n])
                   /\ n \in full' => n < nxt'[n]
        <5>1. CASE n = here
          BY <4>2, <4>6, <4>8, <4>9, <5>1
        <5>2. CASE n = skip
          BY <4>1, <4>2, <4>5, <4>7, <4>8, <4>9, <5>2
        <5>3. CASE n \notin {here, skip}
          BY <4>2, <4>8, <4>9, <5>3 DEF OrderInv
        <5> QED
          BY <5>1, <5>2, <5>3
      <4> QED
        BY <4>2, <4>8, <4>9 DEF OrderInv
    <3>6. CASE Exhaust(c)
      BY <2>1, <3>6 DEF Exhaust, MutexInv, TypeOK, pusher
    <3>7. CASE Wake(c)
      BY <2>1, <3>7 DEF Wake, message, pusher
    <3>8. CASE Cancel(c)
      BY <2>1, <3>8 DEF Cancel, message, pusher
    <3>9. ASSUME NEW m \in Messages, Claim(c, m) PROVE OrderInv'
      BY <2>1, <3>9 DEF Claim, pusher
    <3>10. CASE Leave(c)
      BY <2>1, <3>10 DEF Leave, message, pusher
    <3>11. CASE Release(c)
      BY <2>1, <3>11, PassOnEffect DEF Release, pusher
    <3>12. CASE Die(c)
      BY <2>1, <3>12 DEF Die, message, pusher
    <3>13. CASE Await(c)
      BY <2>1, <3>13 DEF Await, message, pusher
    <3> QED
      BY <2>6, <3>1, <3>2, <3>3, <3>4, <3>5, <3>6, <3>7, <3>8, <3>9, <3>10, <3>11, <3>12, <3>13 DEF Consume, Run
  <2>7. CASE UNCHANGED vars
    BY <2>1, <2>7 DEF vars, message, pusher
  <2> QED
    BY <2>2, <2>3, <2>4, <2>5, <2>6, <2>7 DEF Next, Push
<1> QED
  BY <1>1, <1>2, TypeCorrect, MutexHeld, Extent, AcyclicList, PTL DEF Spec

\* No step takes a consumer past a message that is unclaimed at that moment:
\* what a consumer misses was claimed, or is not in the list it can reach.
THEOREM NothingSkipped == Spec => SkipsOnlyClaimed
<1> DEFINE Skip == \A c \in Consumers : \A m \in full : ~(cur[c] < m /\ m < cur'[c])
<1>1. TypeOK /\ MutexInv /\ ExtentInv /\ OrderInv /\ [Next]_vars => [Skip]_vars
  <2> SUFFICES ASSUME TypeOK, MutexInv, ExtentInv, OrderInv, Next,
                      NEW d \in Consumers, NEW m \in full,
                      cur[d] < m, m < cur'[d]
               PROVE  FALSE
    BY DEF Skip
  <2>1. cur'[d] # cur[d]
    BY QueueAssumption DEF TypeOK, Linkable, Root, Messages
  <2>2. PICK c \in Consumers : Deliver(c)
    BY <2>1 DEF Next, Push, PushBegin, PushWalk, PushLink, PushNotify, consumer,
                Consume, Run, CreateConsumer, Call, Enter, Prune, Exhaust, Return,
                Await, Wake, Cancel, Claim, Leave, Release, Die
  <2>3. c = d /\ cur'[d] = at[d] /\ at[d] = nxt[cur[d]] /\ at[d] # TailNode
    BY <2>1, <2>2, QueueAssumption DEF Deliver, MutexInv, TypeOK, Messages, TailNode
  <2>4. m \in Linked /\ Between(cur[d], m, nxt[cur[d]])
    BY <2>3, QueueAssumption
    DEF ExtentInv, TypeOK, Linked, Length, Between, Root, Messages, TailNode, Linkable
  <2> QED
    BY <2>3, <2>4 DEF OrderInv, TypeOK
<1> QED
  BY <1>1, TypeCorrect, MutexHeld, Extent, Order, PTL DEF Spec, SkipsOnlyClaimed

-----------------------------------------------------------------------------
(* The automatic drop. *)

\* What is left in target_consumers is exactly who has not passed the message
\* on; nothing is recorded of a message before it is pushed.
DropInv ==
  /\ \A m \in Messages : targets[m] = audience[m] \ passed[m]
  /\ \A m \in Messages : m > pushed => m \notin dropped /\ passed[m] = {}
  /\ ~Autodrop => active = {} /\ \A m \in Messages : audience[m] = {}
  /\ AutodropSafe
  /\ PassedIsDropped

\* Whatever consumers do between the steps of a drop and of a pass, a message
\* goes with the last of those it was meant for and not before.
THEOREM AutomaticDrop == Spec => []DropInv
<1>1. Init => DropInv
  BY DEF Init, DropInv, AutodropSafe, PassedIsDropped
<1>2. TypeOK /\ ExtentInv /\ DropInv /\ [Next]_vars => DropInv'
  <2> SUFFICES ASSUME TypeOK, ExtentInv, DropInv, [Next]_vars PROVE DropInv'
    OBVIOUS
  <2>1. ASSUME UNCHANGED <<targets, audience, passed, dropped, pushed>>,
               full' \subseteq full, active' \subseteq active \/ Autodrop,
               \A c \in Consumers : life[c] = "dead" => life'[c] = "dead"
        PROVE  DropInv'
    BY <2>1 DEF DropInv, AutodropSafe, PassedIsDropped, TypeOK
  <2>2. CASE PushBegin
    <3>1. /\ pushed' = pushed + 1 /\ pushed' \in Messages
          /\ full' = full \union {pushed'} /\ targets' = [targets EXCEPT ![pushed'] = active]
          /\ audience' = [audience EXCEPT ![pushed'] = active]
          /\ UNCHANGED <<active, life, passed, dropped>>
      BY <2>2, QueueAssumption DEF PushBegin, TypeOK, consumer, Messages, Root
    <3>2. pushed' \notin dropped /\ passed[pushed'] = {}
      BY <3>1, QueueAssumption DEF DropInv, TypeOK, Root
    <3>3. \A m \in Messages : targets'[m] = audience'[m] \ passed'[m]
      BY <3>1, <3>2 DEF DropInv, TypeOK
    <3>4. \A m \in Messages : m > pushed' => m \notin dropped' /\ passed'[m] = {}
      BY <3>1, QueueAssumption DEF DropInv, TypeOK, Root, Messages
    <3>5. AutodropSafe'
      BY <3>1, <3>2 DEF DropInv, AutodropSafe, TypeOK
    <3>6. PassedIsDropped'
      BY <3>1, <3>2 DEF DropInv, PassedIsDropped, TypeOK
    <3>7. ~Autodrop => active' = {} /\ \A m \in Messages : audience'[m] = {}
      BY <3>1 DEF DropInv, TypeOK
    <3> QED
      BY <3>3, <3>4, <3>5, <3>6, <3>7 DEF DropInv
  <2>3. CASE PushWalk \/ PushLink \/ PushNotify
    BY <2>1, <2>3 DEF PushWalk, PushLink, PushNotify, message, consumer, history
  <2>4. ASSUME NEW c \in Consumers, PassOn(c), UNCHANGED <<active, pushed, audience>>,
               \A d \in Consumers : life[d] = "dead" => life'[d] = "dead"
        PROVE  DropInv'
    <3> DEFINE spent(m) == \A d \in targets[m] \ {c} : life[d] = "dead"
    <3>1. ASSUME NEW m \in Messages PROVE targets'[m] = audience'[m] \ passed'[m]
      BY <2>4, PassOnEffect DEF DropInv
    <3>2. \A m \in Messages : m > pushed => m \notin dropped' /\ passed'[m] = {}
      <4>1. \A m \in Messages : m > pushed => m # cur[c] /\ m \notin full
        BY QueueAssumption DEF ExtentInv, Length, TypeOK, Root, Messages, Linkable
      <4> QED
        BY <2>4, <4>1, PassOnEffect DEF DropInv
    <3>3. ASSUME NEW m \in dropped', NEW d \in audience'[m]
          PROVE  d \in passed'[m] \/ life'[d] = "dead"
      <4>1. m \in Messages /\ d \in audience[m] /\ d \in Consumers
        BY <2>4, <3>3, PassOnEffect DEF TypeOK
      <4>2. CASE m \in dropped
        BY <2>4, <4>1, <4>2, PassOnEffect DEF DropInv, AutodropSafe
      <4>3. CASE m \notin dropped
        <5>1. m = cur[c] /\ spent(m)
          BY <2>4, <3>3, <4>3, PassOnEffect
        <5>2. passed'[m] = passed[m] \union {c} /\ targets[m] = audience[m] \ passed[m]
          BY <2>4, <4>1, <5>1, PassOnEffect DEF DropInv
        <5> QED
          BY <2>4, <4>1, <5>1, <5>2
      <4> QED
        BY <4>2, <4>3
    <3>4. ASSUME NEW m \in Messages, audience'[m] # {}, audience'[m] \subseteq passed'[m]
          PROVE  m \notin full'
      <4>1. Autodrop
        BY <2>4, <3>4 DEF DropInv
      <4>2. CASE m # cur[c]
        BY <2>4, <3>4, <4>2, PassOnEffect DEF DropInv, PassedIsDropped
      <4>3. CASE m = cur[c]
        <5>1. passed'[m] = passed[m] \union {c} /\ targets[m] = audience[m] \ passed[m]
          BY <2>4, <4>3, PassOnEffect DEF DropInv
        <5>2. targets[m] \ {c} = {}
          BY <2>4, <3>4, <5>1
        <5> QED
          BY <2>4, <4>1, <4>3, <5>2, PassOnEffect
      <4> QED
        BY <4>2, <4>3
    <3> QED
      BY <2>4, <3>1, <3>2, <3>3, <3>4 DEF DropInv, AutodropSafe, PassedIsDropped
  <2>5. ASSUME NEW c \in Consumers, Consume(c) PROVE DropInv'
    <3>1. CASE CreateConsumer(c)
      BY <2>1, <3>1 DEF CreateConsumer, message, pusher, history, TypeOK
    <3>2. ASSUME NEW blocks \in BOOLEAN, Call(c, blocks) PROVE DropInv'
      BY <2>1, <3>2 DEF Call, message, pusher, history
    <3>3. CASE Enter(c)
      BY <2>4, <3>3 DEF Enter, pusher
    <3>4. CASE Deliver(c)
      BY <2>1, <3>4 DEF Deliver, pusher
    <3>5. CASE Prune(c)
      BY <2>1, <3>5 DEF Prune, pusher, history
    <3>6. CASE Exhaust(c)
      BY <2>1, <3>6 DEF Exhaust, pusher, history
    <3>7. CASE Wake(c)
      BY <2>1, <3>7 DEF Wake, message, pusher, history
    <3>8. CASE Cancel(c)
      BY <2>1, <3>8 DEF Cancel, message, pusher, history
    <3>9. ASSUME NEW m \in Messages, Claim(c, m) PROVE DropInv'
      BY <2>1, <3>9 DEF Claim, consumer, pusher, history
    <3>10. CASE Leave(c)
      BY <2>1, <3>10 DEF Leave, message, pusher, history, TypeOK
    <3>11. CASE Release(c)
      BY <2>4, <3>11 DEF Release, pusher, TypeOK
    <3>12. CASE Die(c)
      BY <2>1, <3>12 DEF Die, message, pusher, history, TypeOK
    <3>13. CASE Await(c)
      BY <2>1, <3>13 DEF Await, message, pusher, history
    <3> QED
      BY <2>5, <3>1, <3>2, <3>3, <3>4, <3>5, <3>6, <3>7, <3>8, <3>9, <3>10, <3>11, <3>12, <3>13 DEF Consume, Run
  <2>6. CASE UNCHANGED vars
    BY <2>1, <2>6 DEF vars, message, consumer, pusher, history
  <2> QED
    BY <2>2, <2>3, <2>5, <2>6 DEF Next, Push
<1> QED
  BY <1>1, <1>2, TypeCorrect, Extent, PTL DEF Spec

\* No message is dropped under a consumer that may still read it or move on.
THEOREM AutodropIsSafe == Spec => []AutodropSafe
  BY AutomaticDrop, PTL DEF DropInv

\* The last consumer to pass a message on drops it.
THEOREM LastDrops == Spec => []PassedIsDropped
  BY AutomaticDrop, PTL DEF DropInv
-----------------------------------------------------------------------------
(* A queue in which nothing is skipped. *)

\* Nobody claims, and with the feature "autodrop" every consumer is there before
\* the first push; or the queue has one consumer of its own, which does what it
\* likes.  In both cases what is gone lies behind everyone who could miss it.
Orderly ==
  \/ ~Claims /\ (Autodrop => ~LateJoins)
  \/ \A c, d \in Consumers \ Strangers : c = d

\* The list has every message in it, and the pusher starts at its end.
Straight ==
  /\ \A n \in Linkable : nxt[n] = IF n < Length THEN n + 1 ELSE TailNode
  /\ ppc = "link" => end = Length

\* Only consumers of this queue that live are in a call; nobody moves before.
Stages ==
  /\ \A c \in Strangers : cur[c] = Root
  /\ \A c \in Consumers : /\ pc[c] # "idle" => life[c] = "live" /\ c \notin Strangers
                          /\ life[c] = "unborn" => cur[c] = Root
                          /\ pc[c] \in {"none", "wait"} => c \in blocking

\* A consumer was given what lies up to its node, and passed on nothing beyond.
Behind ==
  \A c \in Consumers : /\ seen[c] = 1 .. cur[c]
                       /\ \A m \in Messages : c \in passed[m] => m <= cur[c]

\* What is gone was dropped or claimed at, or before, the node of a consumer.
Gone ==
  /\ \A m \in (1 .. pushed) \ full : \E c \in Consumers \ Strangers : m <= cur[c]
  /\ ~Claims => (1 .. pushed) \ full \subseteq dropped
  /\ ~Autodrop => dropped = {}

\* Every message is meant for all who were there from the beginning.
MeantForAll ==
  Autodrop /\ ~LateJoins =>
    \A c \in Consumers : life[c] = "live" => c \in active /\ \A m \in 1 .. pushed : c \in audience[m]

\* Who found the tail and has not been notified since is at the end.
AtTheEnd ==
  \A c \in Consumers :
     pc[c] \in {"none", "wait"} /\ c \notin notified /\ ppc # "notify" => cur[c] = Length

OrderlyInv == Straight /\ Stages /\ Behind /\ Gone /\ MeantForAll /\ AtTheEnd

\* Nothing is gone that a live consumer has still before it.
LEMMA Unread ==
  ASSUME Orderly, TypeOK, ExtentInv, DropInv, OrderlyInv,
         NEW c \in Consumers \ Strangers, life[c] = "live", NEW m \in 1 .. pushed, cur[c] < m
  PROVE  m \in full
<1> SUFFICES ASSUME m \notin full PROVE FALSE
  OBVIOUS
<1> USE QueueAssumption
<1>1. m \in Messages /\ c \in Consumers /\ cur[c] \in Int
  BY DEF TypeOK, Messages, Linkable, Root
<1>2. CASE \A d, e \in Consumers \ Strangers : d = e
  BY <1>1, <1>2 DEF OrderlyInv, Gone
<1>3. CASE ~Claims /\ (Autodrop => ~LateJoins)
  <2>1. m \in dropped /\ Autodrop
    BY <1>3 DEF OrderlyInv, Gone
  <2>2. c \in audience[m]
    BY <1>1, <1>3, <2>1 DEF OrderlyInv, MeantForAll
  <2>3. c \in passed[m]
    BY <1>1, <2>1, <2>2 DEF DropInv, AutodropSafe
  <2> QED
    BY <1>1, <2>3 DEF OrderlyInv, Behind
<1> QED
  BY <1>2, <1>3 DEF Orderly

\* A walk goes to the next message, or it is at the end.
LEMMA NextIsNext ==
  ASSUME TypeOK, MutexInv, ExtentInv, OrderlyInv, NEW c \in Consumers, pc[c] = "walk"
  PROVE  /\ cur[c] < Length => at[c] = cur[c] + 1
         /\ cur[c] = Length <=> at[c] = TailNode
         /\ cur[c] \in Int /\ Length \in Int /\ cur[c] <= Length /\ at[c] = nxt[cur[c]]
<1>1. cur[c] \in Linkable /\ at[c] = nxt[cur[c]] /\ cur[c] <= Length
  BY DEF TypeOK, MutexInv, ExtentInv
<1>2. Length \in 0 .. MaxMessages /\ Linkable = 0 .. MaxMessages /\ TailNode = MaxMessages + 1
  BY QueueAssumption DEF TypeOK, ExtentInv, Length, Linkable, Root, TailNode
<1>3. nxt[cur[c]] = IF cur[c] < Length THEN cur[c] + 1 ELSE TailNode
  BY <1>1 DEF OrderlyInv, Straight
<1> QED
  BY <1>1, <1>2, <1>3, QueueAssumption

\* So nobody prunes.
LEMMA NobodyPrunes ==
  ASSUME Orderly, TypeOK, MutexInv, ExtentInv, DropInv, OrderlyInv, NEW c \in Consumers
  PROVE  ~Prune(c)
<1> SUFFICES ASSUME Prune(c) PROVE FALSE
  OBVIOUS
<1>1. pc[c] = "walk" /\ at[c] \notin full /\ at[c] # TailNode
  BY DEF Prune
<1>2. c \in Consumers \ Strangers /\ life[c] = "live"
  BY <1>1 DEF OrderlyInv, Stages
<1>3. at[c] = cur[c] + 1 /\ cur[c] \in Int /\ Length \in Int /\ cur[c] < Length
  BY <1>1, NextIsNext
<1>4. at[c] \in 1 .. pushed /\ cur[c] < at[c]
  BY <1>3, QueueAssumption DEF TypeOK, Length, Root, Linkable
<1> QED
  BY <1>1, <1>2, <1>4, Unread

\* A consumer that is given a message is given the next one.
LEMMA DeliversNext ==
  ASSUME TypeOK, MutexInv, ExtentInv, OrderlyInv, NEW c \in Consumers, Deliver(c)
  PROVE  /\ cur[c] \in 0 .. MaxMessages /\ at[c] = cur[c] + 1 /\ at[c] \in Messages /\ at[c] <= Length
         /\ cur' = [cur EXCEPT ![c] = cur[c] + 1] /\ nxt' = nxt
         /\ seen' = [seen EXCEPT ![c] = @ \union {cur[c] + 1}]
<1>1. pc[c] = "walk" /\ at[c] \in full
  BY DEF Deliver
<1>2. at[c] \in Messages /\ at[c] # TailNode /\ cur[c] \in 0 .. MaxMessages
  BY <1>1, QueueAssumption DEF TypeOK, Messages, TailNode, Linkable, Root
<1>3. at[c] = cur[c] + 1 /\ at[c] <= Length
  BY <1>1, <1>2, NextIsNext
<1>4. nxt' = nxt
  BY <1>1, NextIsNext DEF Deliver, TypeOK
<1> QED
  BY <1>2, <1>3, <1>4 DEF Deliver

LEMMA OrderlyInit == Init => OrderlyInv
BY QueueAssumption DEF Init, OrderlyInv, Straight, Stages, Behind, Gone, MeantForAll, AtTheEnd,
                       Length, Root, TailNode, Linkable, Messages

\* What the steps of a consumer leave alone.
LEMMA ConsumerFrame ==
  ASSUME Orderly, TypeOK, MutexInv, ExtentInv, DropInv, OrderlyInv, NEW c \in Consumers, Consume(c)
  PROVE  /\ UNCHANGED <<nxt, pushed, ppc, end, last, audience>> /\ Length' = Length /\ Linked' = Linked
         /\ full' \subseteq full
<1>1. CASE Deliver(c)
  BY <1>1, DeliversNext DEF Deliver, pusher, Length, Linked
<1>2. CASE Exhaust(c)
  <2>1. nxt' = nxt
    BY <1>2 DEF Exhaust, MutexInv, TypeOK
  <2> QED
    BY <1>2, <2>1 DEF Exhaust, pusher, history, Length, Linked
<1>3. CASE Enter(c)
  BY <1>3, PassOnEffect DEF Enter, pusher, Length, Linked
<1>4. CASE Release(c)
  BY <1>4, PassOnEffect DEF Release, pusher, Length, Linked
<1>5. CASE \E m \in Messages : Claim(c, m)
  BY <1>5 DEF Claim, pusher, history, Length, Linked
<1>6. CASE CreateConsumer(c) \/ (\E blocks \in BOOLEAN : Call(c, blocks)) \/ Await(c) \/ Wake(c)
           \/ Cancel(c) \/ Leave(c) \/ Die(c)
  BY <1>6 DEF CreateConsumer, Call, Await, Wake, Cancel, Leave, Die, message, pusher, history, Length, Linked
<1> QED
  BY <1>1, <1>2, <1>3, <1>4, <1>5, <1>6, NobodyPrunes DEF Consume, Run

LEMMA StraightKept ==
  ASSUME Orderly, TypeOK, MutexInv, ExtentInv, DropInv, OrderlyInv, [Next]_vars
  PROVE  Straight'
<1> USE QueueAssumption DEF OrderlyInv, Straight
<1>1. UNCHANGED <<nxt, pushed, ppc, end>> => Straight'
  BY DEF Length
<1>2. CASE PushBegin
  <2>1. Length' = Length /\ end' = Length /\ nxt' = nxt
    BY <1>2 DEF PushBegin, Length, ExtentInv, TypeOK, Root
  <2> QED
    BY <2>1
<1>3. ~PushWalk
  <2> SUFFICES ASSUME PushWalk PROVE FALSE
    OBVIOUS
  <2>1. end = Length /\ nxt[end] # TailNode /\ end \in Linkable
    BY DEF PushWalk, TypeOK
  <2>2. ~(end < Length)
    BY <2>1 DEF TypeOK, Linkable, Root
  <2> QED
    BY <2>1, <2>2
<1>4. CASE PushLink
  <2>1. ppc = "link" /\ ppc' = "notify" /\ pushed' = pushed /\ nxt' = [nxt EXCEPT ![end] = pushed]
    BY <1>4 DEF PushLink
  <2>2. pushed \in 1 .. MaxMessages
    BY <2>1 DEF TypeOK, ExtentInv, Root
  <2>3. end = Length /\ Length = pushed - 1 /\ Length' = pushed /\ Length \in 0 .. MaxMessages
    BY <2>1, <2>2 DEF Length
  <2> HIDE DEF Length
  <2>4. ASSUME NEW n \in Linkable PROVE nxt'[n] = IF n < Length' THEN n + 1 ELSE TailNode
    <3>1. n \in 0 .. MaxMessages /\ n \in DOMAIN nxt
      BY DEF Linkable, Root, TypeOK
    <3>2. CASE n = Length
      BY <2>1, <2>2, <2>3, <3>1, <3>2
    <3>3. CASE n # Length
      BY <2>1, <2>2, <2>3, <3>1, <3>3
    <3> QED
      BY <3>2, <3>3
  <2> QED
    BY <2>1, <2>4
<1>5. CASE PushNotify
  BY <1>5 DEF PushNotify, Length, message
<1>6. ASSUME NEW c \in Consumers, Consume(c) PROVE Straight'
  BY <1>1, <1>6, ConsumerFrame
<1>7. CASE UNCHANGED vars
  BY <1>1, <1>7 DEF vars, message, pusher
<1> QED
  BY <1>2, <1>3, <1>4, <1>5, <1>6, <1>7 DEF Next, Push

\* What a step changes in the life and the calls of a consumer.
LEMMA StagesKept ==
  ASSUME TypeOK, OrderlyInv, [Next]_vars
  PROVE  Stages'
<1> USE DEF OrderlyInv, Stages, TypeOK
<1>1. CASE Push
  BY <1>1 DEF Push, PushBegin, PushWalk, PushLink, PushNotify, consumer
<1>2. ASSUME NEW c \in Consumers, Consume(c) PROVE Stages'
  <2>1. CASE CreateConsumer(c)
    BY <2>1 DEF CreateConsumer
  <2>2. ASSUME NEW blocks \in BOOLEAN, Call(c, blocks) PROVE Stages'
    BY <2>2 DEF Call
  <2>3. CASE Enter(c)
    BY <2>3 DEF Enter
  <2>4. CASE Deliver(c)
    BY <2>4 DEF Deliver, Return
  <2>5. CASE Prune(c)
    BY <2>5 DEF Prune
  <2>6. CASE Exhaust(c)
    BY <2>6 DEF Exhaust, Return
  <2>7. CASE Await(c)
    BY <2>7 DEF Await
  <2>8. CASE Wake(c)
    BY <2>8 DEF Wake
  <2>9. CASE Cancel(c)
    BY <2>9 DEF Cancel, Return
  <2>10. ASSUME NEW m \in Messages, Claim(c, m) PROVE Stages'
    BY <2>10 DEF Claim, consumer
  <2>11. CASE Leave(c)
    BY <2>11 DEF Leave
  <2>12. CASE Release(c)
    BY <2>12 DEF Release
  <2>13. CASE Die(c)
    BY <2>13 DEF Die
  <2> QED
    BY <1>2, <2>1, <2>2, <2>3, <2>4, <2>5, <2>6, <2>7, <2>8, <2>9, <2>10, <2>11, <2>12, <2>13 DEF Consume, Run
<1>3. CASE UNCHANGED vars
  BY <1>3 DEF vars, consumer
<1> QED
  BY <1>1, <1>2, <1>3 DEF Next

LEMMA BehindKept ==
  ASSUME Orderly, TypeOK, MutexInv, ExtentInv, DropInv, OrderlyInv, [Next]_vars
  PROVE  Behind'
<1> USE DEF OrderlyInv, Behind
<1>1. UNCHANGED <<seen, cur, passed>> => Behind'
  OBVIOUS
<1>2. CASE Push
  BY <1>1, <1>2 DEF Push, PushBegin, PushWalk, PushLink, PushNotify, consumer, history
<1>3. ASSUME NEW c \in Consumers, PassOn(c), UNCHANGED <<seen, cur>> PROVE Behind'
  <2>1. ASSUME NEW d \in Consumers, NEW m \in Messages, d \in passed'[m] PROVE m <= cur'[d]
    <3>1. d \in passed[m] \/ (d = c /\ m = cur[c])
      BY <1>3, <2>1, PassOnEffect
    <3> QED
      BY <1>3, <3>1 DEF Messages
  <2> QED
    BY <1>3, <2>1
<1>4. ASSUME NEW c \in Consumers, Deliver(c) PROVE Behind'
  <2>1. /\ cur[c] \in 0 .. MaxMessages /\ cur' = [cur EXCEPT ![c] = cur[c] + 1]
        /\ seen' = [seen EXCEPT ![c] = @ \union {cur[c] + 1}] /\ passed' = passed
    BY <1>4, DeliversNext DEF Deliver
  <2>2. ASSUME NEW d \in Consumers PROVE seen'[d] = 1 .. cur'[d] /\ cur[d] <= cur'[d] /\ cur[d] \in Int /\ cur'[d] \in Int
    <3>1. cur[d] \in 0 .. MaxMessages /\ seen[d] = 1 .. cur[d] /\ d \in DOMAIN cur /\ d \in DOMAIN seen
      BY DEF TypeOK, Linkable, Root
    <3>2. CASE d = c
      <4>1. seen'[d] = (1 .. cur[d]) \union {cur[d] + 1} /\ cur'[d] = cur[d] + 1
        BY <2>1, <3>1, <3>2
      <4> QED
        BY <3>1, <4>1, QueueAssumption
    <3>3. CASE d # c
      BY <2>1, <3>1, <3>3, QueueAssumption
    <3> QED
      BY <3>2, <3>3
  <2>3. ASSUME NEW d \in Consumers, NEW m \in Messages, d \in passed'[m] PROVE m <= cur'[d]
    BY <2>1, <2>2, <2>3 DEF Messages
  <2> QED
    BY <2>2, <2>3
<1>5. ASSUME NEW c \in Consumers, Consume(c) PROVE Behind'
  <2>1. CASE Enter(c)
    BY <1>3, <2>1 DEF Enter
  <2>2. CASE Release(c)
    BY <1>3, <2>2 DEF Release
  <2>3. CASE Exhaust(c)
    BY <1>1, <2>3 DEF Exhaust, history
  <2>4. CASE \E m \in Messages : Claim(c, m)
    BY <1>1, <2>4 DEF Claim, consumer, history
  <2>5. CASE CreateConsumer(c) \/ (\E blocks \in BOOLEAN : Call(c, blocks)) \/ Await(c) \/ Wake(c)
             \/ Cancel(c) \/ Leave(c) \/ Die(c)
    BY <1>1, <2>5 DEF CreateConsumer, Call, Await, Wake, Cancel, Leave, Die, history
  <2> QED
    BY <1>4, <1>5, <2>1, <2>2, <2>3, <2>4, <2>5, NobodyPrunes DEF Consume, Run
<1>6. CASE UNCHANGED vars
  BY <1>1, <1>6 DEF vars, consumer, history
<1> QED
  BY <1>2, <1>5, <1>6 DEF Next

\* A consumer only moves forward, and one of another queue not at all.
LEMMA MovesForward ==
  ASSUME Orderly, TypeOK, MutexInv, ExtentInv, DropInv, OrderlyInv, [Next]_vars
  PROVE  \A c \in Consumers : cur[c] <= cur'[c] /\ cur[c] \in Int /\ cur'[c] \in Int
<1>1. \A c \in Consumers : cur[c] \in 0 .. MaxMessages
  BY DEF TypeOK, Linkable, Root
<1>2. cur' = cur => \A c \in Consumers : cur[c] <= cur'[c] /\ cur[c] \in Int /\ cur'[c] \in Int
  BY <1>1, QueueAssumption
<1>3. ASSUME NEW c \in Consumers, Deliver(c)
      PROVE  \A d \in Consumers : cur[d] <= cur'[d] /\ cur[d] \in Int /\ cur'[d] \in Int
  <2>1. cur' = [cur EXCEPT ![c] = cur[c] + 1] /\ DOMAIN cur = Consumers
    BY <1>3, DeliversNext DEF TypeOK
  <2> QED
    BY <1>1, <2>1, QueueAssumption
<1>4. Next => cur' = cur \/ \E c \in Consumers : Deliver(c)
  BY DEF Next, Push, PushBegin, PushWalk, PushLink, PushNotify, consumer, Consume, Run, CreateConsumer,
         Call, Enter, Prune, Exhaust, Return, Await, Wake, Cancel, Claim, Leave, Release, Die
<1> QED
  BY <1>2, <1>3, <1>4 DEF vars, consumer

LEMMA GoneKept ==
  ASSUME Orderly, TypeOK, MutexInv, ExtentInv, DropInv, OrderlyInv, [Next]_vars
  PROVE  Gone'
<1>1. ASSUME pushed' = pushed, dropped \subseteq dropped', ~Autodrop => dropped' = dropped,
             \A m \in full \ full' : /\ \E c \in Consumers \ Strangers : m <= cur[c]
                                     /\ ~Claims => m \in dropped'
      PROVE  Gone'
  <2>1. ASSUME NEW m \in (1 .. pushed') \ full'
        PROVE  /\ \E c \in Consumers \ Strangers : m <= cur'[c]
               /\ ~Claims => m \in dropped'
    <3>1. /\ \E c \in Consumers \ Strangers : m <= cur[c]
          /\ ~Claims => m \in dropped'
      BY <1>1, <2>1 DEF OrderlyInv, Gone
    <3>2. PICK c \in Consumers \ Strangers : m <= cur[c]
      BY <3>1
    <3>3. cur[c] <= cur'[c] /\ cur[c] \in Int /\ cur'[c] \in Int /\ m \in Int
      BY MovesForward
    <3>4. m <= cur'[c]
      BY <3>2, <3>3
    <3> QED
      BY <3>1, <3>4
  <2> QED
    BY <1>1, <2>1 DEF OrderlyInv, Gone
<1>2. CASE PushBegin
  <2>1. /\ pushed' = pushed + 1 /\ full' = full \union {pushed'} /\ dropped' = dropped
        /\ cur' = cur /\ pushed \in Int
    BY <1>2, QueueAssumption DEF PushBegin, consumer, TypeOK, Root
  <2>2. (1 .. pushed') \ full' \subseteq (1 .. pushed) \ full
    BY <2>1
  <2> QED
    BY <2>1, <2>2 DEF OrderlyInv, Gone
<1>3. CASE PushWalk \/ PushLink \/ PushNotify
  BY <1>1, <1>3 DEF PushWalk, PushLink, PushNotify, message, history
<1>4. ASSUME NEW c \in Consumers, PassOn(c), pushed' = pushed PROVE Gone'
  <2>1. ~Autodrop \/ cur[c] \notin Messages => full' = full /\ dropped' = dropped
    BY <1>4 DEF PassOn
  <2>2. CASE Autodrop /\ cur[c] \in Messages
    <3>1. dropped \subseteq dropped' /\ \A m \in full \ full' : m = cur[c] /\ m \in dropped'
      BY <1>4, <2>2 DEF PassOn
    <3>2. c \in Consumers \ Strangers /\ cur[c] <= cur[c]
      BY <2>2 DEF OrderlyInv, Stages, Messages, Root
    <3> QED
      BY <1>1, <1>4, <2>2, <3>1, <3>2
  <2> QED
    BY <1>1, <1>4, <2>1, <2>2
<1>5. ASSUME NEW c \in Consumers, NEW n \in Messages, Claim(c, n) PROVE Gone'
  <2>1. n \in 1 .. cur[c] /\ Claims /\ full' = full \ {n} /\ UNCHANGED <<pushed, dropped>>
    BY <1>5 DEF Claim, OrderlyInv, Behind, pusher, history
  <2>2. c \in Consumers \ Strangers /\ n <= cur[c]
    BY <2>1 DEF OrderlyInv, Stages, Root
  <2> QED
    BY <1>1, <2>1, <2>2
<1>6. ASSUME NEW c \in Consumers, Consume(c) PROVE Gone'
  <2>1. CASE Enter(c)
    BY <1>4, <2>1 DEF Enter, pusher
  <2>2. CASE Release(c)
    BY <1>4, <2>2 DEF Release, pusher
  <2>3. CASE Exhaust(c)
    BY <1>1, <2>3 DEF Exhaust, history, pusher
  <2>4. CASE Deliver(c)
    BY <1>1, <2>4 DEF Deliver, pusher
  <2>5. CASE CreateConsumer(c) \/ (\E blocks \in BOOLEAN : Call(c, blocks)) \/ Await(c) \/ Wake(c)
             \/ Cancel(c) \/ Leave(c) \/ Die(c)
    BY <1>1, <2>5 DEF CreateConsumer, Call, Await, Wake, Cancel, Leave, Die, message, pusher, history
  <2> QED
    BY <1>5, <1>6, <2>1, <2>2, <2>3, <2>4, <2>5, NobodyPrunes DEF Consume, Run
<1>7. CASE UNCHANGED vars
  BY <1>1, <1>7 DEF vars, message, pusher, history
<1> QED
  BY <1>2, <1>3, <1>6, <1>7 DEF Next, Push

LEMMA MeantForAllKept ==
  ASSUME TypeOK, OrderlyInv, [Next]_vars
  PROVE  MeantForAll'
<1> SUFFICES ASSUME Autodrop, ~LateJoins, NEW c \in Consumers, life'[c] = "live"
             PROVE  c \in active' /\ \A m \in 1 .. pushed' : c \in audience'[m]
  BY DEF MeantForAll
<1> USE DEF OrderlyInv, MeantForAll, TypeOK
<1>1. UNCHANGED <<pushed, audience>> /\ (life[c] = "live" => c \in active') /\ life[c] = "live"
        => c \in active' /\ \A m \in 1 .. pushed' : c \in audience'[m]
  OBVIOUS
<1>2. CASE PushBegin
  <2>1. /\ pushed' = pushed + 1 /\ pushed' \in Messages /\ audience' = [audience EXCEPT ![pushed'] = active]
        /\ active' = active /\ life' = life /\ pushed \in Int
    BY <1>2, QueueAssumption DEF PushBegin, consumer, Messages, Root
  <2>2. c \in active /\ \A m \in 1 .. pushed : c \in audience[m]
    BY <2>1
  <2>3. ASSUME NEW m \in 1 .. pushed' PROVE c \in audience'[m]
    <3>1. m \in Messages /\ (m \in 1 .. pushed \/ m = pushed')
      BY <2>1, QueueAssumption DEF Messages
    <3> QED
      BY <2>1, <2>2, <3>1
  <2> QED
    BY <2>1, <2>2, <2>3
<1>3. CASE PushWalk \/ PushLink \/ PushNotify
  BY <1>1, <1>3 DEF PushWalk, PushLink, PushNotify, consumer, history
<1>4. ASSUME NEW d \in Consumers, Consume(d) PROVE c \in active' /\ \A m \in 1 .. pushed' : c \in audience'[m]
  <2>1. CASE CreateConsumer(d)
    <3>1. pushed' = 0 /\ audience' = audience /\ active' = {e \in active : life[e] # "dead"} \union {d}
      BY <2>1 DEF CreateConsumer, pusher, history
    <3>2. life[c] = "live" \/ c = d
      BY <2>1 DEF CreateConsumer
    <3> QED
      BY <3>1, <3>2
  <2>2. CASE Leave(d)
    BY <1>1, <2>2 DEF Leave, pusher, history
  <2>3. CASE Release(d) \/ Die(d)
    BY <1>1, <2>3 DEF Release, Die, pusher, history
  <2>4. CASE \E m \in Messages : Claim(d, m)
    BY <1>1, <2>4 DEF Claim, consumer, pusher, history
  <2>5. CASE (\E blocks \in BOOLEAN : Call(d, blocks)) \/ Run(d) \/ Cancel(d)
    BY <1>1, <2>5 DEF Call, Run, Enter, Deliver, Prune, Exhaust, Await, Wake, Cancel, pusher, history
  <2> QED
    BY <1>4, <2>1, <2>2, <2>3, <2>4, <2>5 DEF Consume
<1>5. CASE UNCHANGED vars
  BY <1>1, <1>5 DEF vars, consumer, pusher, history
<1> QED
  BY <1>2, <1>3, <1>4, <1>5 DEF Next, Push

LEMMA AtTheEndKept ==
  ASSUME Orderly, TypeOK, MutexInv, ExtentInv, DropInv, OrderlyInv, [Next]_vars
  PROVE  AtTheEnd'
<1> USE DEF OrderlyInv, AtTheEnd
<1>1. UNCHANGED <<pc, notified, ppc, cur, pushed>> => AtTheEnd'
  BY DEF Length
<1>2. CASE PushBegin
  BY <1>2, QueueAssumption DEF PushBegin, consumer, Length, TypeOK, Root
<1>3. CASE PushWalk
  BY <1>1, <1>3 DEF PushWalk, consumer
<1>4. CASE PushLink
  BY <1>4 DEF PushLink
<1>5. CASE PushNotify
  BY <1>5 DEF PushNotify, Stages
<1>6. ASSUME NEW c \in Consumers, Consume(c) PROVE AtTheEnd'
  <2> SUFFICES ASSUME NEW d \in Consumers, pc'[d] \in {"none", "wait"}, d \notin notified', ppc' # "notify"
               PROVE  cur'[d] = Length'
    BY DEF AtTheEnd
  <2>1. ppc' = ppc /\ Length' = Length
    BY <1>6, ConsumerFrame
  <2>2. ASSUME cur'[d] = cur[d], pc[d] \in {"none", "wait"}, d \notin notified PROVE cur'[d] = Length'
    BY <2>1, <2>2
  <2>3. CASE CreateConsumer(c) \/ Leave(c) \/ Release(c) \/ Die(c) \/ (\E m \in Messages : Claim(c, m))
    BY <2>2, <2>3 DEF CreateConsumer, Leave, Release, Die, Claim, consumer
  <2>4. ASSUME NEW blocks \in BOOLEAN, Call(c, blocks) PROVE cur'[d] = Length'
    BY <2>2, <2>4 DEF Call, TypeOK
  <2>5. CASE Enter(c)
    BY <2>2, <2>5 DEF Enter, TypeOK
  <2>6. CASE Deliver(c)
    BY <2>2, <2>6 DEF Deliver, Return, TypeOK
  <2>7. CASE Exhaust(c)
    <3>1. pc[c] = "walk" /\ cur[c] = Length /\ cur' = cur
      BY <2>7, NextIsNext DEF Exhaust
    <3>2. CASE d = c
      BY <2>1, <3>1, <3>2
    <3>3. CASE d # c
      BY <2>2, <2>7, <3>3 DEF Exhaust, Return, TypeOK
    <3> QED
      BY <3>2, <3>3
  <2>8. CASE Await(c)
    BY <2>2, <2>8 DEF Await, TypeOK
  <2>9. CASE Wake(c)
    BY <2>2, <2>9 DEF Wake, TypeOK
  <2>10. CASE Cancel(c)
    BY <2>2, <2>10 DEF Cancel, Return, TypeOK
  <2> QED
    BY <1>6, <2>3, <2>4, <2>5, <2>6, <2>7, <2>8, <2>9, <2>10, NobodyPrunes DEF Consume, Run
<1>7. CASE UNCHANGED vars
  BY <1>1, <1>7 DEF vars, consumer, pusher
<1> QED
  BY <1>2, <1>3, <1>4, <1>5, <1>6, <1>7 DEF Next, Push

\* Where nothing is skipped the list stays as it was pushed, and what is gone
\* is behind everyone.
THEOREM OrderlyQueue ==
  ASSUME Orderly
  PROVE  Spec => []OrderlyInv
<1>1. TypeOK /\ MutexInv /\ ExtentInv /\ DropInv /\ OrderlyInv /\ [Next]_vars => OrderlyInv'
  BY StraightKept, StagesKept, BehindKept, GoneKept, MeantForAllKept, AtTheEndKept DEF OrderlyInv
<1> QED
  BY <1>1, OrderlyInit, TypeCorrect, MutexHeld, Extent, AutomaticDrop, PTL DEF Spec

\* "Any currently blocked MessageConsumer's will unblock at the new message":
\* who sleeps and is not about to be woken is at the end of the list, whichever
\* of the consumer's steps push came between.
THEOREM SleepersUpToDate ==
  ASSUME Orderly
  PROVE  Spec => []SleepersAreUpToDate
<1>1. TypeOK /\ ExtentInv /\ OrderlyInv => SleepersAreUpToDate
  <2> SUFFICES ASSUME TypeOK, OrderlyInv, NEW c \in Consumers, pc[c] = "wait", c \notin notified, ppc = "idle",
                      NEW m \in Linked \intersect full, m > cur[c]
               PROVE  FALSE
    BY DEF SleepersAreUpToDate
  <2>1. cur[c] = Length
    BY DEF OrderlyInv, AtTheEnd
  <2> QED
    BY <2>1, QueueAssumption DEF Linked, Length, TypeOK, Root
<1> QED
  BY <1>1, TypeCorrect, Extent, OrderlyQueue, PTL

\* "Each unclaimed message is visited once and in order of arrival."
THEOREM InOrder ==
  ASSUME Orderly
  PROVE  Spec => VisitedInOrder
<1> DEFINE Forward == \A c \in Consumers : cur'[c] # cur[c] => cur'[c] > cur[c]
<1>1. TypeOK /\ MutexInv /\ ExtentInv /\ DropInv /\ OrderlyInv /\ [Next]_vars => [Forward]_vars
  BY MovesForward
<1> QED
  BY <1>1, TypeCorrect, MutexHeld, Extent, AutomaticDrop, OrderlyQueue, PTL DEF Spec, VisitedInOrder

-----------------------------------------------------------------------------
(* The queue is the stream of module MessageStream. *)

\* What the mapping of the list to a stream makes of gone, meantFor and phase.
GoneThere     == {m \in Linked : m \notin full}
MeantForThere == [m \in Messages |-> IF m \in Linked THEN audience[m] ELSE {}]
PhaseThere    == [c \in Consumers |->
                    IF life[c] # "live" THEN "away"
                    ELSE IF pc[c] \in {"enter", "walk"} THEN "asking" ELSE "resting"]

\* A step that leaves all of it alone is a stutter of the stream.
LEMMA StreamStutters ==
  ASSUME UNCHANGED <<Length, GoneThere, MeantForThere, cur, PhaseThere, seen, passed>>
  PROVE  UNCHANGED Stream!vars
BY DEF Stream!vars, GoneThere, MeantForThere, PhaseThere

LEMMA PhaseValue ==
  ASSUME NEW c \in Consumers
  PROVE  /\ PhaseThere[c] = "away" <=> life[c] # "live"
         /\ PhaseThere[c] = "asking" <=> life[c] = "live" /\ pc[c] \in {"enter", "walk"}
         /\ PhaseThere[c] = "resting" <=> life[c] = "live" /\ pc[c] \notin {"enter", "walk"}
BY DEF PhaseThere

\* How a step of one consumer shows in the phases.
LEMMA PhaseStep ==
  ASSUME NEW c \in Consumers,
         \A d \in Consumers \ {c} : life'[d] = life[d] /\ pc'[d] = pc[d]
  PROVE  /\ life'[c] # "live" => PhaseThere' = [PhaseThere EXCEPT ![c] = "away"]
         /\ life'[c] = "live" /\ pc'[c] \in {"enter", "walk"} =>
              PhaseThere' = [PhaseThere EXCEPT ![c] = "asking"]
         /\ life'[c] = "live" /\ pc'[c] \notin {"enter", "walk"} =>
              PhaseThere' = [PhaseThere EXCEPT ![c] = "resting"]
<1>1. \A d \in Consumers \ {c} : PhaseThere'[d] = PhaseThere[d]
  BY DEF PhaseThere
<1>2. life'[c] # "live" => PhaseThere'[c] = "away"
  BY DEF PhaseThere
<1>3. life'[c] = "live" /\ pc'[c] \in {"enter", "walk"} => PhaseThere'[c] = "asking"
  BY DEF PhaseThere
<1>4. life'[c] = "live" /\ pc'[c] \notin {"enter", "walk"} => PhaseThere'[c] = "resting"
  BY DEF PhaseThere
<1>5. /\ PhaseThere = [d \in Consumers |-> PhaseThere[d]]
      /\ PhaseThere' = [d \in Consumers |-> PhaseThere'[d]]
  BY DEF PhaseThere
<1> HIDE DEF PhaseThere
<1> QED
  BY <1>1, <1>2, <1>3, <1>4, <1>5

\* A consumer that does not change in what the stream sees of it.
LEMMA PhaseStutters ==
  ASSUME NEW c \in Consumers,
         \A d \in Consumers \ {c} : life'[d] = life[d] /\ pc'[d] = pc[d],
         life[c] = "live" <=> life'[c] = "live",
         pc[c] \in {"enter", "walk"} <=> pc'[c] \in {"enter", "walk"}
  PROVE  PhaseThere' = PhaseThere
<1>1. \A d \in Consumers : PhaseThere'[d] = PhaseThere[d]
  <2> TAKE d \in Consumers
  <2>1. CASE life[d] # "live"
    BY <2>1 DEF PhaseThere
  <2>2. CASE life[d] = "live" /\ pc[d] \in {"enter", "walk"}
    BY <2>2 DEF PhaseThere
  <2>3. CASE life[d] = "live" /\ pc[d] \notin {"enter", "walk"}
    BY <2>3 DEF PhaseThere
  <2> QED
    BY <2>1, <2>2, <2>3
<1>2. /\ PhaseThere = [d \in Consumers |-> PhaseThere[d]]
      /\ PhaseThere' = [d \in Consumers |-> PhaseThere'[d]]
  BY DEF PhaseThere
<1> HIDE DEF PhaseThere
<1> QED
  BY <1>1, <1>2

\* Apart from what it changes in a consumer, a step of a consumer shows in the
\* stream by what is gone only.
LEMMA StreamFrame ==
  ASSUME Orderly, TypeOK, MutexInv, ExtentInv, DropInv, OrderlyInv, NEW c \in Consumers, Consume(c)
  PROVE  /\ Length' = Length /\ MeantForThere' = MeantForThere
         /\ full' = full => GoneThere' = GoneThere
<1>1. Linked' = Linked /\ Length' = Length /\ audience' = audience
  BY ConsumerFrame
<1> QED
  BY <1>1 DEF MeantForThere, GoneThere

\* Pushing: linking the node in appends the message; the rest is not seen.
LEMMA PushAppends ==
  ASSUME Orderly, TypeOK, MutexInv, ExtentInv, DropInv, OrderlyInv, Push
  PROVE  Stream!Append \/ UNCHANGED Stream!vars
<1> USE QueueAssumption
<1>1. pushed \in 0 .. MaxMessages
  BY DEF TypeOK, Root
<1>2. CASE PushBegin
  <2>1. Length' = Length /\ Length = pushed
    BY <1>1, <1>2 DEF PushBegin, Length
  <2>2. GoneThere' = GoneThere
    BY <1>1, <1>2, <2>1 DEF PushBegin, GoneThere, Linked
  <2>3. MeantForThere' = MeantForThere
    <3>1. audience' = [audience EXCEPT ![pushed'] = active] /\ pushed' = pushed + 1
      BY <1>2 DEF PushBegin
    <3>2. \A m \in Messages : m \in Linked => audience'[m] = audience[m]
      BY <1>1, <2>1, <3>1 DEF Linked, TypeOK
    <3> QED
      BY <2>1, <3>2 DEF MeantForThere, Linked
  <2>4. UNCHANGED <<cur, seen, passed, PhaseThere>>
    BY <1>2 DEF PushBegin, consumer, PhaseThere
  <2> QED
    BY <2>1, <2>2, <2>3, <2>4, StreamStutters
<1>3. CASE PushWalk
  BY <1>3, StreamStutters
  DEF PushWalk, message, consumer, history, Length, Linked, GoneThere, MeantForThere, PhaseThere
<1>4. CASE PushNotify
  BY <1>4, StreamStutters
  DEF PushNotify, message, history, Length, Linked, GoneThere, MeantForThere, PhaseThere
<1>5. CASE PushLink
  <2>1. /\ pushed \in 1 .. MaxMessages /\ Length = pushed - 1 /\ Length' = pushed
        /\ UNCHANGED <<full, audience, cur, seen, passed, PhaseThere>>
    BY <1>1, <1>5 DEF PushLink, Length, ExtentInv, consumer, history, PhaseThere
  <2>2. pushed \in full
    <3> SUFFICES ASSUME pushed \notin full PROVE FALSE
      OBVIOUS
    <3>1. PICK c \in Consumers \ Strangers : pushed <= cur[c]
      BY <2>1 DEF OrderlyInv, Gone
    <3>2. cur[c] <= Length /\ cur[c] \in Int
      BY DEF ExtentInv, TypeOK, Linkable, Root
    <3> QED
      BY <2>1, <3>1, <3>2
  <2>3. GoneThere' = GoneThere
    BY <2>1, <2>2 DEF GoneThere, Linked
  <2>4. MeantForThere' = [MeantForThere EXCEPT ![Length'] = audience[pushed]]
    <3>1. \A m \in Messages : m \in Linked' <=> m \in Linked \/ m = pushed
      BY <2>1 DEF Linked, Messages
    <3>2. \A m \in Messages : MeantForThere'[m] = IF m = Length' THEN audience[pushed] ELSE MeantForThere[m]
      BY <2>1, <3>1 DEF MeantForThere
    <3>3. DOMAIN MeantForThere = Messages /\ MeantForThere' = [m \in Messages |-> MeantForThere'[m]]
          /\ MeantForThere = [m \in Messages |-> MeantForThere[m]]
      BY DEF MeantForThere
    <3> QED
      BY <3>2, <3>3
  <2>5. audience[pushed] \in SUBSET Consumers
    BY <2>1 DEF TypeOK, Messages
  <2>6. Length < MaxMessages /\ Length' = Length + 1
    BY <2>1
  <2> QED
    BY <2>1, <2>3, <2>4, <2>5, <2>6 DEF Stream!Append, GoneThere, MeantForThere, PhaseThere
<1> QED
  BY <1>2, <1>3, <1>4, <1>5 DEF Push

\* The check at c's node finishes its message, and lets it expire if it may.
LEMMA PassOnFinishes ==
  ASSUME TypeOK, ExtentInv, DropInv, NEW c \in Consumers, PassOn(c),
         PhaseThere[c] # "resting", Length' = Length,
         UNCHANGED <<MeantForThere, cur, PhaseThere, seen>>
  PROVE  Stream!Finish(c) \/ UNCHANGED Stream!vars
<1>0. Linked' = Linked
  BY DEF Linked
<1>1. CASE cur[c] \notin Messages
  <2>1. UNCHANGED <<passed, full>>
    BY <1>1 DEF PassOn
  <2>2. GoneThere' = GoneThere
    BY <1>0, <2>1 DEF GoneThere
  <2> QED
    BY <2>1, <2>2, StreamStutters
<1>2. CASE cur[c] \in Messages
  <2> DEFINE m == cur[c]
  <2>1. m \in Linked /\ m # 0
    BY <1>2, QueueAssumption DEF ExtentInv, Linked, Messages, Length, TypeOK, Root
  <2>2. passed' = [passed EXCEPT ![m] = @ \union {c}]
    BY <1>2 DEF PassOn
  <2>3. full' = full \/ (full' = full \ {m} /\ \A d \in targets[m] \ {c} : life[d] = "dead")
    BY <1>2 DEF PassOn
  <2>4. GoneThere' = GoneThere \/ (GoneThere' = GoneThere \union {m} /\ \A d \in targets[m] \ {c} : life[d] = "dead")
    BY <1>0, <2>1, <2>3 DEF GoneThere
  <2>5. ASSUME \A d \in targets[m] \ {c} : life[d] = "dead"
        PROVE  \A d \in MeantForThere[m] : d \in passed'[m] \/ PhaseThere[d] = "away"
    <3> TAKE d \in MeantForThere[m]
    <3>1. d \in audience[m] /\ d \in Consumers
      BY <1>2, <2>1 DEF MeantForThere, TypeOK
    <3>2. targets[m] = audience[m] \ passed[m] /\ passed'[m] = passed[m] \union {c}
      BY <1>2, <2>2 DEF DropInv, TypeOK
    <3>3. life[d] = "dead" => PhaseThere[d] = "away"
      BY <3>1, PhaseValue
    <3> QED
      BY <2>5, <3>1, <3>2, <3>3
  <2>6. GoneThere' \in {GoneThere, GoneThere \union {m}}
    BY <2>4
  <2>7. m \in GoneThere' \ GoneThere => \A d \in MeantForThere[m] : d \in passed'[m] \/ PhaseThere[d] = "away"
    BY <2>4, <2>5
  <2> QED
    BY <2>1, <2>2, <2>6, <2>7 DEF Stream!Finish, GoneThere, MeantForThere, PhaseThere
<1> QED
  BY <1>1, <1>2

\* A consumer is given the first message of the stream that it has before it.
LEMMA DeliverGives ==
  ASSUME Orderly, TypeOK, MutexInv, ExtentInv, DropInv, OrderlyInv, NEW c \in Consumers, Deliver(c)
  PROVE  Stream!Give(c)
<1>1. /\ cur[c] \in 0 .. MaxMessages /\ at[c] = cur[c] + 1 /\ at[c] \in Messages /\ at[c] <= Length
      /\ cur' = [cur EXCEPT ![c] = at[c]]
      /\ seen' = [seen EXCEPT ![c] = @ \union {at[c]}]
  BY DeliversNext
<1>2. pc[c] = "walk" /\ at[c] \in full /\ UNCHANGED <<full, passed, life>> /\ pc' = [pc EXCEPT ![c] = "idle"]
  BY DEF Deliver, Return
<1>3. Length' = Length /\ MeantForThere' = MeantForThere /\ GoneThere' = GoneThere
  BY <1>2, StreamFrame DEF Consume, Run
<1>4. life[c] = "live" /\ PhaseThere[c] = "asking"
  BY <1>2, PhaseValue DEF OrderlyInv, Stages
<1>5. PhaseThere' = [PhaseThere EXCEPT ![c] = "resting"]
  BY <1>2, <1>4, PhaseStep DEF TypeOK
<1>6. at[c] \in {m \in (1 .. Length) \ GoneThere : m > cur[c]}
  BY <1>1, <1>2, QueueAssumption DEF GoneThere, Messages
<1>7. \A n \in {m \in (1 .. Length) \ GoneThere : m > cur[c]} : at[c] <= n
  BY <1>1, QueueAssumption
<1> QED
  BY <1>1, <1>2, <1>3, <1>4, <1>5, <1>6, <1>7
  DEF Stream!Give, Stream!Waiting, GoneThere, MeantForThere, PhaseThere

\* A consumer finds the tail only when the stream has nothing more for it.
LEMMA ExhaustHasNothing ==
  ASSUME Orderly, TypeOK, MutexInv, ExtentInv, DropInv, OrderlyInv, NEW c \in Consumers, Exhaust(c)
  PROVE  Stream!Nothing(c)
<1>1. pc[c] = "walk" /\ cur[c] = Length /\ UNCHANGED <<full, cur, seen, passed, life>>
  BY NextIsNext DEF Exhaust, history
<1>2. pc'[c] \notin {"enter", "walk"} /\ \A d \in Consumers \ {c} : pc'[d] = pc[d]
  BY DEF Exhaust, Return, TypeOK
<1>3. Length' = Length /\ MeantForThere' = MeantForThere /\ GoneThere' = GoneThere
  BY <1>1, StreamFrame DEF Consume, Run
<1>4. life[c] = "live" /\ PhaseThere[c] = "asking"
  BY <1>1, PhaseValue DEF OrderlyInv, Stages
<1>5. PhaseThere' = [PhaseThere EXCEPT ![c] = "resting"]
  BY <1>1, <1>2, <1>4, PhaseStep
<1>6. {m \in (1 .. Length) \ GoneThere : m > cur[c]} = {}
  BY <1>1, NextIsNext
<1> QED
  BY <1>1, <1>3, <1>4, <1>5, <1>6
  DEF Stream!Nothing, Stream!Waiting, GoneThere, MeantForThere, PhaseThere

LEMMA ClaimClaims ==
  ASSUME Orderly, TypeOK, MutexInv, ExtentInv, DropInv, OrderlyInv, NEW c \in Consumers,
         NEW m \in Messages, Claim(c, m)
  PROVE  Stream!Claim(c, m)
<1>1. m \in seen[c] /\ m \in full /\ full' = full \ {m} /\ UNCHANGED <<cur, seen, passed, life, pc>>
  BY DEF Claim, consumer, history
<1>2. Length' = Length /\ Linked' = Linked /\ MeantForThere' = MeantForThere /\ PhaseThere' = PhaseThere
  BY <1>1, StreamFrame, ConsumerFrame DEF Consume, PhaseThere
<1>3. m \in Linked
  <2>1. m \in 1 .. cur[c] /\ cur[c] <= Length /\ cur[c] \in Int /\ Length \in Int
    BY <1>1, QueueAssumption DEF OrderlyInv, Behind, ExtentInv, TypeOK, Linkable, Root, Length
  <2> QED
    BY <2>1 DEF Linked
<1>4. m \notin GoneThere /\ GoneThere' = GoneThere \union {m}
  BY <1>1, <1>2, <1>3 DEF GoneThere
<1> QED
  BY <1>1, <1>2, <1>4 DEF Stream!Claim, GoneThere, MeantForThere, PhaseThere

\* What a consumer does is what a reader of the stream does, or shows nowhere.
LEMMA ConsumerReads ==
  ASSUME Orderly, TypeOK, MutexInv, ExtentInv, DropInv, OrderlyInv, NEW c \in Consumers, Consume(c)
  PROVE  Stream!Next \/ UNCHANGED Stream!vars
<1> DEFINE Same == UNCHANGED <<Length, GoneThere, MeantForThere>>
<1>1. full' = full => Same
  BY StreamFrame
<1>2. CASE CreateConsumer(c)
  <2>1. /\ life[c] = "unborn" /\ life' = [life EXCEPT ![c] = "live"] /\ UNCHANGED <<full, pc, cur, seen, passed>>
    BY <1>2 DEF CreateConsumer, message, history
  <2>2. pc[c] = "idle" /\ cur[c] = 0 /\ PhaseThere[c] = "away"
    BY <2>1, PhaseValue DEF OrderlyInv, Stages, Root
  <2>3. PhaseThere' = [PhaseThere EXCEPT ![c] = "resting"]
    BY <2>1, <2>2, PhaseStep DEF TypeOK
  <2>4. Stream!Join(c)
    BY <1>1, <2>1, <2>2, <2>3 DEF Stream!Join, GoneThere, MeantForThere, PhaseThere
  <2> QED
    BY <2>4 DEF Stream!Next
<1>3. ASSUME pc[c] \notin {"enter", "walk"}, life[c] = "live", pc' = [pc EXCEPT ![c] = "enter"],
             UNCHANGED <<full, life, cur, seen, passed>>
      PROVE  Stream!Next
  <2>1. PhaseThere[c] = "resting"
    BY <1>3, PhaseValue
  <2>2. PhaseThere' = [PhaseThere EXCEPT ![c] = "asking"]
    BY <1>3, PhaseStep DEF TypeOK
  <2>3. Stream!Ask(c)
    BY <1>1, <1>3, <2>1, <2>2 DEF Stream!Ask, GoneThere, MeantForThere, PhaseThere
  <2> QED
    BY <2>3 DEF Stream!Next
<1>4. ASSUME NEW blocks \in BOOLEAN, Call(c, blocks) PROVE Stream!Next
  BY <1>3, <1>4 DEF Call, message, history
<1>5. CASE Wake(c)
  BY <1>3, <1>5 DEF Wake, message, history, OrderlyInv, Stages
<1>6. CASE Enter(c)
  <2>1. PassOn(c) /\ pc[c] = "enter" /\ pc' = [pc EXCEPT ![c] = "walk"] /\ UNCHANGED <<life, cur, seen>>
    BY <1>6 DEF Enter
  <2>2. PhaseThere' = PhaseThere /\ PhaseThere[c] # "resting"
    BY <2>1, PhaseStutters, PhaseValue DEF TypeOK
  <2>3. Stream!Finish(c) \/ UNCHANGED Stream!vars
    BY <2>1, <2>2, StreamFrame, PassOnFinishes
  <2> QED
    BY <2>3 DEF Stream!Next
<1>7. CASE Release(c)
  <2>1. PassOn(c) /\ life[c] = "leaving" /\ life' = [life EXCEPT ![c] = "left"] /\ UNCHANGED <<pc, cur, seen>>
    BY <1>7 DEF Release
  <2>2. PhaseThere' = PhaseThere /\ PhaseThere[c] # "resting"
    BY <2>1, PhaseStutters, PhaseValue DEF TypeOK
  <2>3. Stream!Finish(c) \/ UNCHANGED Stream!vars
    BY <2>1, <2>2, StreamFrame, PassOnFinishes
  <2> QED
    BY <2>3 DEF Stream!Next
<1>8. CASE Deliver(c)
  BY <1>8, DeliverGives DEF Stream!Next, Stream!Answer
<1>9. CASE Exhaust(c)
  BY <1>9, ExhaustHasNothing DEF Stream!Next, Stream!Answer
<1>10. ASSUME NEW m \in Messages, Claim(c, m) PROVE Stream!Next
  BY <1>10, ClaimClaims DEF Stream!Next, Stream!Messages, Messages
<1>11. CASE Leave(c)
  <2>1. /\ life[c] = "live" /\ pc[c] = "idle" /\ UNCHANGED <<full, pc, cur, seen, passed>>
        /\ life'[c] # "live" /\ \A d \in Consumers \ {c} : life'[d] = life[d]
    BY <1>11 DEF Leave, message, history, TypeOK
  <2>2. PhaseThere[c] = "resting" /\ PhaseThere' = [PhaseThere EXCEPT ![c] = "away"]
    BY <2>1, PhaseStep, PhaseValue
  <2>3. Stream!Leave(c)
    BY <1>1, <2>1, <2>2 DEF Stream!Leave, GoneThere, MeantForThere, PhaseThere
  <2> QED
    BY <2>3 DEF Stream!Next
<1>12. CASE Await(c) \/ Cancel(c)
  <2>1. /\ pc[c] \in {"none", "wait"} /\ pc'[c] \in {"wait", "idle"} /\ \A d \in Consumers \ {c} : pc'[d] = pc[d]
        /\ UNCHANGED <<full, life, cur, seen, passed>>
    BY <1>12 DEF Await, Cancel, Return, message, history, TypeOK
  <2>2. PhaseThere' = PhaseThere
    BY <2>1, PhaseStutters
  <2> QED
    BY <1>1, <2>1, <2>2, StreamStutters
<1>13. CASE Die(c)
  <2>1. life[c] = "left" /\ life' = [life EXCEPT ![c] = "dead"] /\ UNCHANGED <<full, pc, cur, seen, passed>>
    BY <1>13 DEF Die, message, history
  <2>2. PhaseThere' = PhaseThere
    BY <2>1, PhaseStutters DEF TypeOK
  <2> QED
    BY <1>1, <2>1, <2>2, StreamStutters
<1> QED
  BY <1>2, <1>4, <1>5, <1>6, <1>7, <1>8, <1>9, <1>10, <1>11, <1>12, <1>13, NobodyPrunes DEF Consume, Run

\* The stream with no word on progress: what the queue gives each consumer, and
\* in which order, what it lets go of and when.
THEOREM KeepsToStream ==
  ASSUME Orderly
  PROVE  Spec => Stream!Init /\ [][Stream!Next]_(Stream!vars)
<1>1. Init => Stream!Init
  <2> SUFFICES ASSUME Init PROVE Stream!Init
    OBVIOUS
  <2>1. Length = 0 /\ Linked = {}
    BY DEF Init, Length, Linked
  <2> QED
    BY <2>1 DEF Init, Stream!Init, Stream!Messages, Messages, Root
<1>2. TypeOK /\ MutexInv /\ ExtentInv /\ DropInv /\ OrderlyInv /\ [Next]_vars => [Stream!Next]_(Stream!vars)
  <2> SUFFICES ASSUME TypeOK, MutexInv, ExtentInv, DropInv, OrderlyInv, [Next]_vars
               PROVE  Stream!Next \/ UNCHANGED Stream!vars
    OBVIOUS
  <2>1. CASE Push
    BY <2>1, PushAppends DEF Stream!Next
  <2>2. ASSUME NEW c \in Consumers, Consume(c) PROVE Stream!Next \/ UNCHANGED Stream!vars
    BY <2>2, ConsumerReads
  <2>3. CASE UNCHANGED vars
    BY <2>3, StreamStutters
    DEF vars, message, consumer, pusher, history, Length, Linked, GoneThere, MeantForThere, PhaseThere
  <2> QED
    BY <2>1, <2>2, <2>3 DEF Next
<1> QED
  BY <1>1, <1>2, TypeCorrect, MutexHeld, Extent, AutomaticDrop, OrderlyQueue, PTL DEF Spec

=============================================================================
