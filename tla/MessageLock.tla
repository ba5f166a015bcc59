---------------------------- MODULE MessageLock ----------------------------
(***************************************************************************)
(* The reader-writer lock around one message's payload (lmq/src/lib.rs),   *)
(* with everybody who takes it: users that read and claim the message they *)
(* were given, through the wrapper objects of lmq-wasm and lmq-deno or by  *)
(* hand, and consumers whose walk comes to the message or starts from it.  *)
(*                                                                         *)
(* The lock is parking_lot's RawRwLock as the code uses it: write first    *)
(* takes the writer bit, which turns new readers away, and then waits for  *)
(* the readers that are in; read is not recursive.                         *)
(***************************************************************************)
EXTENDS Integers, FiniteSets

CONSTANTS Users,        \* holders of a NextMessage of this message
          Walkers,      \* consumers of the queue, behind, at or past its node
          OneAtATime,   \* the application makes one call at a time
          DropsFirst,   \* the wrapper lets go of its view before the next call
          Nobody

ASSUME LockAssumption ==
  /\ Users \intersect Walkers = {}
  /\ Nobody \notin Users \union Walkers
  /\ {OneAtATime, DropsFirst} \subseteq BOOLEAN

VARIABLES
  some,    \* the payload is Some: the message is unclaimed
  bit,     \* who holds the writer bit of the payload's lock
  node,    \* who holds the mutex of the message's node
  pc,      \* where each user's and each walker's call is
  view,    \* the users that hold a MessageRef
  where,   \* each walker's current node: before the message's, it, or beyond
  given    \* has a walker been given the message, so that users may hold it

vars == <<some, bit, node, pc, view, where, given>>

Actors == Users \union Walkers

TypeOK ==
  /\ some \in BOOLEAN
  /\ bit \in Actors \union {Nobody}
  /\ node \in Walkers \union {Nobody}
  /\ pc \in [Actors -> {"idle", "first", "second", "claim", "drain",
                        "come", "look", "enter", "expire", "expiring",
                        "seal", "sealing", "sealed"}]
  /\ view \subseteq Users
  /\ where \in [Walkers -> {"before", "at", "beyond"}]
  /\ given \in BOOLEAN

Init ==
  /\ some = TRUE
  /\ bit = Nobody
  /\ node = Nobody
  /\ pc = [x \in Actors |-> "idle"]
  /\ view = {}
  /\ where = [w \in Walkers |-> "before"]
  /\ given = FALSE

\* A call on the message begins.
Begin(x, stage) ==
  /\ pc[x] = "idle"
  /\ OneAtATime => \A y \in Actors : pc[y] = "idle"
  /\ pc' = [pc EXCEPT ![x] = stage]

At(x, from, to) == pc[x] = from /\ pc' = [pc EXCEPT ![x] = to]

\* The writer bit is free: a reader is let in at once, a writer takes it.
NoWriter == bit = Nobody

\* Mutant: the first guard of a read is let go before the second is taken.
NoReader_OnlyViews == view = {}

\* No read guard is out: no view, and no read between its two locks.
NoReader == view = {} /\ \A u \in Users : pc[u] # "second"

-----------------------------------------------------------------------------
(* Users. *)

\* The wrappers keep one view.  lmq-wasm drops it before it calls into the
\* queue, lmq-deno only when the result of the call is stored over it.
DropView(u) == view' = IF DropsFirst THEN view \ {u} ELSE view

StartRead(u) ==
  /\ given
  /\ Begin(u, "first")
  /\ DropView(u)
  /\ UNCHANGED <<some, bit, node, where, given>>

\* NextMessage::read takes the lock once to see whether there is a payload ...
ReadFirst(u) ==
  /\ NoWriter
  /\ At(u, "first", IF some THEN "second" ELSE "idle")
  /\ view' = IF some THEN view ELSE view \ {u}
  /\ UNCHANGED <<some, bit, node, where, given>>

\* ... and, while it holds that guard, once more for the view it returns.
ReadSecond(u) ==
  /\ NoWriter
  /\ At(u, "second", "idle")
  /\ view' = view \union {u}
  /\ UNCHANGED <<some, bit, node, where, given>>

Release(u) ==
  /\ pc[u] = "idle"
  /\ u \in view
  /\ view' = view \ {u}
  /\ UNCHANGED <<some, bit, node, pc, where, given>>

StartClaim(u) ==
  /\ given
  /\ Begin(u, "claim")
  /\ DropView(u)
  /\ UNCHANGED <<some, bit, node, where, given>>

ClaimLock(u) ==
  /\ NoWriter
  /\ At(u, "claim", "drain")
  /\ bit' = u
  /\ UNCHANGED <<some, node, view, where, given>>

ClaimTake(u) ==
  /\ NoReader
  /\ At(u, "drain", "idle")
  /\ some' = FALSE
  /\ bit' = Nobody
  /\ UNCHANGED <<node, view, where, given>>

-----------------------------------------------------------------------------
(* Walkers.  What else try_next does is in module LinkMessageQueue. *)

\* A walk from an earlier node comes to the message's node and locks it.
Come(w) ==
  /\ where[w] = "before"
  /\ Begin(w, "come")
  /\ UNCHANGED <<some, bit, node, view, where, given>>

ComeLock(w) ==
  /\ node = Nobody
  /\ At(w, "come", "look")
  /\ node' = w
  /\ UNCHANGED <<some, bit, view, where, given>>

\* is_claimed, under the node's mutex: the message is returned or skipped.
Look(w) ==
  /\ NoWriter
  /\ At(w, "look", "idle")
  /\ node' = Nobody
  /\ where' = [where EXCEPT ![w] = IF some THEN "at" ELSE "beyond"]
  /\ given' = (given \/ some)
  /\ UNCHANGED <<some, bit, view>>

\* try_next from the message's node: lock the node, drop the message if no
\* target is left, and keep the payload's write lock for the walk.
Go(w) ==
  /\ where[w] = "at"
  /\ Begin(w, "enter")
  /\ UNCHANGED <<some, bit, node, view, where, given>>

Enter(w) ==
  /\ node = Nobody
  /\ \E to \in {"expire", "seal"} : At(w, "enter", to)
  /\ node' = w
  /\ UNCHANGED <<some, bit, view, where, given>>

ExpireLock(w) ==
  /\ NoWriter
  /\ At(w, "expire", "expiring")
  /\ bit' = w
  /\ UNCHANGED <<some, node, view, where, given>>

ExpireTake(w) ==
  /\ NoReader
  /\ At(w, "expiring", "seal")
  /\ some' = FALSE
  /\ bit' = Nobody
  /\ UNCHANGED <<node, view, where, given>>

SealLock(w) ==
  /\ NoWriter
  /\ At(w, "seal", "sealing")
  /\ bit' = w
  /\ UNCHANGED <<some, node, view, where, given>>

\* Mutant: the claim status is looked up and the lock let go of again.
Seal_LetsGo(w) ==
  /\ NoReader
  /\ At(w, "sealing", "sealed")
  /\ bit' = Nobody
  /\ UNCHANGED <<some, node, view, where, given>>

Seal(w) ==
  /\ NoReader
  /\ At(w, "sealing", "sealed")
  /\ UNCHANGED <<some, bit, node, view, where, given>>

\* Mutant: the payload's lock outlives the walk.
Unseal_KeepsBit(w) ==
  /\ At(w, "sealed", "idle")
  /\ node' = Nobody
  /\ \E to \in {"at", "beyond"} : where' = [where EXCEPT ![w] = to]
  /\ UNCHANGED <<some, bit, view, given>>

\* The walk ends: at the tail, or with a message further on.
Unseal(w) ==
  /\ At(w, "sealed", "idle")
  /\ bit' = Nobody
  /\ node' = Nobody
  /\ \E to \in {"at", "beyond"} : where' = [where EXCEPT ![w] = to]
  /\ UNCHANGED <<some, view, given>>

-----------------------------------------------------------------------------

Use(u) == ReadFirst(u) \/ ReadSecond(u) \/ ClaimLock(u) \/ ClaimTake(u)

Walk(w) == ComeLock(w) \/ Look(w) \/ Enter(w) \/ ExpireLock(w) \/ ExpireTake(w)
             \/ SealLock(w) \/ Seal(w) \/ Unseal(w)

Next ==
  \/ \E u \in Users : StartRead(u) \/ StartClaim(u) \/ Release(u) \/ Use(u)
  \/ \E w \in Walkers : Come(w) \/ Go(w) \/ Walk(w)

Spec == Init /\ [][Next]_vars

\* A call goes on whenever the locks let it, parking_lot being fair in the
\* long run, and a view is released in the end, as lmq.h asks of its users.
Fairness ==
  /\ \A u \in Users : SF_vars(Use(u)) /\ SF_vars(Release(u))
  /\ \A w \in Walkers : SF_vars(Walk(w))

FairSpec == Spec /\ Fairness

-----------------------------------------------------------------------------

\* Comment [1]: dereferencing a MessageRef is safe, for the payload it was
\* created on is still there whatever claims and drops are under way.
ViewsAreBacked == \A u \in Users : u \in view \/ pc[u] = "second" => some

\* Comment [3]: during a walk the node it starts from cannot be claimed, by
\* its users or by another consumer.
SealedWhileWalking ==
  [][(\E w \in Walkers : pc[w] = "sealed") => some' = some]_vars

\* What a call waits for before its next step.
Blocked(x) ==
  \/ pc[x] \in {"first", "second", "claim", "look", "expire", "seal"} /\ ~NoWriter
  \/ pc[x] \in {"drain", "expiring", "sealing"} /\ ~NoReader
  \/ pc[x] \in {"come", "enter"} /\ node # Nobody

\* If the calls under way all wait, it is for a view that somebody keeps, or for a
\* read that is between its two locks: node mutexes and writers alone never make a
\* circle.
StuckForAReason ==
  /\ \E x \in Actors : pc[x] # "idle"
  /\ \A x \in Actors : pc[x] # "idle" => Blocked(x)
  => ~NoReader

\* Every call returns.
CallsReturn == \A x \in Actors : pc[x] # "idle" ~> pc[x] = "idle"

\* lmq.h of lmq_consumer_try_next: it unblocks once the views are released.
NextUnblocks == \A w \in Walkers : pc[w] # "idle" ~> pc[w] = "idle"

\* mod.ts of NextMessage.claim: "Claim the message and return the payload."
ClaimReturns == \A u \in Users : pc[u] = "claim" ~> pc[u] = "idle"
=============================================================================
