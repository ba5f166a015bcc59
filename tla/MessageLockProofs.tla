------------------------- MODULE MessageLockProofs -------------------------
(***************************************************************************)
(* The safety of the views and of the walks, for any number of users and   *)
(* consumers and whatever the application calls.                           *)
(*                                                                         *)
(* A view needs no more than that a writer waits for the readers.  A walk  *)
(* needs the writer bit: it belongs to the one whose call is about to take *)
(* the payload or walks under its lock.                                    *)
(***************************************************************************)
EXTENDS MessageLock, TLAPS

UserStages   == {"idle", "first", "second", "claim", "drain"}
WalkerStages == {"idle", "come", "look", "enter", "expire", "expiring", "seal", "sealing", "sealed"}

Writes(x) == pc[x] \in {"drain", "expiring", "sealing", "sealed"}
Keeps(w) == pc[w] \in {"look", "expire", "expiring", "seal", "sealing", "sealed"}

Stages ==
  /\ \A u \in Users : pc[u] \in UserStages
  /\ \A w \in Walkers : pc[w] \in WalkerStages

\* The writer bit and the node's mutex have the one holder whose call says so.
Held ==
  /\ \A x \in Actors : Writes(x) <=> bit = x
  /\ \A w \in Walkers : Keeps(w) <=> node = w

Inductive == TypeOK /\ Stages /\ Held /\ ViewsAreBacked

\* Initially nobody holds anything.
LEMMA InitInductive == Init => Inductive
<1> SUFFICES ASSUME Init PROVE Inductive
  OBVIOUS
<1>1. some \in BOOLEAN /\ given \in BOOLEAN
  BY Zenon DEF Init
<1> QED
  BY <1>1, LockAssumption
     DEF Init, Inductive, TypeOK, Stages, UserStages, WalkerStages, Held, Writes, Keeps,
         ViewsAreBacked, Actors

\* Every step keeps the types.
LEMMA TypeStep == TypeOK /\ [Next]_vars => TypeOK'
<1> SUFFICES ASSUME TypeOK, [Next]_vars PROVE TypeOK'
  OBVIOUS
<1> USE LockAssumption DEF TypeOK, Actors
<1>1. ASSUME NEW u \in Users, StartRead(u) \/ StartClaim(u) \/ Release(u) PROVE TypeOK'
  BY <1>1 DEF StartRead, StartClaim, Release, Begin, DropView
<1>2. ASSUME NEW u \in Users, Use(u) PROVE TypeOK'
  <2>1. some' \in BOOLEAN
    BY <1>2, Zenon DEF Use, ReadFirst, ReadSecond, ClaimLock, ClaimTake
  <2> QED
    BY <1>2, <2>1 DEF Use, ReadFirst, ReadSecond, ClaimLock, ClaimTake, At
<1>3. ASSUME NEW w \in Walkers, Come(w) \/ Go(w) PROVE TypeOK'
  BY <1>3 DEF Come, Go, Begin
<1>4. ASSUME NEW w \in Walkers, Walk(w) PROVE TypeOK'
  <2>1. some' \in BOOLEAN /\ given' \in BOOLEAN
    BY <1>4, Zenon DEF Walk, ComeLock, Look, Enter, ExpireLock, ExpireTake, SealLock, Seal, Unseal
  <2> QED
    BY <1>4, <2>1 DEF Walk, At, ComeLock, Look, Enter, ExpireLock, ExpireTake, SealLock, Seal, Unseal
<1>5. CASE UNCHANGED vars
  BY <1>5 DEF vars
<1> QED
  BY <1>1, <1>2, <1>3, <1>4, <1>5 DEF Next

\* Every step keeps the holders of the locks.
LEMMA HeldStep == TypeOK /\ Stages /\ Held /\ [Next]_vars => Stages' /\ Held'
<1> SUFFICES ASSUME TypeOK, Stages, Held, [Next]_vars PROVE Stages' /\ Held'
  OBVIOUS
<1> USE LockAssumption
    DEF TypeOK, Stages, Held, Writes, Keeps, UserStages, WalkerStages, Actors
<1>1. ASSUME NEW u \in Users, StartRead(u) \/ StartClaim(u) \/ Release(u) PROVE Stages' /\ Held'
  BY <1>1 DEF StartRead, StartClaim, Release, Begin
<1>2. ASSUME NEW u \in Users, Use(u) PROVE Stages' /\ Held'
  BY <1>2 DEF Use, ReadFirst, ReadSecond, ClaimLock, ClaimTake, At, NoWriter
<1>3. ASSUME NEW w \in Walkers, Come(w) \/ Go(w) PROVE Stages' /\ Held'
  BY <1>3 DEF Come, Go, Begin
<1>4. ASSUME NEW w \in Walkers, Walk(w) PROVE Stages' /\ Held'
  <2>1. CASE ComeLock(w) \/ Look(w) \/ Enter(w)
    BY <2>1 DEF ComeLock, Look, Enter, At, NoWriter
  <2>2. CASE ExpireLock(w) \/ ExpireTake(w)
    BY <2>2 DEF ExpireLock, ExpireTake, At, NoWriter
  <2>3. CASE SealLock(w) \/ Seal(w) \/ Unseal(w)
    BY <2>3 DEF SealLock, Seal, Unseal, At, NoWriter
  <2> QED
    BY <1>4, <2>1, <2>2, <2>3 DEF Walk
<1>5. CASE UNCHANGED vars
  BY <1>5 DEF vars
<1> QED
  BY <1>1, <1>2, <1>3, <1>4, <1>5 DEF Next

\* Every step keeps the payload under every view.
LEMMA ViewStep == TypeOK /\ Stages /\ ViewsAreBacked /\ [Next]_vars => ViewsAreBacked'
<1> SUFFICES ASSUME TypeOK, Stages, ViewsAreBacked, [Next]_vars PROVE ViewsAreBacked'
  OBVIOUS
<1> USE LockAssumption DEF TypeOK, Stages, UserStages, WalkerStages, ViewsAreBacked, Actors
<1>1. ASSUME NEW u \in Users, StartRead(u) \/ StartClaim(u) \/ Release(u) PROVE ViewsAreBacked'
  BY <1>1 DEF StartRead, StartClaim, Release, Begin, DropView
<1>2. ASSUME NEW u \in Users, Use(u) PROVE ViewsAreBacked'
  BY <1>2 DEF Use, ReadFirst, ReadSecond, ClaimLock, ClaimTake, At, NoReader
<1>3. ASSUME NEW w \in Walkers, Come(w) \/ Go(w) PROVE ViewsAreBacked'
  BY <1>3 DEF Come, Go, Begin
<1>4. ASSUME NEW w \in Walkers, Walk(w) PROVE ViewsAreBacked'
  <2>1. CASE ExpireTake(w)
    BY <2>1 DEF ExpireTake, At, NoReader
  <2>2. CASE Walk(w) /\ ~ExpireTake(w)
    BY <2>2 DEF Walk, ComeLock, Look, Enter, ExpireLock, SealLock, Seal, Unseal, At
  <2> QED
    BY <1>4, <2>1, <2>2
<1>5. CASE UNCHANGED vars
  BY <1>5 DEF vars
<1> QED
  BY <1>1, <1>2, <1>3, <1>4, <1>5 DEF Next

\* The invariant of the payload's lock.
THEOREM Invariant == Spec => []Inductive
<1>1. Inductive /\ [Next]_vars => Inductive'
  BY TypeStep, HeldStep, ViewStep DEF Inductive
<1> QED
  BY InitInductive, <1>1, PTL DEF Spec

\* Every variable keeps its type.
THEOREM TypeCorrect == Spec => []TypeOK
<1>1. Inductive => TypeOK
  BY DEF Inductive
<1> QED
  BY Invariant, <1>1, PTL

\* Only a reader can make all calls wait.
LEMMA StuckByReaders == TypeOK /\ Stages /\ Held => StuckForAReason
<1> SUFFICES ASSUME TypeOK, Stages, Held, NoReader,
                    NEW x \in Actors, pc[x] # "idle",
                    \A y \in Actors : pc[y] # "idle" => Blocked(y)
             PROVE  FALSE
  BY DEF StuckForAReason
<1>1. \A y \in Actors : ~Writes(y)
  BY DEF Blocked, Writes
<1>2. bit = Nobody
  BY <1>1 DEF TypeOK, Held
<1>3. \A y \in Actors : pc[y] \in {"idle", "come", "enter"}
  BY <1>2 DEF Blocked, NoWriter
<1>4. node = Nobody
  BY <1>3 DEF TypeOK, Held, Keeps, Actors
<1> QED
  BY <1>3, <1>4 DEF Blocked

\* However many users and consumers there are, their calls wait in a circle only
\* through a view or the first lock of a read.
THEOREM OnlyReadersBlock == Spec => []StuckForAReason
<1>1. Inductive => StuckForAReason
  BY StuckByReaders DEF Inductive
<1> QED
  BY Invariant, <1>1, PTL

\* A MessageRef is never left without its payload, the unsafe dereference of
\* comment [1].
THEOREM ViewsAreSafe == Spec => []ViewsAreBacked
<1>1. Inductive => ViewsAreBacked
  BY DEF Inductive
<1> QED
  BY Invariant, <1>1, PTL

\* The payload of the node a walk starts from stays what it is until the walk
\* has ended, the reason comment [3] gives for keeping its write lock.
THEOREM WalksAreSealed == Spec => SealedWhileWalking
<1>1. Inductive /\ [Next]_vars => [(\E w \in Walkers : pc[w] = "sealed") => some' = some]_vars
  <2> SUFFICES ASSUME Stages, Held, Next, NEW w \in Walkers, pc[w] = "sealed"
               PROVE  some' = some
    BY DEF Inductive
  <2> USE LockAssumption DEF Stages, Held, Writes, UserStages, WalkerStages, Actors
  <2>1. bit = w
    OBVIOUS
  <2>2. ASSUME NEW u \in Users PROVE ~ClaimTake(u)
    BY <2>1, <2>2 DEF ClaimTake, At
  <2>3. ASSUME NEW v \in Walkers PROVE ~ExpireTake(v)
    BY <2>1, <2>3 DEF ExpireTake, At
  <2>4. ASSUME NEW u \in Users, StartRead(u) \/ StartClaim(u) \/ Release(u) \/ Use(u)
        PROVE  some' = some
    BY <2>2, <2>4 DEF StartRead, StartClaim, Release, Use, ReadFirst, ReadSecond, ClaimLock
  <2>5. ASSUME NEW v \in Walkers, Come(v) \/ Go(v) \/ Walk(v)
        PROVE  some' = some
    BY <2>3, <2>5 DEF Come, Go, Walk, ComeLock, Look, Enter, ExpireLock, SealLock, Seal, Unseal
  <2> QED
    BY <2>4, <2>5 DEF Next
<1> QED
  BY Invariant, <1>1, PTL DEF Spec, SealedWhileWalking
=============================================================================
