-------------------------- MODULE FragmentedStream --------------------------
(***************************************************************************)
(* Messages of any length between processes (send_stream, try_recv_stream  *)
(* of iox2.rs, and the retries of tokio.rs): each process publishes pages, *)
(* and every receiver merges those it collects.                            *)
(*                                                                         *)
(* Of iceoryx2 is modelled what this code relies on: a publisher has a     *)
(* queue of its own to every subscriber that was there, waits while one of *)
(* them is full, and when it fails may have reached some of them; pages of *)
(* a publisher that died can still be read.  Identifications are drawn at  *)
(* random from 2^64 and taken to be distinct: they are numbered as drawn.  *)
(***************************************************************************)
EXTENDS Chunking, Sequences, FiniteSets

CONSTANTS Senders, Receivers,
          Wants,         \* the senders whose headers each receiver collects
          Sizes,         \* the lengths of payloads with those of their headers
          BufferSize,    \* pages a queue holds
          MaxAttempts,   \* bound: attempts at sending, by all senders
          None

ASSUME StreamAssumption ==
  /\ Wants \in [Receivers -> SUBSET Senders]
  /\ Sizes \subseteq Nat \X Nat
  /\ BufferSize \in Nat \ {0} /\ MaxAttempts \in Nat

VARIABLES
  stage,      \* where each sender is in send_stream
  msg,        \* the message it sends, or None
  id,         \* the identification of its attempt
  next,       \* the chunk to be sent, or just sent
  fine,       \* its page was sent
  fresh,      \* the next identification
  wire,       \* the pages on their way to each receiver from each sender
  allocs,     \* MERGE_ALLOCS of each receiver
  delivered,  \* what each receiver completed, with the attempt (0: a page of its own)
  joined,     \* the first attempt after each receiver subscribed, 0 before
  returned,   \* history: the messages whose send_stream returned
  broken      \* history: the attempts in which something failed

sender   == <<stage, msg, id, next, fine, fresh>>
receiver == <<allocs, delivered, joined>>
history  == <<returned, broken>>
vars     == <<sender, wire, receiver, history>>

Attempts == 1 .. MaxAttempts
Messages == {m \in [from : Senders, first : Attempts, len : {z[1] : z \in Sizes}, header : {z[2] : z \in Sizes}] :
               <<m.len, m.header>> \in Sizes /\ Accepted(m.len, m.header)}

TypeOK ==
  /\ stage \in [Senders -> {"idle", "page", "backoff", "notify", "again", "dead"}]
  /\ msg \in [Senders -> Messages \union {None}]
  /\ id \in [Senders -> 0 .. MaxAttempts]
  /\ next \in [Senders -> Nat]
  /\ \A s \in Senders : stage[s] \in {"page", "backoff", "notify"} /\ ~Fits(msg[s].len) =>
        next[s] < Chunks(msg[s].len, msg[s].header)
  /\ fine \in [Senders -> BOOLEAN]
  /\ fresh \in 1 .. MaxAttempts + 1
  /\ \A r \in Receivers, s \in Senders : Len(wire[r][s]) <= BufferSize
  /\ \A r \in Receivers : DOMAIN allocs[r] \subseteq Attempts
  /\ joined \in [Receivers -> 0 .. MaxAttempts + 1]
  /\ returned \subseteq Messages
  /\ broken \subseteq Attempts

Init ==
  /\ stage = [s \in Senders |-> "idle"]
  /\ msg = [s \in Senders |-> None]
  /\ id = [s \in Senders |-> 0]
  /\ next = [s \in Senders |-> 0]
  /\ fine = [s \in Senders |-> TRUE]
  /\ fresh = 1
  /\ wire = [r \in Receivers |-> [s \in Senders |-> <<>>]]
  /\ allocs = [r \in Receivers |-> <<>>]
  /\ delivered = [r \in Receivers |-> <<>>]
  /\ joined = [r \in Receivers |-> 0]
  /\ returned = {}
  /\ broken = {}

-----------------------------------------------------------------------------
(* Pages. *)

\* The bytes of a message, each a thing of its own, and those nobody wrote.
Byte(m, p) == <<m.from, m.first, p>>
Zero == <<>>
Payload(m) == [p \in 0 .. m.len - 1 |-> Byte(m, p)]
Whole(m) == [data |-> Payload(m), header |-> m.header]

\* A page of its own: no chunks, and the size of the header instead of the
\* identification.
PlainPage(m) ==
  [rem |-> m.len, i |-> 0, num |-> 0, id |-> m.header, header |-> 0, head |-> <<>>,
   body |-> [p \in 0 .. PageSize - PlainMeta - 1 |-> IF p < m.len THEN Byte(m, p) ELSE Zero]]

ChunkPage(m, i, k) ==
  [rem |-> Remainder(m.len, m.header), i |-> i, num |-> Chunks(m.len, m.header), id |-> k,
   header |-> m.header, head |-> [p \in 0 .. m.header - 1 |-> Byte(m, p)],
   body |-> [p \in 0 .. ChunkSize(m.header) - 1 |->
               IF p < ChunkLength(m.len, m.header, i) THEN Byte(m, ChunkStart(m.header, i) + p)
                                                      ELSE Zero]]

Page(s) == IF Fits(msg[s].len) THEN PlainPage(msg[s]) ELSE ChunkPage(msg[s], next[s], id[s])

-----------------------------------------------------------------------------
(* Senders. *)

Go(s, from, to) == stage[s] = from /\ stage' = [stage EXCEPT ![s] = to]

\* A first or a further attempt draws its identification.
Attempt(s) ==
  /\ fresh \in Attempts
  /\ fresh' = fresh + 1
  /\ id' = [id EXCEPT ![s] = fresh]
  /\ next' = [next EXCEPT ![s] = 0]
  /\ fine' = [fine EXCEPT ![s] = TRUE]

\* send_stream; what is not accepted makes it panic, with nothing sent.
Send(s, len, header) ==
  /\ Accepted(len, header)
  /\ Go(s, "idle", "page")
  /\ Attempt(s)
  /\ msg' = [msg EXCEPT ![s] = [from |-> s, first |-> fresh, len |-> len, header |-> header]]
  /\ UNCHANGED <<wire, receiver, history>>

Subscribed == {r \in Receivers : joined[r] # 0}
HasRoom(r, s) == Len(wire[r][s]) < BufferSize

Publish(s, targets) ==
  wire' = [r \in Receivers |-> IF r \in targets THEN [wire[r] EXCEPT ![s] = Append(@, Page(s))] ELSE wire[r]]

\* The page reaches every subscriber.
SendPage(s) ==
  /\ Go(s, "page", "notify")
  /\ \A r \in Subscribed : HasRoom(r, s)
  /\ Publish(s, Subscribed)
  /\ UNCHANGED <<msg, id, next, fine, fresh, receiver, history>>

\* Sending fails, at any of them.  A page of its own is notified all the same.
PageFails(s) ==
  /\ Go(s, "page", IF Fits(msg[s].len) THEN "notify" ELSE "backoff")
  /\ \E reached \in SUBSET {r \in Subscribed : HasRoom(r, s)} : Publish(s, reached)
  /\ fine' = [fine EXCEPT ![s] = ~Fits(msg[s].len)]
  /\ broken' = broken \union {id[s]}
  /\ UNCHANGED <<msg, id, next, fresh, receiver, returned>>

\* The chunk is sent again, unless a signal interrupts the wait: then
\* send_stream panics and the message is given up.
Backoff(s) ==
  /\ \E to \in {"page", "idle"} : Go(s, "backoff", to)
  /\ UNCHANGED <<msg, id, next, fine, fresh, wire, receiver, history>>

\* Notified: the next chunk, the end of the call, or another attempt.
Notify(s) ==
  LET last == Fits(msg[s].len) \/ next[s] + 1 = Chunks(msg[s].len, msg[s].header) IN
  /\ Go(s, "notify", IF ~fine[s] THEN "again" ELSE IF last THEN "idle" ELSE "page")
  /\ next' = IF last THEN next ELSE [next EXCEPT ![s] = @ + 1]
  /\ returned' = IF stage'[s] = "idle" THEN returned \union {msg[s]} ELSE returned
  /\ UNCHANGED <<msg, id, fine, fresh, wire, receiver, broken>>

NotifyFails(s) ==
  /\ Go(s, "notify", "again")
  /\ broken' = broken \union {id[s]}
  /\ UNCHANGED <<msg, id, next, fine, fresh, wire, receiver, returned>>

\* Mutant: a failed attempt goes on at the page that failed.
Again_GoesOn(s) ==
  /\ Go(s, "again", "page")
  /\ fresh \in Attempts
  /\ fresh' = fresh + 1
  /\ id' = [id EXCEPT ![s] = fresh]
  /\ fine' = [fine EXCEPT ![s] = TRUE]
  /\ UNCHANGED <<msg, next, wire, receiver, history>>

\* 100 ms later the whole payload is sent again, under a new identification.
Again(s) ==
  /\ Go(s, "again", "page")
  /\ Attempt(s)
  /\ UNCHANGED <<msg, wire, receiver, history>>

\* The process dies.
Die(s) ==
  /\ stage[s] # "dead"
  /\ stage' = [stage EXCEPT ![s] = "dead"]
  /\ broken' = IF stage[s] \in {"idle", "again"} THEN broken ELSE broken \union {id[s]}
  /\ UNCHANGED <<msg, id, next, fine, fresh, wire, receiver, returned>>

-----------------------------------------------------------------------------
(* Receivers. *)

\* A process subscribes, while others are sending.
Join(r) ==
  /\ joined[r] = 0
  /\ joined' = [joined EXCEPT ![r] = fresh]
  /\ UNCHANGED <<sender, wire, allocs, delivered, history>>

\* The first page of an identification makes its allocation.
Allocation(r, page) ==
  IF page.id \in DOMAIN allocs[r]
    THEN allocs[r][page.id]
    ELSE [merged |-> {},
          data |-> [p \in 0 .. TotalLength(page.header, page.num, page.rem) - 1 |->
                      IF p < page.header THEN page.head[p] ELSE Zero]]

\* A chunk is copied to its place, unless it was merged before.
Merge(r, page) ==
  LET a     == Allocation(r, page)
      start == ChunkStart(page.header, page.i)
      end   == start + TakenLength(page.header, page.num, page.rem, page.i)
  IN  IF page.i \in a.merged THEN a ELSE
      [merged |-> a.merged \union {page.i},
       data |-> [p \in DOMAIN a.data |-> IF p \in start .. end - 1 THEN page.body[p - start] ELSE a.data[p]]]

\* Mutant: a message is complete with the last of its chunks.
Completes_WithTheLast(page, before, after) ==
  page.i \notin before.merged /\ page.i + 1 = page.num
\* It is the last one missing.
Completes(page, before, after) ==
  page.i \notin before.merged /\ Cardinality(after.merged) = page.num

Keep(r, k, a) == [j \in DOMAIN allocs[r] \union {k} |-> IF j = k THEN a ELSE allocs[r][j]]
\* Mutant: what was merged is kept.
Forget_Keeps(r, k) == allocs[r]
Forget(r, k) == [j \in DOMAIN allocs[r] \ {k} |-> allocs[r][j]]

\* try_recv_stream takes one page and, with the last of its message, returns
\* the message.
Receive(r, s) ==
  /\ wire[r][s] # <<>>
  /\ wire' = [wire EXCEPT ![r][s] = Tail(@)]
  /\ LET page == Head(wire[r][s])
         plain == [data |-> [p \in 0 .. page.rem - 1 |-> page.body[p]], header |-> page.id]
         a == Merge(r, page)
         complete == Completes(page, Allocation(r, page), a)
     IN  CASE s \notin Wants[r] -> UNCHANGED <<allocs, delivered>>
           [] s \in Wants[r] /\ page.num = 0 ->
                /\ delivered' = [delivered EXCEPT ![r] = Append(@, [message |-> plain, attempt |-> 0])]
                /\ UNCHANGED allocs
           [] s \in Wants[r] /\ page.num # 0 /\ complete ->
                /\ delivered' = [delivered EXCEPT ![r] =
                     Append(@, [message |-> [data |-> a.data, header |-> page.header], attempt |-> page.id])]
                /\ allocs' = [allocs EXCEPT ![r] = Forget(r, page.id)]
           [] OTHER ->
                /\ allocs' = [allocs EXCEPT ![r] = Keep(r, page.id, a)]
                /\ UNCHANGED delivered
  /\ UNCHANGED <<sender, joined, history>>

-----------------------------------------------------------------------------

Next ==
  \/ \E s \in Senders :
       \/ \E size \in Sizes : Send(s, size[1], size[2])
       \/ SendPage(s) \/ PageFails(s) \/ Backoff(s) \/ Notify(s) \/ NotifyFails(s)
       \/ Again(s) \/ Die(s)
  \/ \E r \in Receivers : Join(r) \/ \E s \in Senders : Receive(r, s)

Spec == Init /\ [][Next]_vars

-----------------------------------------------------------------------------

\* What a receiver completes is a message as it was sent, header and all,
\* whatever its length, however pages were interleaved, repeated or cut off.
Intact ==
  \A r \in Receivers : \A i \in DOMAIN delivered[r] :
     \E s \in Wants[r] : \E first \in Attempts : \E size \in Sizes :
        delivered[r][i].message = Whole([from |-> s, first |-> first, len |-> size[1], header |-> size[2]])

\* A message whose send_stream returned is completed by every receiver that
\* was there and collects it, with the last of its pages.
Arrives ==
  \A r \in Subscribed : \A m \in returned :
     m.from \in Wants[r] /\ m.first >= joined[r] /\ wire[r][m.from] = <<>> =>
       \E i \in DOMAIN delivered[r] : delivered[r][i].message = Whole(m)

\* An attempt at sending is completed once by each receiver: the pages that
\* are sent again after a failure never make up its message a second time.
CompletedOnce ==
  \A r \in Receivers : \A i, j \in DOMAIN delivered[r] :
     i # j /\ delivered[r][i].attempt # 0 => delivered[r][i].attempt # delivered[r][j].attempt

\* Nothing is kept of a message that went through: what a receiver still has
\* is of an attempt that failed somewhere, of one that began before the
\* receiver subscribed, of one under way or with pages still to be read.
KeptForAReason ==
  \A r \in Receivers : \A k \in DOMAIN allocs[r] :
     \/ k < joined[r] \/ k \in broken
     \/ \E s \in Senders : id[s] = k /\ stage[s] \in {"page", "notify"}
     \/ \E s \in Senders : \E i \in DOMAIN wire[r][s] : wire[r][s][i].num # 0 /\ wire[r][s][i].id = k
=============================================================================
