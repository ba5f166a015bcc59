----------------------- MODULE FragmentedStreamProofs -----------------------
(***************************************************************************)
(* A receiver takes back what the sender cut up, for every size of pages,  *)
(* payloads and headers; what it completes is a message as it was sent,    *)
(* once for an attempt, whatever fails and however pages are mixed; it has *)
(* every message whose send_stream returned, and keeps nothing of those.   *)
(***************************************************************************)
EXTENDS FragmentedStream, FiniteSetTheorems, SequenceTheorems, TLAPS

\* Division with remainder.
LEMMA Division ==
  ASSUME NEW n \in Nat, NEW c \in Nat \ {0}
  PROVE  /\ n \div c \in Nat /\ n % c \in 0 .. c - 1
         /\ n = c * (n \div c) + (n % c)
<1>1. n \div c \in Nat BY SMT
<1>2. n % c \in 0 .. c - 1 BY SMT
<1>3. n = c * (n \div c) + (n % c) BY SMT
<1> QED BY <1>1, <1>2, <1>3

\* Only one pair of a quotient and a remainder makes a number.
LEMMA OneQuotient ==
  ASSUME NEW c \in Nat \ {0}, NEW q \in Int, NEW r \in 0 .. c - 1,
         NEW p \in Int, NEW s \in 0 .. c - 1, c * q + r = c * p + s
  PROVE  q = p /\ r = s
<1>1. ~ q < p
  <2> SUFFICES ASSUME q < p PROVE FALSE OBVIOUS
  <2>1. PICK d \in Nat : p = q + 1 + d BY p - q - 1 \in Nat, SMT
  <2>2. c * p = c * q + c + c * d BY <2>1, SMT
  <2>3. c * d \in Nat BY SMT
  <2>4. c * q \in Int BY SMT
  <2> QED BY <2>2, <2>3, <2>4, SMT
<1>2. ~ p < q
  <2> SUFFICES ASSUME p < q PROVE FALSE OBVIOUS
  <2>1. PICK d \in Nat : q = p + 1 + d BY q - p - 1 \in Nat, SMT
  <2>2. c * q = c * p + c + c * d BY <2>1, SMT
  <2>3. c * d \in Nat BY SMT
  <2>4. c * p \in Int BY SMT
  <2> QED BY <2>2, <2>3, <2>4, SMT
<1>3. q = p BY <1>1, <1>2, SMT
<1>4. c * q \in Int BY SMT
<1> QED BY <1>3, <1>4, SMT

\* How many chunks there are, by the remainder: with one of zero the last
\* chunk is full.
LEMMA ChunkCount ==
  ASSUME NEW b \in Nat, NEW c \in Nat \ {0}
  PROVE  /\ b % c = 0 => b = c * ((b + c - 1) \div c)
         /\ b % c # 0 => b = c * ((b + c - 1) \div c - 1) + (b % c)
<1> DEFINE q == b \div c
           r == b % c
           n == (b + c - 1) \div c
           s == (b + c - 1) % c
<1>1. q \in Nat /\ r \in 0 .. c - 1 /\ b = c * q + r BY Division
<1>2. n \in Nat /\ s \in 0 .. c - 1 /\ b + c - 1 = c * n + s
  <2>1. b + c - 1 \in Nat BY SMT
  <2> QED BY <2>1, Division
<1> HIDE DEF q, r, n, s
<1>3. c * q \in Int /\ c * n \in Int BY <1>1, <1>2, SMT
<1>4. ASSUME r = 0 PROVE b = c * n
  <2>1. c * n + s = c * q + (c - 1) BY <1>1, <1>2, <1>3, <1>4, SMT
  <2>2. c - 1 \in 0 .. c - 1 /\ n \in Int /\ q \in Int BY <1>1, <1>2, SMT
  <2>3. n = q BY <2>1, <2>2, <1>2, OneQuotient
  <2> QED BY <1>1, <1>3, <1>4, <2>3, SMT
<1>5. ASSUME r # 0 PROVE b = c * (n - 1) + r
  <2>1. c * (q + 1) = c * q + c BY <1>1, SMT
  <2>2. c * n + s = c * (q + 1) + (r - 1) BY <2>1, <1>1, <1>2, <1>3, SMT
  <2>3. r - 1 \in 0 .. c - 1 /\ n \in Int /\ q + 1 \in Int BY <1>1, <1>2, <1>5, SMT
  <2>4. n = q + 1 BY <2>2, <2>3, <1>2, OneQuotient
  <2>5. n - 1 = q BY <2>4, <1>1, SMT
  <2> QED BY <1>1, <2>5
<1> QED BY <1>4, <1>5 DEF n, r

\* A multiple of c that is smaller is smaller by c.
LEMMA Multiples ==
  ASSUME NEW c \in Nat \ {0}, NEW i \in Int, NEW k \in Int
  PROVE  /\ c * i \in Int /\ c * i = i * c
         /\ i < k => c * i + c <= c * k
         /\ i <= k => c * i <= c * k
<1>1. c * i \in Int /\ c * k \in Int /\ c * i = i * c BY SMT
<1>2. ASSUME i < k PROVE c * i + c <= c * k
  <2>1. PICK d \in Nat : k = i + 1 + d BY <1>2, k - i - 1 \in Nat, SMT
  <2>2. c * k = c * i + c + c * d BY <2>1, SMT
  <2>3. c * d \in Nat BY SMT
  <2> QED BY <1>1, <2>2, <2>3, SMT
<1>3. ASSUME i <= k PROVE c * i <= c * k
  <2>1. CASE i = k BY <2>1, <1>1, SMT
  <2>2. CASE i < k BY <2>2, <1>1, <1>2, SMT
  <2> QED BY <1>3, <2>1, <2>2, SMT
<1> QED BY <1>1, <1>2, <1>3

\* The body of a payload that is cut up is more than one chunk, and no chunk
\* is empty.
LEMMA Body ==
  ASSUME NEW len \in Nat, NEW header \in Nat, Accepted(len, header), ~Fits(len)
  PROVE  /\ len - header \in Nat \ {0} /\ ChunkSize(header) \in Nat \ {0}
         /\ len - header > ChunkSize(header)
BY ChunkingAssumption, SMT DEF Accepted, Fits, ChunkSize

\* Whatever is accepted, the receiver allocates as many bytes as were sent
\* (src/skycurrent/src/backing/iox2.rs:376) and takes from each page the
\* bytes of its chunk (lines 401 to 409).  There are at least two chunks, so
\* that no page by itself, sent once more, makes up a message.
THEOREM Lossless ==
  ASSUME NEW len \in Nat, NEW header \in Nat, Accepted(len, header), ~Fits(len)
  PROVE  /\ Chunks(len, header) \in Nat \ {0, 1}
         /\ TotalLength(header, Chunks(len, header), Remainder(len, header)) = len
         /\ \A i \in 0 .. Chunks(len, header) - 1 :
              TakenLength(header, Chunks(len, header), Remainder(len, header), i)
                = ChunkLength(len, header, i)
<1> DEFINE b == len - header
           c == ChunkSize(header)
           n == (b + c - 1) \div c
           r == b % c
<1>1. b \in Nat \ {0} /\ c \in Nat \ {0} /\ b > c BY Body
<1>2. r \in 0 .. c - 1 BY <1>1, Division
<1>3. n \in Nat
  <2>1. b + c - 1 \in Nat BY <1>1, SMT
  <2> QED BY <1>1, <2>1, Division
<1>4. Chunks(len, header) = n /\ Remainder(len, header) = r BY DEF Chunks, Remainder
<1>5. /\ r = 0 => b = c * n
      /\ r # 0 => b = c * (n - 1) + r
  BY <1>1, ChunkCount
<1>6. len = header + b BY SMT
<1> HIDE DEF b, n, r
<1>7. n # 0
  <2>1. SUFFICES ASSUME n = 0 PROVE FALSE OBVIOUS
  <2>2. c * 0 = 0 /\ c * (0 - 1) = 0 - c BY <1>1, SMT
  <2> QED BY <1>1, <1>2, <1>5, <2>1, <2>2, SMT
<1>8. n # 1
  <2>1. SUFFICES ASSUME n = 1 PROVE FALSE OBVIOUS
  <2>2. c * 1 = c /\ c * (1 - 1) = 0 BY <1>1, SMT
  <2> QED BY <1>1, <1>2, <1>5, <2>1, <2>2, SMT
<1>9. c * (n - 1) = (n - 1) * c /\ c * n = c * (n - 1) + c /\ c * (n - 1) \in Int
  BY <1>1, <1>3, SMT
<1>10. TotalLength(header, n, r) = len
  <2>1. TotalLength(header, n, r) = header + (n - 1) * c + (IF r = 0 THEN c ELSE r)
    BY DEF TotalLength, LastLength
  <2> DEFINE before == (n - 1) * c
  <2>2. before \in Int /\ c * n = before + c /\ c * (n - 1) = before BY <1>9
  <2> HIDE DEF before, c
  <2>3. TotalLength(header, n, r) = header + before + (IF r = 0 THEN c ELSE r)
    BY <2>1 DEF before
  <2>4. CASE r = 0 BY <2>2, <2>3, <2>4, <1>1, <1>5, <1>6, SMT
  <2>5. CASE r # 0 BY <2>2, <2>3, <2>5, <1>1, <1>2, <1>5, <1>6, SMT
  <2> QED BY <2>4, <2>5
<1>11. ASSUME NEW i \in 0 .. n - 1
       PROVE  TakenLength(header, n, r, i) = ChunkLength(len, header, i)
  <2>1. ChunkLength(len, header, i) = IF b - i * c < c THEN b - i * c ELSE c
    <3>1. len - (header + i * c) = b - i * c BY <1>1, <1>3, <1>6, i \in Int, SMT
    <3> QED BY <3>1 DEF ChunkLength, ChunkStart
  <2>2. TakenLength(header, n, r, i) = IF i + 1 = n THEN (IF r = 0 THEN c ELSE r) ELSE c
    BY DEF TakenLength, LastLength
  <2>3. i \in Int /\ n - 1 \in Int BY <1>3, SMT
  <2>4. CASE i + 1 = n
    <3>1. i = n - 1 BY <2>4, <2>3, SMT
    <3>2. i * c = c * (n - 1) BY <3>1, <1>9
    <3> QED BY <3>2, <2>1, <2>2, <2>4, <1>1, <1>2, <1>5, <1>9, SMT
  <2>5. CASE i + 1 # n
    <3>1. i < n - 1 BY <2>5, <2>3, <1>3, SMT
    <3>2. c * i + c <= c * (n - 1) /\ c * i = i * c /\ c * i \in Int
      BY <3>1, <2>3, <1>1, Multiples
    <3> QED BY <3>2, <2>1, <2>2, <2>5, <1>1, <1>2, <1>5, <1>9, SMT
  <2> QED BY <2>4, <2>5
<1> QED BY <1>3, <1>4, <1>7, <1>8, <1>10, <1>11

-----------------------------------------------------------------------------
(* What a receiver has of a message. *)

\* The places of chunk i in a message.
Places(m, i) ==
  ChunkStart(m.header, i) .. ChunkStart(m.header, i) + ChunkLength(m.len, m.header, i) - 1

ChunksOf(m) == 0 .. Chunks(m.len, m.header) - 1

\* An allocation that has the header and the chunks of S.
Piece(m, S) ==
  [merged |-> S,
   data |-> [p \in 0 .. m.len - 1 |->
               IF p < m.header \/ \E i \in S : p \in Places(m, i) THEN Byte(m, p) ELSE Zero]]

LEMMA MessageFacts ==
  ASSUME NEW m \in Messages
  PROVE  /\ m.from \in Senders /\ m.first \in Attempts
         /\ m.len \in Nat /\ m.header \in Nat /\ <<m.len, m.header>> \in Sizes
         /\ Accepted(m.len, m.header) /\ m.header <= m.len
         /\ m = [from |-> m.from, first |-> m.first, len |-> m.len, header |-> m.header]
BY StreamAssumption, SMT DEF Messages, Accepted

\* Chunks lie behind the header and within the message.
LEMMA PlacesOfChunks ==
  ASSUME NEW m \in Messages, ~Fits(m.len), NEW i \in ChunksOf(m)
  PROVE  /\ ChunkStart(m.header, i) \in Nat /\ m.header <= ChunkStart(m.header, i)
         /\ ChunkLength(m.len, m.header, i) \in Int
         /\ ChunkLength(m.len, m.header, i) <= ChunkSize(m.header)
         /\ ChunkStart(m.header, i) + ChunkLength(m.len, m.header, i) <= m.len
<1> DEFINE c == ChunkSize(m.header)
<1>1. m.len \in Nat /\ m.header \in Nat /\ Accepted(m.len, m.header) BY MessageFacts
<1>2. c \in Nat \ {0} BY <1>1, Body
<1>3. i \in Nat BY <1>1, Lossless, SMT DEF ChunksOf
<1>4. i * c \in Nat BY <1>2, <1>3, SMT
<1> QED BY <1>1, <1>2, <1>4, SMT DEF ChunkStart, ChunkLength

\* Every byte behind the header is in a chunk.
LEMMA EveryByteInAChunk ==
  ASSUME NEW m \in Messages, ~Fits(m.len), NEW p \in 0 .. m.len - 1, ~ p < m.header
  PROVE  \E i \in ChunksOf(m) : p \in Places(m, i)
<1> DEFINE c == ChunkSize(m.header)
           b == m.len - m.header
           n == (b + c - 1) \div c
           q == p - m.header
           i == q \div c
<1>1. m.len \in Nat /\ m.header \in Nat /\ Accepted(m.len, m.header) BY MessageFacts
<1>2. b \in Nat \ {0} /\ c \in Nat \ {0} BY <1>1, Body
<1>3. q \in Nat /\ q < b /\ p = m.header + q BY <1>1, SMT
<1>4. i \in Nat /\ q % c \in 0 .. c - 1 /\ q = c * i + (q % c) BY <1>2, <1>3, Division
<1>5. n \in Nat /\ Chunks(m.len, m.header) = n BY <1>1, Lossless DEF Chunks
<1>6. b % c \in 0 .. c - 1 /\ (b % c = 0 => b = c * n) /\ (b % c # 0 => b = c * (n - 1) + (b % c))
  BY <1>2, Division, ChunkCount
<1>7. c * (n - 1) \in Int /\ c * n = c * (n - 1) + c BY <1>2, <1>5, SMT
<1> HIDE DEF b, n, q, i
<1>8. b <= c * n BY <1>2, <1>6, <1>7, SMT
<1>9. c * i \in Int /\ c * i = i * c /\ (n <= i => c * n <= c * i)
  BY <1>2, <1>4, <1>5, Multiples, SMT
<1>10. i < n BY <1>2, <1>3, <1>4, <1>5, <1>7, <1>8, <1>9, SMT
<1>11. p \in Places(m, i)
  <2>1. ChunkStart(m.header, i) = m.header + c * i BY <1>9 DEF ChunkStart
  <2> HIDE DEF c
  <2>2. CASE m.len - (m.header + c * i) < c
    <3>1. ChunkLength(m.len, m.header, i) = m.len - (m.header + c * i)
      BY <2>1, <2>2 DEF ChunkLength, c
    <3> QED BY <3>1, <2>1, <1>1, <1>3, <1>4, <1>9, SMT DEF Places
  <2>3. CASE ~ m.len - (m.header + c * i) < c
    <3>1. ChunkLength(m.len, m.header, i) = c BY <2>1, <2>3 DEF ChunkLength, c
    <3> QED BY <3>1, <2>1, <1>1, <1>2, <1>3, <1>4, <1>9, SMT DEF Places
  <2> QED BY <2>2, <2>3
<1> QED BY <1>4, <1>5, <1>10, <1>11, SMT DEF ChunksOf

\* With all its chunks, it is the payload.
LEMMA AllPieces ==
  ASSUME NEW m \in Messages, ~Fits(m.len)
  PROVE  Piece(m, ChunksOf(m)).data = Payload(m)
BY EveryByteInAChunk DEF Piece, Payload

\* The first page of a message makes an allocation that has the header.
LEMMA FirstPiece ==
  ASSUME NEW m \in Messages, ~Fits(m.len), NEW i \in ChunksOf(m), NEW k, NEW r,
         k \notin DOMAIN allocs[r]
  PROVE  Allocation(r, ChunkPage(m, i, k)) = Piece(m, {})
<1>1. m.len \in Nat /\ m.header \in Nat /\ Accepted(m.len, m.header) /\ m.header <= m.len BY MessageFacts
<1>2. TotalLength(m.header, Chunks(m.len, m.header), Remainder(m.len, m.header)) = m.len BY <1>1, Lossless
<1> DEFINE page == ChunkPage(m, i, k)
<1>3. /\ page.id = k /\ page.header = m.header /\ page.num = Chunks(m.len, m.header)
      /\ page.rem = Remainder(m.len, m.header) /\ page.head = [p \in 0 .. m.header - 1 |-> Byte(m, p)]
  BY DEF ChunkPage
<1> HIDE DEF page
<1>4. Allocation(r, page) =
        [merged |-> {},
         data |-> [p \in 0 .. m.len - 1 |-> IF p < m.header THEN page.head[p] ELSE Zero]]
  BY <1>2, <1>3 DEF Allocation
<1>5. \A p \in 0 .. m.len - 1 : p < m.header => page.head[p] = Byte(m, p) BY <1>1, <1>3, SMT
<1> QED BY <1>4, <1>5 DEF Piece, page

LEMMA MergeOfANewChunk ==
  ASSUME NEW r, NEW page, NEW a, NEW start \in Int, NEW size \in Int, page.i \notin a.merged,
         DOMAIN a.data \subseteq Int,
         a = Allocation(r, page), start = ChunkStart(page.header, page.i),
         size = TakenLength(page.header, page.num, page.rem, page.i)
  PROVE  Merge(r, page) =
           [merged |-> a.merged \union {page.i},
            data |-> [p \in DOMAIN a.data |->
                        IF p \in start .. start + size - 1 THEN page.body[p - start] ELSE a.data[p]]]
<1> DEFINE b == Merge(r, page)
<1>1. b = [merged |-> b.merged, data |-> b.data] /\ b.data = [p \in DOMAIN b.data |-> b.data[p]] BY DEF Merge
<1>2. b.merged = a.merged \union {page.i} /\ DOMAIN b.data = DOMAIN a.data BY DEF Merge
<1>3. ASSUME NEW p \in DOMAIN a.data
      PROVE  b.data[p] = IF p \in start .. start + size - 1 THEN page.body[p - start] ELSE a.data[p]
  BY DEF Merge
<1> HIDE DEF b
<1>4. b.data = [p \in DOMAIN a.data |->
                  IF p \in start .. start + size - 1 THEN page.body[p - start] ELSE a.data[p]]
  BY <1>1, <1>2, <1>3
<1> QED BY <1>1, <1>2, <1>4 DEF b

\* A page adds its chunk to what there is.
LEMMA OneMorePiece ==
  ASSUME NEW m \in Messages, ~Fits(m.len), NEW i \in ChunksOf(m), NEW k, NEW r,
         NEW S \in SUBSET ChunksOf(m), Allocation(r, ChunkPage(m, i, k)) = Piece(m, S)
  PROVE  Merge(r, ChunkPage(m, i, k)) = Piece(m, S \union {i})
<1> DEFINE page  == ChunkPage(m, i, k)
           start == ChunkStart(m.header, i)
           size  == ChunkLength(m.len, m.header, i)
           a     == Piece(m, S)
<1>1. m.len \in Nat /\ m.header \in Nat /\ Accepted(m.len, m.header) BY MessageFacts
<1>2. /\ start \in Nat /\ m.header <= start /\ size \in Int
      /\ size <= ChunkSize(m.header) /\ start + size <= m.len
  BY PlacesOfChunks
<1>3. TakenLength(page.header, page.num, page.rem, page.i) = size
  BY <1>1, Lossless DEF ChunkPage, ChunksOf
<1>4. page.header = m.header /\ page.i = i BY DEF ChunkPage
<1>5. Merge(r, page) = IF i \in a.merged THEN a ELSE
        [merged |-> a.merged \union {i},
         data |-> [p \in DOMAIN a.data |-> IF p \in start .. start + size - 1 THEN page.body[p - start] ELSE a.data[p]]]
  <2>1. Allocation(r, page) = a OBVIOUS
  <2>2. DOMAIN a.data \subseteq Int /\ start \in Int /\ size \in Int BY <1>1, <1>2, SMT DEF Piece
  <2> HIDE DEF page, start, size, a
  <2>3. start = ChunkStart(page.header, page.i) BY <1>4 DEF start
  <2>4. CASE i \in a.merged BY <1>4, <2>1, <2>4 DEF Merge
  <2>5. CASE i \notin a.merged BY <1>3, <1>4, <2>1, <2>2, <2>3, <2>5, MergeOfANewChunk
  <2> QED BY <2>4, <2>5
<1>6. a.merged = S /\ DOMAIN a.data = 0 .. m.len - 1 BY DEF Piece
<1>7. CASE i \in S
  <2>1. S \union {i} = S BY <1>7
  <2> QED BY <2>1, <1>5, <1>6, <1>7
<1>8. CASE i \notin S
  <2>1. ASSUME NEW p \in 0 .. m.len - 1
        PROVE  (IF p \in start .. start + size - 1 THEN page.body[p - start] ELSE a.data[p])
                 = Piece(m, S \union {i}).data[p]
    <3>1. CASE p \in start .. start + size - 1
      <4>1. p - start \in 0 .. ChunkSize(m.header) - 1 /\ p - start < size /\ start + (p - start) = p
        BY <3>1, <1>1, <1>2, ChunkingAssumption, SMT DEF ChunkSize
      <4>2. page.body[p - start] = Byte(m, p) BY <4>1 DEF ChunkPage
      <4>3. p \in Places(m, i) BY <3>1 DEF Places
      <4> QED BY <4>2, <4>3, <3>1 DEF Piece
    <3>2. CASE p \notin start .. start + size - 1
      <4>1. p \notin Places(m, i) BY <3>2 DEF Places
      <4> QED BY <4>1, <3>2 DEF Piece
    <3> QED BY <3>1, <3>2
  <2>2. Merge(r, page) = [merged |-> S \union {i},
          data |-> [p \in 0 .. m.len - 1 |-> IF p \in start .. start + size - 1 THEN page.body[p - start] ELSE a.data[p]]]
    BY <1>5, <1>6, <1>8
  <2>3. Piece(m, S \union {i}) = [merged |-> S \union {i},
          data |-> [p \in 0 .. m.len - 1 |-> Piece(m, S \union {i}).data[p]]]
    BY DEF Piece
  <2> QED BY <2>1, <2>2, <2>3
<1> QED BY <1>7, <1>8

\* As many chunks as there are are all of them.
LEMMA AllChunks ==
  ASSUME NEW m \in Messages, ~Fits(m.len)
  PROVE  /\ Cardinality(ChunksOf(m)) = Chunks(m.len, m.header)
         /\ \A S \in SUBSET ChunksOf(m) : Cardinality(S) = Chunks(m.len, m.header) => S = ChunksOf(m)
<1>1. Chunks(m.len, m.header) \in Nat \ {0, 1} BY MessageFacts, Lossless
<1>2. IsFiniteSet(ChunksOf(m)) /\ Cardinality(ChunksOf(m)) = Chunks(m.len, m.header)
  BY <1>1, FS_Interval, SMT DEF ChunksOf
<1> QED BY <1>2, FS_Subset

-----------------------------------------------------------------------------
(* Whose page, piece and message is which: `owner` is the message of each  *)
(* attempt.  Nothing in the state of the system says it, so that the       *)
(* invariant is that there is such an assignment.                          *)

Owners == [Attempts -> Messages \union {None}]

Given == 1 .. fresh - 1

Active(s) == stage[s] \in {"page", "backoff", "notify"}

PlainPages(s) == {PlainPage(m) : m \in {m \in Messages : m.from = s /\ Fits(m.len)}}

CutUp(owner, s) == {k \in Given : owner[k].from = s /\ ~Fits(owner[k].len)}

ChunkPages(owner, s) == UNION {{ChunkPage(owner[k], i, k) : i \in ChunksOf(owner[k])} : k \in CutUp(owner, s)}

PagesOf(owner, s) == PlainPages(s) \union ChunkPages(owner, s)

Sending(owner) ==
  /\ \A k \in Given : owner[k] \in Messages
  /\ \A s \in Senders :
       /\ Active(s) \/ stage[s] = "again" => msg[s] \in Messages /\ msg[s].from = s
       /\ Active(s) => id[s] \in Given /\ owner[id[s]] = msg[s]

OnTheWire(owner) ==
  /\ DOMAIN wire = Receivers
  /\ \A r \in Receivers : DOMAIN wire[r] = Senders
  /\ \A r \in Receivers, s \in Senders : wire[r][s] \in Seq(PagesOf(owner, s))

InPieces(owner) ==
  /\ DOMAIN allocs = Receivers
  /\ \A r \in Receivers : \A k \in DOMAIN allocs[r] :
       /\ k \in Given /\ owner[k].from \in Wants[r] /\ ~Fits(owner[k].len)
       /\ \E S \in SUBSET ChunksOf(owner[k]) : allocs[r][k] = Piece(owner[k], S)

Wholes(r) == {[message |-> Whole(m), attempt |-> k] :
                m \in {m \in Messages : m.from \in Wants[r]}, k \in 0 .. MaxAttempts}

Completed ==
  /\ DOMAIN delivered = Receivers
  /\ \A r \in Receivers : delivered[r] \in Seq(Wholes(r))

Inv(owner) ==
  TypeOK /\ Sending(owner) /\ OnTheWire(owner) /\ InPieces(owner) /\ Completed

\* An attempt, once given, stays the message's.
Same(owner, own) == \A k \in Given : own[k] = owner[k]

LEMMA Initially == ASSUME Init PROVE \E owner \in Owners : Inv(owner)
<1> DEFINE owner == [k \in Attempts |-> None]
<1>1. owner \in Owners BY DEF Owners
<1>2. Given = {} BY SMT DEF Init, Given
<1>3. TypeOK
  <2>1. \A r \in Receivers, s \in Senders : wire[r][s] = <<>> BY DEF Init
  <2>2. Len(<<>>) = 0 BY EmptySeq
  <2>3. \A r \in Receivers, s \in Senders : Len(wire[r][s]) <= BufferSize
    BY <2>1, <2>2, StreamAssumption, SMT
  <2>4. \A r \in Receivers : DOMAIN allocs[r] = {} BY SMT DEF Init
  <2> QED BY <2>3, <2>4, StreamAssumption, SMT DEF Init, TypeOK
<1>4. Sending(owner) BY <1>2 DEF Init, Sending, Active
<1>5. OnTheWire(owner) BY EmptySeq DEF Init, OnTheWire
<1>6. InPieces(owner) BY <1>2, SMT DEF Init, InPieces
<1>7. Completed BY EmptySeq DEF Init, Completed
<1> QED BY <1>1, <1>3, <1>4, <1>5, <1>6, <1>7 DEF Inv

\* A page that is there belongs to a message that fits or is one of its chunks.
LEMMA PageCases ==
  ASSUME NEW owner, NEW s, NEW page \in PagesOf(owner, s), Sending(owner)
  PROVE  \/ \E m \in Messages : m.from = s /\ Fits(m.len) /\ page = PlainPage(m) /\ page.num = 0
         \/ \E k \in CutUp(owner, s) : \E i \in ChunksOf(owner[k]) :
              /\ owner[k] \in Messages /\ page = ChunkPage(owner[k], i, k)
              /\ page.id = k /\ page.i = i /\ page.num = Chunks(owner[k].len, owner[k].header) /\ page.num # 0
<1>1. CASE page \in PlainPages(s) BY <1>1 DEF PlainPages, PlainPage
<1>2. CASE page \in ChunkPages(owner, s)
  <2>1. PICK k \in CutUp(owner, s) : \E i \in ChunksOf(owner[k]) : page = ChunkPage(owner[k], i, k)
    BY <1>2 DEF ChunkPages
  <2>2. PICK i \in ChunksOf(owner[k]) : page = ChunkPage(owner[k], i, k) BY <2>1
  <2>3. owner[k] \in Messages /\ ~Fits(owner[k].len) BY DEF Sending, CutUp
  <2>4. Chunks(owner[k].len, owner[k].header) # 0 BY <2>3, MessageFacts, Lossless
  <2>5. page.id = k /\ page.i = i /\ page.num = Chunks(owner[k].len, owner[k].header)
    BY <2>2 DEF ChunkPage
  <2> QED BY <2>2, <2>3, <2>4, <2>5
<1> QED BY <1>1, <1>2 DEF PagesOf

\* The page that is sent is one of them.
LEMMA PageSent ==
  ASSUME NEW owner, NEW s \in Senders, Inv(owner), stage[s] = "page"
  PROVE  Page(s) \in PagesOf(owner, s)
<1>1. /\ msg[s] \in Messages /\ msg[s].from = s /\ id[s] \in Given /\ owner[id[s]] = msg[s]
  BY DEF Inv, Sending, Active
<1>2. CASE Fits(msg[s].len) BY <1>1, <1>2 DEF PagesOf, PlainPages, Page
<1>3. CASE ~Fits(msg[s].len)
  <2>1. id[s] \in CutUp(owner, s) BY <1>1, <1>3 DEF CutUp
  <2>2. Chunks(msg[s].len, msg[s].header) \in Nat BY <1>1, <1>3, MessageFacts, Lossless
  <2>3. next[s] \in Nat /\ next[s] < Chunks(msg[s].len, msg[s].header) BY <1>3 DEF Inv, TypeOK
  <2>4. next[s] \in ChunksOf(owner[id[s]]) BY <1>1, <2>2, <2>3, SMT DEF ChunksOf
  <2>5. Page(s) = ChunkPage(owner[id[s]], next[s], id[s]) BY <1>1, <1>3 DEF Page
  <2> QED BY <2>1, <2>4, <2>5 DEF PagesOf, ChunkPages
<1> QED BY <1>2, <1>3

\* An attempt more leaves the pages of the others what they are.
LEMMA PagesStay ==
  ASSUME NEW owner \in Owners, NEW own, NEW s, fresh \in Nat, fresh' \in Nat, fresh <= fresh',
         \A k \in Given : own[k] = owner[k]
  PROVE  PagesOf(owner, s) \subseteq PagesOf(own, s)'
<1>1. Given \subseteq Given' BY SMT DEF Given
<1>2. CutUp(owner, s) \subseteq CutUp(own, s)' BY <1>1 DEF CutUp
<1>3. ChunkPages(owner, s) \subseteq ChunkPages(own, s)'
  <2> SUFFICES ASSUME NEW k \in CutUp(owner, s), NEW i \in ChunksOf(owner[k])
               PROVE  ChunkPage(owner[k], i, k) \in ChunkPages(own, s)'
    BY DEF ChunkPages
  <2>1. k \in CutUp(own, s)' /\ own[k] = owner[k] BY <1>2 DEF CutUp
  <2> QED BY <2>1 DEF ChunkPages
<1>4. PlainPages(s)' = PlainPages(s) BY DEF PlainPages
<1> QED BY <1>3, <1>4 DEF PagesOf

\* What was allocated and is kept stays a piece of the same message.
LEMMA PiecesStay ==
  ASSUME NEW owner, NEW own, InPieces(owner), Given \subseteq Given',
         \A k \in Given : own[k] = owner[k],
         DOMAIN allocs' = Receivers,
         \A r \in Receivers : /\ DOMAIN allocs'[r] \subseteq DOMAIN allocs[r]
                              /\ \A k \in DOMAIN allocs'[r] : allocs'[r][k] = allocs[r][k]
  PROVE  InPieces(own)'
<1> SUFFICES ASSUME NEW r \in Receivers, NEW k \in DOMAIN allocs'[r]
             PROVE  /\ k \in Given' /\ own[k].from \in Wants[r] /\ ~Fits(own[k].len)
                    /\ \E S \in SUBSET ChunksOf(own[k]) : allocs'[r][k] = Piece(own[k], S)
  BY DEF InPieces
<1>1. k \in DOMAIN allocs[r] /\ allocs'[r][k] = allocs[r][k] OBVIOUS
<1>2. /\ k \in Given /\ owner[k].from \in Wants[r] /\ ~Fits(owner[k].len)
      /\ \E S \in SUBSET ChunksOf(owner[k]) : allocs[r][k] = Piece(owner[k], S)
  BY <1>1 DEF InPieces
<1>3. k \in Given' /\ own[k] = owner[k] BY <1>2
<1> QED BY <1>1, <1>2, <1>3

\* A first or a further attempt: its identification is the message's.
LEMMA AttemptKeeps ==
  ASSUME NEW owner \in Owners, NEW s \in Senders, Inv(owner), Attempt(s),
         stage' = [stage EXCEPT ![s] = "page"],
         msg' \in [Senders -> Messages \union {None}],
         msg'[s] \in Messages, msg'[s].from = s, \A t \in Senders \ {s} : msg'[t] = msg[t],
         UNCHANGED <<wire, receiver, history>>
  PROVE  \E own \in Owners : Inv(own)' /\ Same(owner, own)
<1>1. /\ fresh \in Attempts /\ fresh \in Nat /\ fresh' = fresh + 1 /\ fresh \notin Given
      /\ Given' = Given \union {fresh} /\ Given \subseteq Attempts
  BY StreamAssumption, SMT DEF Attempt, Attempts, Given, Inv, TypeOK
<1>2. [owner EXCEPT ![fresh] = msg'[s]] \in Owners BY <1>1 DEF Owners
<1> PICK own \in Owners : own = [owner EXCEPT ![fresh] = msg'[s]] BY <1>2
<1>3. own[fresh] = msg'[s] /\ \A k \in Given : own[k] = owner[k] BY <1>1 DEF Owners
<1>4. UNCHANGED <<wire, allocs, delivered, joined, returned, broken>> BY DEF receiver, history
<1>5. /\ id' = [id EXCEPT ![s] = fresh] /\ next' = [next EXCEPT ![s] = 0] /\ fine' = [fine EXCEPT ![s] = TRUE]
  BY DEF Attempt
<1>6. TypeOK'
  <2>1. ASSUME NEW t \in Senders, stage'[t] \in {"page", "backoff", "notify"}, ~Fits(msg'[t].len)
        PROVE  next'[t] < Chunks(msg'[t].len, msg'[t].header)
    <3>1. CASE t = s
      <4>1. Chunks(msg'[s].len, msg'[s].header) \in Nat \ {0, 1} BY <2>1, <3>1, MessageFacts, Lossless
      <4>2. next'[s] = 0 BY <1>5 DEF Inv, TypeOK
      <4> QED BY <3>1, <4>1, <4>2, SMT
    <3>2. CASE t # s
      <4>1. stage'[t] = stage[t] /\ msg'[t] = msg[t] /\ next'[t] = next[t]
        BY <3>2, <1>5 DEF Inv, TypeOK
      <4> QED BY <2>1, <4>1 DEF Inv, TypeOK
    <3> QED BY <3>1, <3>2
  <2>2. /\ stage' \in [Senders -> {"idle", "page", "backoff", "notify", "again", "dead"}]
        /\ id' \in [Senders -> 0 .. MaxAttempts] /\ next' \in [Senders -> Nat]
        /\ fine' \in [Senders -> BOOLEAN] /\ fresh' \in 1 .. MaxAttempts + 1
    BY <1>1, <1>5, StreamAssumption, SMT DEF Inv, TypeOK, Attempts
  <2> QED BY <2>1, <2>2, <1>4 DEF Inv, TypeOK
<1>7. Sending(own)'
  <2>1. \A k \in Given' : own[k] \in Messages BY <1>1, <1>3 DEF Inv, Sending
  <2>2. ASSUME NEW t \in Senders
        PROVE  /\ Active(t)' \/ stage'[t] = "again" => msg'[t] \in Messages /\ msg'[t].from = t
               /\ Active(t)' => id'[t] \in Given' /\ own[id'[t]] = msg'[t]
    <3>1. CASE t = s
      <4>1. id'[s] = fresh BY <1>5 DEF Inv, TypeOK
      <4> QED BY <3>1, <4>1, <1>1, <1>3
    <3>2. CASE t # s
      <4>1. stage'[t] = stage[t] /\ msg'[t] = msg[t] /\ id'[t] = id[t]
        BY <3>2, <1>5 DEF Inv, TypeOK
      <4>2. Active(t)' = Active(t) BY <4>1 DEF Active
      <4> QED BY <4>1, <4>2, <1>1, <1>3 DEF Inv, Sending
    <3> QED BY <3>1, <3>2
  <2> QED BY <2>1, <2>2 DEF Sending
<1>8. OnTheWire(own)'
  <2>1. ASSUME NEW r \in Receivers, NEW t \in Senders
        PROVE  wire[r][t] \in Seq(PagesOf(own, t)')
    <3> fresh' \in Nat /\ fresh <= fresh' BY <1>1, SMT
    <3>1. PagesOf(owner, t) \subseteq PagesOf(own, t)' BY <1>1, <1>3, PagesStay
    <3>2. wire[r][t] \in Seq(PagesOf(owner, t)) BY DEF Inv, OnTheWire
    <3> HIDE DEF PagesOf
    <3> QED BY <3>1, <3>2, SeqMonotonic
  <2> QED BY <2>1, <1>4 DEF Inv, OnTheWire
<1>9. InPieces(own)'
  <2>1. InPieces(owner) /\ DOMAIN allocs = Receivers BY DEF Inv, InPieces
  <2> QED BY <2>1, <1>1, <1>3, <1>4, PiecesStay
<1>10. Completed' BY <1>4 DEF Inv, Completed, Wholes
<1> QED BY <1>3, <1>6, <1>7, <1>8, <1>9, <1>10 DEF Inv, Same

LEMMA SendKeeps ==
  ASSUME NEW owner \in Owners, Inv(owner), NEW s \in Senders, NEW size \in Sizes, Send(s, size[1], size[2])
  PROVE  \E own \in Owners : Inv(own)' /\ Same(owner, own)
<1> DEFINE m == [from |-> s, first |-> fresh, len |-> size[1], header |-> size[2]]
<1>1. fresh \in Attempts /\ Accepted(m.len, m.header) BY DEF Send, Attempt
<1>2. m \in Messages
  <2>1. size = <<m.len, m.header>> BY StreamAssumption
  <2> QED BY <1>1, <2>1 DEF Messages
<1>3. msg' = [msg EXCEPT ![s] = m] BY DEF Send
<1> HIDE DEF m
<1>4. m.from = s BY DEF m
<1>5. /\ msg' \in [Senders -> Messages \union {None}] /\ msg'[s] = m
      /\ \A t \in Senders \ {s} : msg'[t] = msg[t]
  BY <1>2, <1>3 DEF Inv, TypeOK
<1>6. stage' = [stage EXCEPT ![s] = "page"] /\ Attempt(s) /\ UNCHANGED <<wire, receiver, history>>
  BY DEF Send, Go
<1> QED BY <1>2, <1>4, <1>5, <1>6, AttemptKeeps

LEMMA AgainKeeps ==
  ASSUME NEW owner \in Owners, Inv(owner), NEW s \in Senders, Again(s)
  PROVE  \E own \in Owners : Inv(own)' /\ Same(owner, own)
<1>1. /\ stage[s] = "again" /\ stage' = [stage EXCEPT ![s] = "page"] /\ Attempt(s)
      /\ msg' = msg /\ UNCHANGED <<wire, receiver, history>>
  BY DEF Again, Go
<1>2. msg[s] \in Messages /\ msg[s].from = s BY <1>1 DEF Inv, Sending
<1>3. msg' \in [Senders -> Messages \union {None}] BY <1>1 DEF Inv, TypeOK
<1> QED BY <1>1, <1>2, <1>3, AttemptKeeps

\* Steps that touch no page and no piece.
LEMMA NothingMoves ==
  ASSUME NEW owner \in Owners, Inv(owner), TypeOK', UNCHANGED <<wire, allocs, delivered, fresh, msg, id>>,
         \A s \in Senders : /\ Active(s)' => Active(s)
                            /\ stage'[s] = "again" => Active(s) \/ stage[s] = "again"
  PROVE  Inv(owner)'
<1>1. Given' = Given BY DEF Given
<1>2. Sending(owner)' BY <1>1 DEF Inv, Sending
<1>3. ASSUME NEW s PROVE PagesOf(owner, s)' = PagesOf(owner, s)
  BY <1>1 DEF PagesOf, PlainPages, ChunkPages, CutUp
<1>4. OnTheWire(owner)'
  <2> HIDE DEF PagesOf
  <2> QED BY <1>3 DEF Inv, OnTheWire
<1>5. InPieces(owner)' BY <1>1 DEF Inv, InPieces
<1>6. Completed' BY DEF Inv, Completed, Wholes
<1> QED BY <1>2, <1>4, <1>5, <1>6 DEF Inv

LEMMA BackoffKeeps ==
  ASSUME NEW owner \in Owners, Inv(owner), NEW s \in Senders, Backoff(s)
  PROVE  Inv(owner)'
<1>1. PICK to \in {"page", "idle"} : stage[s] = "backoff" /\ stage' = [stage EXCEPT ![s] = to]
  BY DEF Backoff, Go
<1>2. UNCHANGED <<msg, id, next, fine, fresh, wire, allocs, delivered, joined, returned, broken>>
  BY DEF Backoff, receiver, history
<1>3. TypeOK' BY <1>1, <1>2 DEF Inv, TypeOK
<1>4. \A t \in Senders : (Active(t)' => Active(t)) /\ (stage'[t] = "again" => stage[t] = "again")
  BY <1>1 DEF Inv, TypeOK, Active
<1> QED BY <1>2, <1>3, <1>4, NothingMoves

LEMMA NotifyKeeps ==
  ASSUME NEW owner \in Owners, Inv(owner), NEW s \in Senders, Notify(s)
  PROVE  Inv(owner)'
<1> DEFINE n    == Chunks(msg[s].len, msg[s].header)
           last == Fits(msg[s].len) \/ next[s] + 1 = n
           to   == IF ~fine[s] THEN "again" ELSE IF last THEN "idle" ELSE "page"
<1>1. /\ stage[s] = "notify" /\ stage' = [stage EXCEPT ![s] = to]
      /\ next' = IF last THEN next ELSE [next EXCEPT ![s] = @ + 1]
      /\ returned' = IF stage'[s] = "idle" THEN returned \union {msg[s]} ELSE returned
  BY DEF Notify, Go
<1>2. UNCHANGED <<msg, id, fine, fresh, wire, allocs, delivered, joined, broken>>
  BY DEF Notify, receiver
<1>3. Active(s) /\ msg[s] \in Messages BY <1>1 DEF Inv, Sending, Active
<1>4. ~Fits(msg[s].len) => n \in Nat /\ next[s] \in Nat /\ next[s] < n
  BY <1>1, <1>3, MessageFacts, Lossless DEF Inv, TypeOK
<1>5. next[s] \in Nat /\ next' \in [Senders -> Nat] /\ (next'[s] = IF last THEN next[s] ELSE next[s] + 1)
  BY <1>1, SMT DEF Inv, TypeOK
<1>6. \A t \in Senders \ {s} : next'[t] = next[t] /\ stage'[t] = stage[t] BY <1>1 DEF Inv, TypeOK
<1>7. stage' \in [Senders -> {"idle", "page", "backoff", "notify", "again", "dead"}] /\ stage'[s] = to
  BY <1>1 DEF Inv, TypeOK
<1>8. ASSUME NEW t \in Senders, stage'[t] \in {"page", "backoff", "notify"}, ~Fits(msg[t].len)
      PROVE  next'[t] < Chunks(msg[t].len, msg[t].header)
  <2>1. CASE t = s
    <3>1. to = "page" /\ ~last BY <1>7, <1>8, <2>1
    <3> HIDE DEF to, n
    <3> QED BY <2>1, <3>1, <1>4, <1>5, <1>8, SMT DEF n
  <2>2. CASE t # s BY <2>2, <1>6, <1>8 DEF Inv, TypeOK
  <2> QED BY <2>1, <2>2
<1>9. returned' \subseteq Messages BY <1>1, <1>3 DEF Inv, TypeOK
<1>10. TypeOK' BY <1>2, <1>5, <1>7, <1>8, <1>9 DEF Inv, TypeOK
<1>11. \A t \in Senders : /\ Active(t)' => Active(t)
                          /\ stage'[t] = "again" => Active(t) \/ stage[t] = "again"
  BY <1>3, <1>6 DEF Active
<1> QED BY <1>2, <1>10, <1>11, NothingMoves

LEMMA NotifyFailsKeeps ==
  ASSUME NEW owner \in Owners, Inv(owner), NEW s \in Senders, NotifyFails(s)
  PROVE  Inv(owner)'
<1>1. stage[s] = "notify" /\ stage' = [stage EXCEPT ![s] = "again"] /\ broken' = broken \union {id[s]}
  BY DEF NotifyFails, Go
<1>2. UNCHANGED <<msg, id, next, fine, fresh, wire, allocs, delivered, joined, returned>>
  BY DEF NotifyFails, receiver
<1>3. Active(s) BY <1>1 DEF Active
<1>4. id[s] \in Attempts
  BY <1>3, StreamAssumption, SMT DEF Inv, Sending, TypeOK, Given, Attempts
<1>5. TypeOK' BY <1>1, <1>2, <1>4 DEF Inv, TypeOK
<1>6. \A t \in Senders : /\ Active(t)' => Active(t)
                         /\ stage'[t] = "again" => Active(t) \/ stage[t] = "again"
  BY <1>1, <1>3 DEF Inv, TypeOK, Active
<1> QED BY <1>2, <1>5, <1>6, NothingMoves

LEMMA DieKeeps ==
  ASSUME NEW owner \in Owners, Inv(owner), NEW s \in Senders, Die(s)
  PROVE  Inv(owner)'
<1>1. /\ stage[s] # "dead" /\ stage' = [stage EXCEPT ![s] = "dead"]
      /\ broken' = IF stage[s] \in {"idle", "again"} THEN broken ELSE broken \union {id[s]}
  BY DEF Die
<1>2. UNCHANGED <<msg, id, next, fine, fresh, wire, allocs, delivered, joined, returned>>
  BY DEF Die, receiver
<1>3. broken' \subseteq Attempts
  <2>1. CASE stage[s] \in {"idle", "again"} BY <1>1, <2>1 DEF Inv, TypeOK
  <2>2. CASE stage[s] \notin {"idle", "again"}
    <3>1. Active(s) BY <1>1, <2>2 DEF Inv, TypeOK, Active
    <3>2. id[s] \in Attempts
      BY <3>1, StreamAssumption, SMT DEF Inv, Sending, TypeOK, Given, Attempts
    <3> QED BY <1>1, <3>2 DEF Inv, TypeOK
  <2> QED BY <2>1, <2>2
<1>4. TypeOK' BY <1>1, <1>2, <1>3 DEF Inv, TypeOK
<1>5. \A t \in Senders : (Active(t)' => Active(t)) /\ (stage'[t] = "again" => stage[t] = "again")
  BY <1>1 DEF Inv, TypeOK, Active
<1> QED BY <1>2, <1>4, <1>5, NothingMoves

LEMMA JoinKeeps ==
  ASSUME NEW owner \in Owners, Inv(owner), NEW r \in Receivers, Join(r)
  PROVE  Inv(owner)'
<1>1. joined' = [joined EXCEPT ![r] = fresh] BY DEF Join
<1>2. UNCHANGED <<stage, msg, id, next, fine, fresh, wire, allocs, delivered, returned, broken>>
  BY DEF Join, sender, history
<1>3. fresh \in 0 .. MaxAttempts + 1 BY StreamAssumption, SMT DEF Inv, TypeOK
<1>4. TypeOK' BY <1>1, <1>2, <1>3 DEF Inv, TypeOK
<1>5. \A t \in Senders : (Active(t)' => Active(t)) /\ (stage'[t] = "again" => stage[t] = "again")
  BY <1>2 DEF Active
<1> QED BY <1>2, <1>4, <1>5, NothingMoves

\* A page goes to receivers that have room for it.
LEMMA PublishKeeps ==
  ASSUME NEW owner \in Owners, Inv(owner), NEW s \in Senders, stage[s] = "page",
         NEW targets \in SUBSET {r \in Receivers : HasRoom(r, s)}, Publish(s, targets), fresh' = fresh
  PROVE  OnTheWire(owner)' /\ \A r \in Receivers, t \in Senders : Len(wire'[r][t]) <= BufferSize
<1>1. Page(s) \in PagesOf(owner, s) BY PageSent
<1>2. Given' = Given BY DEF Given
<1>3. ASSUME NEW t PROVE PagesOf(owner, t)' = PagesOf(owner, t)
  BY <1>2 DEF PagesOf, PlainPages, ChunkPages, CutUp
<1> HIDE DEF PagesOf
<1>4. ASSUME NEW r \in Receivers, NEW t \in Senders
      PROVE  /\ DOMAIN wire'[r] = Senders /\ wire'[r][t] \in Seq(PagesOf(owner, t))
             /\ Len(wire'[r][t]) <= BufferSize
  <2> DEFINE q == wire[r][t]
  <2>1. DOMAIN wire[r] = Senders /\ q \in Seq(PagesOf(owner, t)) BY DEF Inv, OnTheWire
  <2>2. Len(q) <= BufferSize BY DEF Inv, TypeOK
  <2>3. CASE r \in targets /\ t = s
    <3>1. DOMAIN wire'[r] = Senders /\ wire'[r][t] = Append(q, Page(s))
      BY <2>1, <2>3 DEF Publish
    <3>2. Len(q) < BufferSize BY <2>3 DEF HasRoom
    <3> HIDE DEF q
    <3>3. Append(q, Page(s)) \in Seq(PagesOf(owner, t)) /\ Len(Append(q, Page(s))) = Len(q) + 1
      BY <1>1, <2>1, <2>3, AppendProperties
    <3>4. Len(q) \in Nat BY <2>1, LenProperties
    <3> QED BY <3>1, <3>2, <3>3, <3>4, StreamAssumption, SMT
  <2>4. CASE ~(r \in targets /\ t = s)
    <3>1. DOMAIN wire'[r] = Senders /\ wire'[r][t] = q BY <2>1, <2>4 DEF Publish
    <3> QED BY <3>1, <2>1, <2>2
  <2> QED BY <2>3, <2>4
<1>5. DOMAIN wire' = Receivers BY DEF Publish
<1> QED BY <1>3, <1>4, <1>5 DEF OnTheWire

LEMMA SendPageKeeps ==
  ASSUME NEW owner \in Owners, Inv(owner), NEW s \in Senders, SendPage(s) \/ PageFails(s)
  PROVE  Inv(owner)'
<1>1. /\ stage[s] = "page" /\ UNCHANGED <<msg, id, next, fresh, allocs, delivered, joined, returned>>
      /\ stage' = [stage EXCEPT ![s] = "notify"] \/ stage' = [stage EXCEPT ![s] = "backoff"]
  <2>1. CASE SendPage(s) BY <2>1 DEF SendPage, Go, receiver, history
  <2>2. CASE PageFails(s) BY <2>2 DEF PageFails, Go, receiver
  <2> QED BY <2>1, <2>2
<1>2. PICK targets \in SUBSET {r \in Receivers : HasRoom(r, s)} : Publish(s, targets)
  BY DEF SendPage, PageFails, Subscribed
<1>3. OnTheWire(owner)' /\ \A r \in Receivers, t \in Senders : Len(wire'[r][t]) <= BufferSize
  BY <1>1, <1>2, PublishKeeps
<1>4. Active(s) BY <1>1 DEF Active
<1>5. id[s] \in Attempts
  BY <1>4, StreamAssumption, SMT DEF Inv, Sending, TypeOK, Given, Attempts
<1>6. fine' \in [Senders -> BOOLEAN] /\ broken' \subseteq Attempts
  <2>1. CASE SendPage(s) BY <2>1 DEF SendPage, history, Inv, TypeOK
  <2>2. CASE PageFails(s)
    <3>1. fine' = [fine EXCEPT ![s] = ~Fits(msg[s].len)] /\ broken' = broken \union {id[s]}
      BY <2>2 DEF PageFails
    <3>2. fine' \in [Senders -> BOOLEAN]
      <4>1. CASE Fits(msg[s].len)
        <5>1. (~Fits(msg[s].len)) = FALSE BY <4>1
        <5>2. fine' = [fine EXCEPT ![s] = FALSE] BY <3>1, <5>1
        <5> QED BY <5>2 DEF Inv, TypeOK
      <4>2. CASE ~Fits(msg[s].len)
        <5>1. (~Fits(msg[s].len)) = TRUE BY <4>2
        <5>2. fine' = [fine EXCEPT ![s] = TRUE] BY <3>1, <5>1
        <5> QED BY <5>2 DEF Inv, TypeOK
      <4> QED BY <4>1, <4>2
    <3> QED BY <3>1, <3>2, <1>5 DEF Inv, TypeOK
  <2> QED BY <2>1, <2>2
<1>7. /\ stage' \in [Senders -> {"idle", "page", "backoff", "notify", "again", "dead"}]
      /\ \A t \in Senders : stage'[t] \in {"page", "backoff", "notify"} => stage[t] \in {"page", "backoff", "notify"}
      /\ \A t \in Senders : stage'[t] = "again" => stage[t] = "again"
  BY <1>1 DEF Inv, TypeOK
<1>8. TypeOK' BY <1>1, <1>3, <1>6, <1>7 DEF Inv, TypeOK
<1>9. Given' = Given BY <1>1 DEF Given
<1>10. Sending(owner)' BY <1>1, <1>7, <1>9 DEF Inv, Sending, Active
<1>11. InPieces(owner)' BY <1>1, <1>9 DEF Inv, InPieces
<1>12. Completed' BY <1>1 DEF Inv, Completed, Wholes
<1> QED BY <1>3, <1>8, <1>10, <1>11, <1>12 DEF Inv

\* Taking a page from the wire.
LEMMA TakePage ==
  ASSUME NEW owner \in Owners, Inv(owner), NEW r \in Receivers, NEW s \in Senders, Receive(r, s)
  PROVE  /\ UNCHANGED <<stage, msg, id, next, fine, fresh, joined, returned, broken>>
         /\ Given' = Given /\ wire[r][s] # <<>> /\ wire[r][s] \in Seq(PagesOf(owner, s))
         /\ Head(wire[r][s]) \in PagesOf(owner, s)
         /\ wire' = [wire EXCEPT ![r][s] = Tail(@)]
         /\ OnTheWire(owner)' /\ Sending(owner)'
         /\ \A t \in Receivers, u \in Senders : Len(wire'[t][u]) <= BufferSize
<1>1. UNCHANGED <<stage, msg, id, next, fine, fresh, joined, returned, broken>> /\ wire[r][s] # <<>>
      /\ wire' = [wire EXCEPT ![r][s] = Tail(@)]
  BY DEF Receive, sender, history
<1>2. Given' = Given BY <1>1 DEF Given
<1>3. ASSUME NEW t PROVE PagesOf(owner, t)' = PagesOf(owner, t)
  BY <1>2 DEF PagesOf, PlainPages, ChunkPages, CutUp
<1>4. Sending(owner)' BY <1>1, <1>2 DEF Inv, Sending, Active
<1> HIDE DEF PagesOf
<1> DEFINE q == wire[r][s]
<1>5. DOMAIN wire = Receivers /\ DOMAIN wire[r] = Senders /\ q \in Seq(PagesOf(owner, s))
  BY DEF Inv, OnTheWire
<1>6. DOMAIN wire' = Receivers /\ DOMAIN wire'[r] = Senders /\ wire'[r][s] = Tail(q)
  BY <1>1, <1>5
<1>7. ASSUME NEW t \in Receivers, NEW u \in Senders, <<t, u>> # <<r, s>>
      PROVE  wire'[t][u] = wire[t][u]
  BY <1>1, <1>5, <1>7 DEF Inv, OnTheWire
<1>8. \A t \in Receivers : DOMAIN wire'[t] = Senders BY <1>1, <1>5 DEF Inv, OnTheWire
<1> HIDE DEF q
<1>9. Head(q) \in PagesOf(owner, s) /\ Tail(q) \in Seq(PagesOf(owner, s)) /\ Len(Tail(q)) = Len(q) - 1
  BY <1>1, <1>5, HeadTailProperties DEF q
<1>10. Len(Tail(q)) <= BufferSize
  <2>1. Len(q) \in Nat /\ Len(q) <= BufferSize BY <1>5, LenProperties DEF q, Inv, TypeOK
  <2> QED BY <1>9, <2>1, StreamAssumption, SMT
<1>11. \A t \in Receivers, u \in Senders :
         wire'[t][u] \in Seq(PagesOf(owner, u)) /\ Len(wire'[t][u]) <= BufferSize
  <2> SUFFICES ASSUME NEW t \in Receivers, NEW u \in Senders
               PROVE  wire'[t][u] \in Seq(PagesOf(owner, u)) /\ Len(wire'[t][u]) <= BufferSize
    OBVIOUS
  <2>1. CASE t = r /\ u = s BY <2>1, <1>6, <1>9, <1>10
  <2>2. CASE ~(t = r /\ u = s)
    <3>1. wire'[t][u] = wire[t][u] BY <2>2, <1>7
    <3> QED BY <3>1 DEF Inv, OnTheWire, TypeOK
  <2> QED BY <2>1, <2>2
<1>12. OnTheWire(owner)' BY <1>3, <1>6, <1>8, <1>11 DEF OnTheWire
<1> QED BY <1>1, <1>2, <1>4, <1>5, <1>9, <1>11, <1>12 DEF q

\* What there is of a chunk's message before and after it is merged.
LEMMA PieceOfChunk ==
  ASSUME NEW owner \in Owners, Inv(owner), NEW r \in Receivers, NEW s \in Senders,
         NEW k \in CutUp(owner, s), NEW i \in ChunksOf(owner[k])
  PROVE  \E S \in SUBSET ChunksOf(owner[k]) :
           /\ Allocation(r, ChunkPage(owner[k], i, k)) = Piece(owner[k], S)
           /\ Merge(r, ChunkPage(owner[k], i, k)) = Piece(owner[k], S \union {i})
           /\ S \union {i} \in SUBSET ChunksOf(owner[k])
           /\ k \notin DOMAIN allocs[r] => S = {}
<1>1. owner[k] \in Messages /\ ~Fits(owner[k].len) BY DEF CutUp, Inv, Sending
<1> DEFINE page == ChunkPage(owner[k], i, k)
<1>2. \E S \in SUBSET ChunksOf(owner[k]) :
        Allocation(r, page) = Piece(owner[k], S) /\ (k \notin DOMAIN allocs[r] => S = {})
  <2>1. CASE k \in DOMAIN allocs[r]
    <3>1. Allocation(r, page) = allocs[r][k] BY <2>1 DEF Allocation, ChunkPage
    <3> HIDE DEF page
    <3> QED BY <2>1, <3>1 DEF Inv, InPieces
  <2>2. CASE k \notin DOMAIN allocs[r]
    <3>1. Allocation(r, page) = Piece(owner[k], {}) BY <2>2, <1>1, FirstPiece
    <3> HIDE DEF page
    <3> QED BY <3>1
  <2> QED BY <2>1, <2>2
<1> HIDE DEF page
<1>3. PICK S \in SUBSET ChunksOf(owner[k]) :
        Allocation(r, page) = Piece(owner[k], S) /\ (k \notin DOMAIN allocs[r] => S = {})
  BY <1>2
<1>4. Merge(r, page) = Piece(owner[k], S \union {i}) BY <1>1, <1>3, OneMorePiece DEF page
<1> QED BY <1>3, <1>4 DEF page

LEMMA ReceiveKeeps ==
  ASSUME NEW owner \in Owners, Inv(owner), NEW r \in Receivers, NEW s \in Senders, Receive(r, s)
  PROVE  Inv(owner)'
<1> DEFINE page  == Head(wire[r][s])
           plain == [data |-> [p \in 0 .. page.rem - 1 |-> page.body[p]], header |-> page.id]
           a     == Merge(r, page)
           complete == Completes(page, Allocation(r, page), a)
<1>1. /\ UNCHANGED <<stage, msg, id, next, fine, fresh, joined, returned, broken>>
      /\ Given' = Given /\ page \in PagesOf(owner, s)
      /\ OnTheWire(owner)' /\ Sending(owner)'
      /\ \A t \in Receivers, u \in Senders : Len(wire'[t][u]) <= BufferSize
  BY TakePage
<1>2. DOMAIN allocs = Receivers /\ DOMAIN delivered = Receivers BY DEF Inv, InPieces, Completed
<1>3. CASE s \notin Wants[r]
  <2>1. UNCHANGED <<allocs, delivered>> BY <1>3 DEF Receive
  <2>2. InPieces(owner)' BY <1>1, <2>1 DEF Inv, InPieces
  <2>3. Completed' BY <2>1 DEF Inv, Completed, Wholes
  <2>4. TypeOK' BY <1>1, <2>1 DEF Inv, TypeOK
  <2> QED BY <1>1, <2>2, <2>3, <2>4 DEF Inv
<1>4. CASE s \in Wants[r] /\ page.num = 0
  <2>1. /\ delivered' = [delivered EXCEPT ![r] = Append(@, [message |-> plain, attempt |-> 0])]
        /\ UNCHANGED allocs
    BY <1>4 DEF Receive
  <2>2. PICK m \in Messages : m.from = s /\ Fits(m.len) /\ page = PlainPage(m)
    BY <1>1, <1>4, PageCases DEF Inv
  <2>3. plain = Whole(m)
    <3>1. m.len \in Nat /\ m.len <= PageSize - PlainMeta BY <2>2, MessageFacts DEF Fits
    <3>2. page.rem = m.len /\ page.id = m.header BY <2>2 DEF PlainPage
    <3>3. \A p \in 0 .. m.len - 1 : page.body[p] = Byte(m, p)
      BY <2>2, <3>1, ChunkingAssumption, SMT DEF PlainPage
    <3> HIDE DEF page
    <3> QED BY <3>2, <3>3 DEF Whole, Payload
  <2>4. [message |-> plain, attempt |-> 0] \in Wholes(r)
    <3>1. 0 \in 0 .. MaxAttempts BY StreamAssumption, SMT
    <3> HIDE DEF plain
    <3> QED BY <1>4, <2>2, <2>3, <3>1 DEF Wholes
  <2> HIDE DEF plain
  <2>5. delivered'[r] \in Seq(Wholes(r))
    <3>1. delivered[r] \in Seq(Wholes(r)) BY DEF Inv, Completed
    <3>2. delivered'[r] = Append(delivered[r], [message |-> plain, attempt |-> 0]) BY <1>2, <2>1
    <3> QED BY <2>4, <3>1, <3>2, AppendProperties
  <2>6. Completed'
    <3>1. DOMAIN delivered' = Receivers /\ \A t \in Receivers \ {r} : delivered'[t] = delivered[t]
      BY <1>2, <2>1
    <3> QED BY <2>5, <3>1 DEF Inv, Completed, Wholes
  <2>7. InPieces(owner)' BY <1>1, <2>1 DEF Inv, InPieces
  <2>8. TypeOK' BY <1>1, <2>1 DEF Inv, TypeOK
  <2> QED BY <1>1, <2>6, <2>7, <2>8 DEF Inv
<1>5. CASE s \in Wants[r] /\ page.num # 0
  <2>1. PICK k \in CutUp(owner, s) : \E i \in ChunksOf(owner[k]) :
              /\ owner[k] \in Messages /\ page = ChunkPage(owner[k], i, k)
              /\ page.id = k /\ page.i = i /\ page.num = Chunks(owner[k].len, owner[k].header)
    BY <1>1, <1>5, PageCases DEF Inv
  <2>2. PICK i \in ChunksOf(owner[k]) :
              /\ owner[k] \in Messages /\ page = ChunkPage(owner[k], i, k)
              /\ page.id = k /\ page.i = i /\ page.num = Chunks(owner[k].len, owner[k].header)
    BY <2>1
  <2>3. k \in Given /\ owner[k].from = s /\ ~Fits(owner[k].len) BY DEF CutUp
  <2>4. PICK S \in SUBSET ChunksOf(owner[k]) :
              /\ Allocation(r, page) = Piece(owner[k], S) /\ a = Piece(owner[k], S \union {i})
              /\ S \union {i} \in SUBSET ChunksOf(owner[k])
    <3> DEFINE it == ChunkPage(owner[k], i, k)
    <3>1. \E S \in SUBSET ChunksOf(owner[k]) :
              /\ Allocation(r, it) = Piece(owner[k], S) /\ Merge(r, it) = Piece(owner[k], S \union {i})
              /\ S \union {i} \in SUBSET ChunksOf(owner[k])
      BY PieceOfChunk
    <3>2. page = it BY <2>2
    <3> HIDE DEF it, page
    <3> QED BY <3>1, <3>2
  <2>5. page.header = owner[k].header BY <2>2 DEF ChunkPage
  <2>6. k \in Attempts BY <2>3, StreamAssumption, SMT DEF Inv, TypeOK, Given, Attempts
  <2>7. CASE complete
    <3>1. /\ delivered' = [delivered EXCEPT ![r] =
                Append(@, [message |-> [data |-> a.data, header |-> page.header], attempt |-> page.id])]
          /\ allocs' = [allocs EXCEPT ![r] = Forget(r, page.id)]
      BY <1>5, <2>7 DEF Receive
    <3> HIDE DEF page, a
    <3>2. Cardinality(S \union {i}) = Chunks(owner[k].len, owner[k].header)
      BY <2>2, <2>4, <2>7 DEF Completes, Piece
    <3>3. S \union {i} = ChunksOf(owner[k]) BY <2>2, <2>3, <2>4, <3>2, AllChunks
    <3>4. a.data = Payload(owner[k]) BY <2>2, <2>3, <2>4, <3>3, AllPieces
    <3>5. [message |-> [data |-> a.data, header |-> page.header], attempt |-> page.id] \in Wholes(r)
      BY <1>5, <2>2, <2>3, <2>5, <2>6, <3>4, StreamAssumption, SMT DEF Wholes, Whole, Attempts
    <3>6. delivered'[r] \in Seq(Wholes(r))
      <4> DEFINE new == [message |-> [data |-> a.data, header |-> page.header], attempt |-> page.id]
      <4>1. delivered[r] \in Seq(Wholes(r)) BY DEF Inv, Completed
      <4>2. delivered'[r] = Append(delivered[r], new) BY <1>2, <3>1
      <4> HIDE DEF new
      <4> QED BY <3>5, <4>1, <4>2, AppendProperties DEF new
    <3>7. Completed'
      <4>1. DOMAIN delivered' = Receivers /\ \A t \in Receivers \ {r} : delivered'[t] = delivered[t]
        BY <1>2, <3>1
      <4> QED BY <3>6, <4>1 DEF Inv, Completed, Wholes
    <3>8. /\ DOMAIN allocs' = Receivers
          /\ \A t \in Receivers : /\ DOMAIN allocs'[t] \subseteq DOMAIN allocs[t]
                                  /\ \A j \in DOMAIN allocs'[t] : allocs'[t][j] = allocs[t][j]
      BY <1>2, <3>1 DEF Forget
    <3>9. InPieces(owner)'
      <4>1. InPieces(owner) BY DEF Inv
      <4>2. Given \subseteq Given' BY <1>1
      <4> QED BY <3>8, <4>1, <4>2, PiecesStay
    <3>10. TypeOK' BY <1>1, <3>8 DEF Inv, TypeOK
    <3> QED BY <1>1, <3>7, <3>9, <3>10 DEF Inv
  <2>8. CASE ~complete
    <3>1. allocs' = [allocs EXCEPT ![r] = Keep(r, page.id, a)] /\ UNCHANGED delivered
      BY <1>5, <2>8 DEF Receive
    <3>2. Completed' BY <3>1 DEF Inv, Completed, Wholes
    <3> HIDE DEF page, a
    <3>3. /\ DOMAIN allocs' = Receivers
          /\ DOMAIN allocs'[r] = DOMAIN allocs[r] \union {k} /\ allocs'[r][k] = a
          /\ \A j \in DOMAIN allocs[r] \ {k} : allocs'[r][j] = allocs[r][j]
          /\ \A t \in Receivers \ {r} : allocs'[t] = allocs[t]
      BY <1>2, <2>2, <3>1 DEF Keep
    <3>4. ASSUME NEW t \in Receivers, NEW j \in DOMAIN allocs'[t]
          PROVE  /\ j \in Given /\ owner[j].from \in Wants[t] /\ ~Fits(owner[j].len)
                 /\ \E T \in SUBSET ChunksOf(owner[j]) : allocs'[t][j] = Piece(owner[j], T)
      <4>1. CASE t = r /\ j = k BY <4>1, <1>5, <2>3, <2>4, <3>3
      <4>2. CASE ~(t = r /\ j = k)
        <5>1. j \in DOMAIN allocs[t] /\ allocs'[t][j] = allocs[t][j] BY <4>2, <3>3
        <5> QED BY <5>1 DEF Inv, InPieces
      <4> QED BY <4>1, <4>2
    <3>5. InPieces(owner)' BY <1>1, <3>3, <3>4 DEF InPieces
    <3>6. \A t \in Receivers : DOMAIN allocs'[t] \subseteq Attempts BY <2>6, <3>3 DEF Inv, TypeOK
    <3>7. TypeOK' BY <1>1, <3>6 DEF Inv, TypeOK
    <3> QED BY <1>1, <3>2, <3>5, <3>7 DEF Inv
  <2> QED BY <2>7, <2>8
<1> QED BY <1>3, <1>4, <1>5

LEMMA Holds == ASSUME [Next]_vars, NEW owner \in Owners, Inv(owner)
               PROVE  \E own \in Owners : Inv(own)' /\ Same(owner, own)
<1>1. ASSUME NEW s \in Senders, NEW size \in Sizes, Send(s, size[1], size[2])
      PROVE  \E own \in Owners : Inv(own)' /\ Same(owner, own)
  BY <1>1, SendKeeps
<1>2. ASSUME NEW s \in Senders, SendPage(s) \/ PageFails(s)
      PROVE  \E own \in Owners : Inv(own)' /\ Same(owner, own)
  BY <1>2, SendPageKeeps DEF Same
<1>3. ASSUME NEW s \in Senders, Backoff(s) PROVE \E own \in Owners : Inv(own)' /\ Same(owner, own)
  BY <1>3, BackoffKeeps DEF Same
<1>4. ASSUME NEW s \in Senders, Notify(s) PROVE \E own \in Owners : Inv(own)' /\ Same(owner, own)
  BY <1>4, NotifyKeeps DEF Same
<1>5. ASSUME NEW s \in Senders, NotifyFails(s) PROVE \E own \in Owners : Inv(own)' /\ Same(owner, own)
  BY <1>5, NotifyFailsKeeps DEF Same
<1>6. ASSUME NEW s \in Senders, Again(s) PROVE \E own \in Owners : Inv(own)' /\ Same(owner, own)
  BY <1>6, AgainKeeps
<1>7. ASSUME NEW s \in Senders, Die(s) PROVE \E own \in Owners : Inv(own)' /\ Same(owner, own)
  BY <1>7, DieKeeps DEF Same
<1>8. ASSUME NEW r \in Receivers, Join(r) PROVE \E own \in Owners : Inv(own)' /\ Same(owner, own)
  BY <1>8, JoinKeeps DEF Same
<1>9. ASSUME NEW r \in Receivers, NEW s \in Senders, Receive(r, s)
      PROVE  \E own \in Owners : Inv(own)' /\ Same(owner, own)
  BY <1>9, ReceiveKeeps DEF Same
<1>10. CASE UNCHANGED vars
  <2>1. UNCHANGED <<stage, msg, id, next, fine, fresh, wire, allocs, delivered, joined, returned, broken>>
    BY <1>10 DEF vars, sender, receiver, history
  <2>2. TypeOK' BY <2>1 DEF Inv, TypeOK
  <2>3. \A t \in Senders : (Active(t)' => Active(t)) /\ (stage'[t] = "again" => stage[t] = "again")
    BY <2>1 DEF Active
  <2>4. Inv(owner)' BY <2>1, <2>2, <2>3, NothingMoves
  <2> QED BY <2>4 DEF Same
<1> QED BY <1>1, <1>2, <1>3, <1>4, <1>5, <1>6, <1>7, <1>8, <1>9, <1>10 DEF Next


-----------------------------------------------------------------------------
(* The order of chunks.  Those of an attempt are on the wire in order, and *)
(* the sender is not behind them.  One is there again only when something  *)
(* failed.                                                                 *)

IsChunk(page, k) == page.num # 0 /\ page.id = k

\* Chunk c of attempt k does not come after i.
NotAfter(k, c, i) == c <= i /\ (k \notin broken => c < i)

\* Sender s, if it is at attempt k, has sent its chunk c.
WasSent(s, k, c) ==
  id[s] = k /\ Active(s) => IF stage[s] = "notify" THEN c <= next[s] ELSE NotAfter(k, c, next[s])

\* Receiver r will see no chunk before c of attempt k any more, nor c itself
\* unless something failed.
AtLeast(owner, r, k, c) ==
  /\ \A j \in DOMAIN wire[r][owner[k].from] :
       IsChunk(wire[r][owner[k].from][j], k) => NotAfter(k, c, wire[r][owner[k].from][j].i)
  /\ WasSent(owner[k].from, k, c)

InOrder ==
  \A r \in Receivers, s \in Senders : \A i \in DOMAIN wire[r][s] : wire[r][s][i].num # 0 =>
    /\ \A j \in DOMAIN wire[r][s] :
         i < j /\ IsChunk(wire[r][s][j], wire[r][s][i].id) =>
           NotAfter(wire[r][s][i].id, wire[r][s][i].i, wire[r][s][j].i)
    /\ WasSent(s, wire[r][s][i].id, wire[r][s][i].i)

MergedBefore(owner) ==
  \A r \in Receivers : \A k \in DOMAIN allocs[r] : \A c \in allocs[r][k].merged : AtLeast(owner, r, k, c)

LastOf(m) == Chunks(m.len, m.header) - 1

\* Of an attempt that was completed the last chunk may come again, nothing
\* else, and this only when something failed.
Over(owner) ==
  \A r \in Receivers : \A d \in DOMAIN delivered[r] : \A k \in {delivered[r][d].attempt} \ {0} :
    /\ k \in Given /\ ~Fits(owner[k].len) /\ AtLeast(owner, r, k, LastOf(owner[k]))
    /\ k \in DOMAIN allocs[r] => k \in broken /\ allocs[r][k].merged \subseteq {LastOf(owner[k])}

Order(owner) == InOrder /\ MergedBefore(owner) /\ Over(owner) /\ CompletedOnce

\* A chunk on the wire.
LEMMA ChunkOnTheWire ==
  ASSUME NEW owner, Inv(owner), NEW s \in Senders, NEW page \in PagesOf(owner, s), page.num # 0
  PROVE  /\ page.id \in CutUp(owner, s) /\ page.id \in Given /\ owner[page.id].from = s
         /\ owner[page.id] \in Messages /\ ~Fits(owner[page.id].len)
         /\ page.i \in ChunksOf(owner[page.id])
         /\ page.i \in Nat /\ page.i <= LastOf(owner[page.id]) /\ LastOf(owner[page.id]) \in Nat \ {0}
<1>1. PICK k \in CutUp(owner, s) : \E i \in ChunksOf(owner[k]) :
              /\ owner[k] \in Messages /\ page = ChunkPage(owner[k], i, k)
              /\ page.id = k /\ page.i = i
  BY PageCases DEF Inv
<1>2. page.id = k /\ owner[k] \in Messages /\ page.i \in ChunksOf(owner[k]) BY <1>1
<1>3. k \in Given /\ owner[k].from = s /\ ~Fits(owner[k].len) BY DEF CutUp
<1>4. Chunks(owner[k].len, owner[k].header) \in Nat \ {0, 1} BY <1>2, <1>3, MessageFacts, Lossless
<1>5. page.i \in Nat /\ page.i <= LastOf(owner[k]) /\ LastOf(owner[k]) \in Nat \ {0}
  BY <1>2, <1>4, SMT DEF ChunksOf, LastOf
<1> QED BY <1>2, <1>3, <1>5

LEMMA OnTheWireAt ==
  ASSUME NEW owner, Inv(owner), NEW r \in Receivers, NEW s \in Senders, NEW i \in DOMAIN wire[r][s]
  PROVE  wire[r][s][i] \in PagesOf(owner, s)
<1>1. wire[r][s] \in Seq(PagesOf(owner, s)) BY DEF Inv, OnTheWire
<1> HIDE DEF PagesOf
<1>2. i \in 1 .. Len(wire[r][s]) BY <1>1, LenProperties
<1> QED BY <1>1, <1>2, ElementOfSeq

\* What a step may do to a sender and to the pages on their way.
SenderGoesOn ==
  \A s \in Senders : Active(s)' =>
    \/ id'[s] \notin Given
    \/ /\ Active(s) /\ id'[s] = id[s] /\ next[s] <= next'[s]
       /\ stage[s] = "notify" => next[s] < next'[s] \/ stage'[s] = "notify"

WireMoves ==
  \A r \in Receivers, s \in Senders :
    \/ wire'[r][s] = wire[r][s]
    \/ wire[r][s] # <<>> /\ wire'[r][s] = Tail(wire[r][s])
    \/ /\ stage[s] = "page" /\ wire'[r][s] = Append(wire[r][s], Page(s))
       /\ stage'[s] = "notify" \/ id[s] \in broken'

LEMMA BrokenStays == ASSUME [Next]_vars PROVE broken \subseteq broken'
BY DEF Next, vars, history, Send, SendPage, PageFails, Backoff, Notify, NotifyFails, Again, Die, Join, Receive

LEMMA StepShape ==
  ASSUME [Next]_vars, NEW owner \in Owners, Inv(owner)
  PROVE  SenderGoesOn /\ WireMoves
<1>1. \A s \in Senders : next[s] \in Nat /\ next[s] <= next[s] /\ next[s] <= next[s] + 1
  BY SMT DEF Inv, TypeOK
<1>2. fresh \in Nat /\ fresh \notin Given BY StreamAssumption, SMT DEF Inv, TypeOK, Given
<1>3. ASSUME NEW s \in Senders, Attempt(s), stage' = [stage EXCEPT ![s] = "page"], UNCHANGED wire
      PROVE  SenderGoesOn /\ WireMoves
  <2>1. id' = [id EXCEPT ![s] = fresh] /\ next' = [next EXCEPT ![s] = 0] BY <1>3 DEF Attempt
  <2>2. ASSUME NEW t \in Senders, Active(t)'
        PROVE  \/ id'[t] \notin Given
               \/ /\ Active(t) /\ id'[t] = id[t] /\ next[t] <= next'[t]
                  /\ stage[t] = "notify" => stage'[t] = "notify"
    <3>1. CASE t = s BY <3>1, <2>1, <1>2 DEF Inv, TypeOK
    <3>2. CASE t # s
      <4>1. id'[t] = id[t] /\ next'[t] = next[t] /\ stage'[t] = stage[t]
        BY <3>2, <2>1, <1>3 DEF Inv, TypeOK
      <4> QED BY <4>1, <2>2, <1>1 DEF Active
    <3> QED BY <3>1, <3>2
  <2> QED BY <2>2, <1>3 DEF SenderGoesOn, WireMoves
<1>4. ASSUME NEW s \in Senders, SendPage(s) \/ PageFails(s) PROVE SenderGoesOn /\ WireMoves
  <2>1. /\ stage[s] = "page" /\ UNCHANGED <<id, next>>
        /\ stage' = [stage EXCEPT ![s] = "notify"] \/ stage' = [stage EXCEPT ![s] = "backoff"]
        /\ stage'[s] = "notify" \/ id[s] \in broken'
        /\ \E targets \in SUBSET Receivers : Publish(s, targets)
    <3>1. CASE SendPage(s) BY <3>1 DEF SendPage, Go, Subscribed, Inv, TypeOK
    <3>2. CASE PageFails(s) BY <3>2 DEF PageFails, Go, Subscribed
    <3> QED BY <1>4, <3>1, <3>2
  <2>2. PICK targets \in SUBSET Receivers : Publish(s, targets) BY <2>1
  <2>3. SenderGoesOn BY <2>1, <1>1 DEF SenderGoesOn, Active, Inv, TypeOK
  <2>4. ASSUME NEW r \in Receivers, NEW t \in Senders
        PROVE  \/ wire'[r][t] = wire[r][t]
               \/ t = s /\ wire'[r][t] = Append(wire[r][t], Page(t))
    BY <2>1, <2>2 DEF Publish, Inv, OnTheWire
  <2> QED BY <2>1, <2>3, <2>4 DEF WireMoves
<1>5. ASSUME NEW s \in Senders, UNCHANGED <<wire, id>>, Backoff(s) \/ Notify(s) \/ NotifyFails(s) \/ Die(s)
      PROVE  SenderGoesOn /\ WireMoves
  <2>1. \A t \in Senders : next[t] <= next'[t]
    <3>1. CASE UNCHANGED next BY <3>1, <1>1
    <3>2. CASE next' = [next EXCEPT ![s] = @ + 1] BY <3>2, <1>1 DEF Inv, TypeOK
    <3>3. UNCHANGED next \/ next' = [next EXCEPT ![s] = @ + 1]
      BY <1>5 DEF Backoff, Notify, NotifyFails, Die
    <3> QED BY <3>1, <3>2, <3>3
  <2>2. Backoff(s) \/ Notify(s) => Active(s) BY DEF Backoff, Notify, Go, Active
  <2>3. \A t \in Senders : Active(t)' => Active(t)
    <3>1. CASE Backoff(s) \/ Notify(s)
      <4>1. \A t \in Senders \ {s} : stage'[t] = stage[t] BY <3>1 DEF Backoff, Notify, Go, Inv, TypeOK
      <4> QED BY <3>1, <4>1, <2>2 DEF Active
    <3>2. CASE NotifyFails(s) \/ Die(s) BY <3>2 DEF NotifyFails, Die, Go, Inv, TypeOK, Active
    <3> QED BY <1>5, <3>1, <3>2
  <2>4. ASSUME NEW t \in Senders, Active(t)', stage[t] = "notify", stage'[t] # "notify"
        PROVE  next[t] < next'[t]
    <3>1. CASE Notify(s)
      <4>1. t = s BY <3>1, <2>4 DEF Notify, Go, Inv, TypeOK
      <4>2. stage'[s] = "page" BY <3>1, <2>4, <4>1 DEF Notify, Go, Active, Inv, TypeOK
      <4>3. next' = [next EXCEPT ![s] = @ + 1] BY <3>1, <4>2 DEF Notify, Go, Inv, TypeOK
      <4> QED BY <4>1, <4>3, SMT DEF Inv, TypeOK
    <3>2. CASE Backoff(s) BY <3>2, <2>4 DEF Backoff, Go, Inv, TypeOK
    <3>3. CASE NotifyFails(s) \/ Die(s) BY <3>3, <2>4 DEF NotifyFails, Die, Go, Active, Inv, TypeOK
    <3> QED BY <1>5, <3>1, <3>2, <3>3
  <2> QED BY <1>5, <2>1, <2>3, <2>4 DEF SenderGoesOn, WireMoves
<1>6. ASSUME NEW r \in Receivers, NEW s \in Senders, Receive(r, s) PROVE SenderGoesOn /\ WireMoves
  <2>1. UNCHANGED <<stage, id, next>> /\ wire[r][s] # <<>> /\ wire' = [wire EXCEPT ![r][s] = Tail(@)]
    BY <1>6, TakePage
  <2>2. SenderGoesOn BY <2>1, <1>1 DEF SenderGoesOn, Active
  <2>3. ASSUME NEW t \in Receivers, NEW u \in Senders
        PROVE  wire'[t][u] = wire[t][u] \/ (wire[t][u] # <<>> /\ wire'[t][u] = Tail(wire[t][u]))
    BY <2>1 DEF Inv, OnTheWire
  <2> QED BY <2>2, <2>3 DEF WireMoves
<1>7. ASSUME UNCHANGED <<stage, id, next, wire>> PROVE SenderGoesOn /\ WireMoves
  BY <1>1, <1>7 DEF SenderGoesOn, WireMoves, Active
<1>8. CASE UNCHANGED vars BY <1>7, <1>8 DEF vars, sender
<1>9. ASSUME NEW r \in Receivers, Join(r) PROVE SenderGoesOn /\ WireMoves
  BY <1>7, <1>9 DEF Join, sender
<1>10. ASSUME NEW s \in Senders, NEW size \in Sizes, Send(s, size[1], size[2]) PROVE SenderGoesOn /\ WireMoves
  BY <1>3, <1>10 DEF Send, Go
<1>11. ASSUME NEW s \in Senders, Again(s) PROVE SenderGoesOn /\ WireMoves
  BY <1>3, <1>11 DEF Again, Go
<1>12. ASSUME NEW s \in Senders, Backoff(s) \/ Notify(s) \/ NotifyFails(s) \/ Die(s) PROVE SenderGoesOn /\ WireMoves
  BY <1>5, <1>12 DEF Backoff, Notify, NotifyFails, Die
<1> QED BY <1>4, <1>6, <1>8, <1>9, <1>10, <1>11, <1>12 DEF Next

\* A page that is there after a step was there, in the same order, or is the
\* one its sender sends.
LEMMA PagesAfter ==
  ASSUME NEW owner \in Owners, Inv(owner), WireMoves, NEW r \in Receivers, NEW s \in Senders
  PROVE  \/ \E d \in {0, 1} : \A i \in DOMAIN wire'[r][s] :
              i \in Nat /\ i + d \in DOMAIN wire[r][s] /\ wire'[r][s][i] = wire[r][s][i + d]
         \/ /\ stage[s] = "page" /\ (stage'[s] = "notify" \/ id[s] \in broken')
            /\ \A i \in DOMAIN wire'[r][s] :
                 \/ i \in DOMAIN wire[r][s] /\ wire'[r][s][i] = wire[r][s][i]
                 \/ i = Len(wire[r][s]) + 1 /\ wire'[r][s][i] = Page(s)
            /\ \A i \in DOMAIN wire[r][s] : i \in Nat /\ i < Len(wire[r][s]) + 1
            /\ Len(wire[r][s]) \in Nat
<1> DEFINE q == wire[r][s]
           w == wire'[r][s]
<1>1. q \in Seq(PagesOf(owner, s)) BY DEF Inv, OnTheWire
<1>2. \/ w = q \/ (q # <<>> /\ w = Tail(q))
      \/ /\ stage[s] = "page" /\ w = Append(q, Page(s))
         /\ stage'[s] = "notify" \/ id[s] \in broken'
  BY DEF WireMoves
<1> HIDE DEF PagesOf, q, w
<1>3. Len(q) \in Nat /\ DOMAIN q = 1 .. Len(q) BY <1>1, LenProperties
<1>4. CASE w = q
  <2>1. \A i \in DOMAIN w : i \in Nat /\ i + 0 \in DOMAIN q /\ w[i] = q[i + 0] BY <1>3, <1>4, SMT
  <2> QED BY <2>1 DEF q, w
<1>5. CASE q # <<>> /\ w = Tail(q)
  <2>1. /\ Tail(q) \in Seq(PagesOf(owner, s)) /\ Len(Tail(q)) = Len(q) - 1
        /\ \A i \in 1 .. Len(Tail(q)) : Tail(q)[i] = q[i + 1]
    BY <1>1, <1>5, HeadTailProperties
  <2>2. DOMAIN Tail(q) = 1 .. Len(Tail(q)) BY <2>1, LenProperties
  <2>3. \A i \in DOMAIN w : i \in Nat /\ i + 1 \in DOMAIN q /\ w[i] = q[i + 1]
    BY <1>3, <1>5, <2>1, <2>2, SMT
  <2> QED BY <2>3 DEF q, w
<1>6. CASE /\ stage[s] = "page" /\ w = Append(q, Page(s))
           /\ stage'[s] = "notify" \/ id[s] \in broken'
  <2>1. Page(s) \in PagesOf(owner, s) BY <1>6, PageSent
  <2>2. /\ Append(q, Page(s)) \in Seq(PagesOf(owner, s)) /\ Len(Append(q, Page(s))) = Len(q) + 1
        /\ \A i \in 1 .. Len(q) : Append(q, Page(s))[i] = q[i]
        /\ Append(q, Page(s))[Len(q) + 1] = Page(s)
    BY <1>1, <2>1, AppendProperties
  <2>3. DOMAIN w = 1 .. Len(q) + 1 BY <1>6, <2>2, LenProperties
  <2>4. \A i \in DOMAIN w : (i \in DOMAIN q /\ w[i] = q[i]) \/ (i = Len(q) + 1 /\ w[i] = Page(s))
    BY <1>3, <1>6, <2>2, <2>3, SMT
  <2>5. \A i \in DOMAIN q : i \in Nat /\ i < Len(q) + 1 BY <1>3, SMT
  <2> QED BY <1>3, <1>6, <2>4, <2>5 DEF q, w
<1> QED BY <1>2, <1>4, <1>5, <1>6

\* The page that is sent, when it has a chunk.
LEMMA ChunkSent ==
  ASSUME NEW owner \in Owners, Inv(owner), NEW s \in Senders, stage[s] = "page", Page(s).num # 0
  PROVE  Active(s) /\ id[s] \in Given /\ Page(s).id = id[s] /\ Page(s).i = next[s]
<1>1. Active(s) /\ id[s] \in Given BY DEF Inv, Sending, Active
<1>2. ~Fits(msg[s].len) BY DEF Page, PlainPage
<1>3. Page(s) = ChunkPage(msg[s], next[s], id[s]) BY <1>2 DEF Page
<1> QED BY <1>1, <1>3 DEF ChunkPage

\* No step brings back a chunk that was passed.
LEMMA SentStays ==
  ASSUME NEW owner \in Owners, Inv(owner), SenderGoesOn, broken \subseteq broken', TypeOK',
         NEW s \in Senders, NEW k \in Given, NEW c \in Int, WasSent(s, k, c)
  PROVE  WasSent(s, k, c)'
<1> SUFFICES ASSUME id'[s] = k, Active(s)'
             PROVE  IF stage'[s] = "notify" THEN c <= next'[s] ELSE c <= next'[s] /\ (k \notin broken' => c < next'[s])
  BY DEF WasSent, NotAfter
<1>1. /\ Active(s) /\ id[s] = k /\ next[s] <= next'[s]
      /\ stage[s] = "notify" => next[s] < next'[s] \/ stage'[s] = "notify"
  BY DEF SenderGoesOn
<1>2. next[s] \in Nat /\ next'[s] \in Nat BY DEF Inv, TypeOK
<1>3. IF stage[s] = "notify" THEN c <= next[s] ELSE c <= next[s] /\ (k \notin broken => c < next[s])
  BY <1>1 DEF WasSent, NotAfter
<1>4. CASE stage[s] = "notify" BY <1>1, <1>2, <1>3, <1>4, SMT
<1>5. CASE stage[s] # "notify"
  <2>1. c <= next[s] /\ (k \notin broken => c < next[s]) BY <1>3, <1>5
  <2>2. c <= next'[s] /\ (k \notin broken => c < next'[s]) BY <1>1, <1>2, <2>1, SMT
  <2> QED BY <2>2
<1> QED BY <1>4, <1>5

LEMMA Later ==
  ASSUME NEW owner \in Owners, NEW own \in Owners, Inv(owner), SenderGoesOn, WireMoves,
         broken \subseteq broken', Same(owner, own),
         TypeOK', NEW r \in Receivers, NEW k \in Given, NEW c \in Int, AtLeast(owner, r, k, c)
  PROVE  AtLeast(own, r, k, c)'
<1>1. own[k] = owner[k] /\ owner[k].from \in Senders BY MessageFacts DEF Same, Inv, Sending
<1> PICK s \in Senders : s = owner[k].from BY <1>1
<1>2. /\ \A j \in DOMAIN wire[r][s] : IsChunk(wire[r][s][j], k) => NotAfter(k, c, wire[r][s][j].i)
      /\ WasSent(s, k, c)
  BY DEF AtLeast
<1>3. ASSUME NEW j \in DOMAIN wire'[r][s], IsChunk(wire'[r][s][j], k)
      PROVE  NotAfter(k, c, wire'[r][s][j].i)
  <2>1. CASE \E i \in DOMAIN wire[r][s] : wire'[r][s][j] = wire[r][s][i] BY <2>1, <1>2, <1>3
  <2>2. CASE stage[s] = "page" /\ wire'[r][s][j] = Page(s)
    <3>1. Page(s).num # 0 /\ Page(s).id = k BY <1>3, <2>2 DEF IsChunk
    <3>2. Active(s) /\ id[s] = k /\ Page(s).i = next[s] BY <1>1, <2>2, <3>1, ChunkSent
    <3>3. NotAfter(k, c, next[s]) BY <1>2, <2>2, <3>2 DEF WasSent
    <3> QED BY <3>2, <3>3, <2>2
  <2> QED BY <1>1, <1>3, <2>1, <2>2, PagesAfter
<1>4. WasSent(s, k, c)' BY <1>1, <1>2, SentStays
<1>5. \A j \in DOMAIN wire'[r][s] :
        IsChunk(wire'[r][s][j], k) => c <= wire'[r][s][j].i /\ (k \notin broken' => c < wire'[r][s][j].i)
  BY <1>3 DEF NotAfter
<1> QED BY <1>1, <1>4, <1>5 DEF AtLeast, IsChunk, NotAfter

LEMMA InOrderStays ==
  ASSUME NEW owner \in Owners, Inv(owner), InOrder, SenderGoesOn, WireMoves, broken \subseteq broken', TypeOK'
  PROVE  InOrder'
<1> SUFFICES ASSUME NEW r \in Receivers, NEW s \in Senders, NEW i \in DOMAIN wire'[r][s],
                    wire'[r][s][i].num # 0, NEW k, NEW c, k = wire'[r][s][i].id, c = wire'[r][s][i].i
             PROVE  /\ \A j \in DOMAIN wire'[r][s] :
                         i < j /\ IsChunk(wire'[r][s][j], k) =>
                           c <= wire'[r][s][j].i /\ (k \notin broken' => c < wire'[r][s][j].i)
                    /\ WasSent(s, k, c)'
  BY DEF InOrder, IsChunk, NotAfter, WasSent, Active
<1> DEFINE q == wire[r][s]
           w == wire'[r][s]
<1>1. next[s] \in Nat /\ next'[s] \in Nat BY DEF Inv, TypeOK
<1>2. ASSUME NEW n \in DOMAIN q, q[n].num # 0
      PROVE  /\ q[n].id \in Given /\ q[n].i \in Nat
             /\ \A j \in DOMAIN q : n < j /\ IsChunk(q[j], q[n].id) => NotAfter(q[n].id, q[n].i, q[j].i)
             /\ WasSent(s, q[n].id, q[n].i)
  <2>1. q[n] \in PagesOf(owner, s) BY OnTheWireAt
  <2>2. q[n].id \in Given /\ q[n].i \in Nat BY <1>2, <2>1, ChunkOnTheWire
  <2> QED BY <1>2, <2>2 DEF InOrder
<1>3. \/ \E d \in {0, 1} : \A j \in DOMAIN w : j \in Nat /\ j + d \in DOMAIN q /\ w[j] = q[j + d]
      \/ /\ stage[s] = "page" /\ (stage'[s] = "notify" \/ id[s] \in broken')
         /\ \A j \in DOMAIN w : \/ j \in DOMAIN q /\ w[j] = q[j]
                                \/ j = Len(q) + 1 /\ w[j] = Page(s)
         /\ \A j \in DOMAIN q : j \in Nat /\ j < Len(q) + 1
         /\ Len(q) \in Nat
  BY PagesAfter
<1> HIDE DEF q, w
<1>4. i \in DOMAIN w /\ w[i].num # 0 /\ w[i].id = k /\ w[i].i = c BY DEF w
<1>5. k \in Given /\ c \in Nat /\ WasSent(s, k, c)'
  <2>1. CASE \E n \in DOMAIN q : w[i] = q[n]
    <3>1. k \in Given /\ c \in Nat /\ WasSent(s, k, c) BY <2>1, <1>2, <1>4
    <3> QED BY <3>1, SentStays
  <2>2. CASE stage[s] = "page" /\ (stage'[s] = "notify" \/ id[s] \in broken') /\ w[i] = Page(s)
    <3>1. id[s] \in Given /\ k = id[s] /\ c = next[s] BY <2>2, <1>4, ChunkSent
    <3>2. id'[s] = k /\ Active(s)' => next[s] <= next'[s] BY <3>1 DEF SenderGoesOn
    <3> QED BY <2>2, <3>1, <3>2, <1>1 DEF WasSent, NotAfter
  <2> QED BY <1>3, <1>4, <2>1, <2>2
<1>6. ASSUME NEW j \in DOMAIN w, i < j, IsChunk(w[j], k)
      PROVE  NotAfter(k, c, w[j].i)
  <2>1. CASE \E d \in {0, 1} : \A n \in DOMAIN w : n \in Nat /\ n + d \in DOMAIN q /\ w[n] = q[n + d]
    <3>1. PICK d \in {0, 1} : \A n \in DOMAIN w : n \in Nat /\ n + d \in DOMAIN q /\ w[n] = q[n + d]
      BY <2>1
    <3>2. i + d < j + d BY <3>1, <1>4, <1>6, SMT
    <3>3. i + d \in DOMAIN q /\ j + d \in DOMAIN q /\ w[i] = q[i + d] /\ w[j] = q[j + d]
      BY <3>1, <1>4, <1>6
    <3> QED BY <3>2, <3>3, <1>2, <1>4, <1>6
  <2>2. CASE /\ stage[s] = "page"
             /\ \A n \in DOMAIN w : \/ n \in DOMAIN q /\ w[n] = q[n]
                                    \/ n = Len(q) + 1 /\ w[n] = Page(s)
             /\ \A n \in DOMAIN q : n \in Nat /\ n < Len(q) + 1
             /\ Len(q) \in Nat
    <3>1. i \in DOMAIN q /\ w[i] = q[i]
      <4>1. CASE i = Len(q) + 1
        <5>1. j \in Nat /\ j <= Len(q) + 1 BY <2>2, <1>6, SMT
        <5> QED BY <5>1, <4>1, <2>2, <1>6, SMT
      <4> QED BY <4>1, <2>2, <1>4
    <3>2. CASE j \in DOMAIN q /\ w[j] = q[j] BY <3>1, <3>2, <1>2, <1>4, <1>6
    <3>3. CASE w[j] = Page(s)
      <4>1. Page(s).num # 0 /\ Page(s).id = k BY <3>3, <1>6 DEF IsChunk
      <4>2. Active(s) /\ id[s] = k /\ Page(s).i = next[s] BY <2>2, <4>1, ChunkSent
      <4>3. WasSent(s, k, c) BY <3>1, <1>2, <1>4
      <4>4. NotAfter(k, c, next[s]) BY <2>2, <4>2, <4>3 DEF WasSent
      <4> QED BY <3>3, <4>2, <4>4
    <3> QED BY <2>2, <1>6, <3>2, <3>3
  <2> QED BY <1>3, <2>1, <2>2
<1>7. ASSUME NEW j \in DOMAIN w, i < j, IsChunk(w[j], k)
      PROVE  c <= w[j].i /\ (k \notin broken' => c < w[j].i)
  BY <1>6, <1>7 DEF NotAfter
<1> QED BY <1>5, <1>7 DEF w

\* The head of the wire is a chunk none of whose followers is before it.
LEMMA HeadIsFirst ==
  ASSUME NEW owner \in Owners, Inv(owner), InOrder, NEW r \in Receivers, NEW s \in Senders, Receive(r, s),
         Head(wire[r][s]).num # 0, NEW k, NEW c, k = Head(wire[r][s]).id, c = Head(wire[r][s]).i
  PROVE  AtLeast(owner, r, k, c)'
<1> DEFINE q    == wire[r][s]
           page == Head(q)
<1>1. /\ UNCHANGED <<stage, id, next>> /\ q # <<>> /\ q \in Seq(PagesOf(owner, s))
      /\ page \in PagesOf(owner, s) /\ wire' = [wire EXCEPT ![r][s] = Tail(@)] /\ broken' = broken
  BY TakePage
<1>2. wire'[r][s] = Tail(q) BY <1>1 DEF Inv, OnTheWire
<1>3. owner[k].from = s BY <1>1, ChunkOnTheWire
<1> HIDE DEF PagesOf
<1>4. Len(q) \in Nat \ {0} /\ DOMAIN q = 1 .. Len(q) /\ page = q[1]
  BY <1>1, LenProperties, EmptySeq
<1>5. Len(Tail(q)) = Len(q) - 1 /\ DOMAIN Tail(q) = 1 .. Len(Tail(q))
      /\ \A i \in 1 .. Len(Tail(q)) : Tail(q)[i] = q[i + 1]
  BY <1>1, HeadTailProperties, LenProperties
<1>6. /\ \A j \in DOMAIN q : 1 < j /\ IsChunk(q[j], k) => NotAfter(k, c, q[j].i)
      /\ WasSent(s, k, c)
  <2>1. 1 \in DOMAIN q BY <1>4, SMT
  <2>2. q[1].num # 0 /\ q[1].id = k /\ q[1].i = c BY <1>4
  <2> QED BY <2>1, <2>2 DEF InOrder
<1> HIDE DEF q, page
<1>7. ASSUME NEW j \in DOMAIN Tail(q), IsChunk(Tail(q)[j], k) PROVE NotAfter(k, c, Tail(q)[j].i)
  <2>1. j + 1 \in DOMAIN q /\ 1 < j + 1 /\ Tail(q)[j] = q[j + 1] BY <1>4, <1>5, SMT
  <2> QED BY <2>1, <1>6, <1>7
<1>8. WasSent(s, k, c)' BY <1>1, <1>6 DEF WasSent, NotAfter, Active
<1>9. \A j \in DOMAIN wire'[r][s] :
        IsChunk(wire'[r][s][j], k) => c <= wire'[r][s][j].i /\ (k \notin broken' => c < wire'[r][s][j].i)
  BY <1>1, <1>2, <1>7 DEF NotAfter
<1> QED BY <1>3, <1>8, <1>9 DEF AtLeast, IsChunk, NotAfter

LEMMA GivenStays == ASSUME [Next]_vars, NEW owner \in Owners, Inv(owner) PROVE Given \subseteq Given'
<1>1. fresh \in Nat BY StreamAssumption, SMT DEF Inv, TypeOK
<1>2. fresh' = fresh \/ fresh' = fresh + 1
  BY DEF Next, vars, sender, Send, Attempt, SendPage, PageFails, Backoff, Notify, NotifyFails, Again, Die, Join, Receive
<1> QED BY <1>1, <1>2, SMT DEF Given

\* What was merged and what was completed stays passed.
LEMMA MergedLater ==
  ASSUME [Next]_vars, NEW owner \in Owners, NEW own \in Owners, Inv(owner), Inv(own)', Same(owner, own),
         Order(owner), NEW r \in Receivers, NEW k \in DOMAIN allocs[r], NEW c \in allocs[r][k].merged
  PROVE  AtLeast(own, r, k, c)'
<1>1. TypeOK' /\ SenderGoesOn /\ WireMoves /\ broken \subseteq broken' BY StepShape, BrokenStays DEF Inv
<1>2. AtLeast(owner, r, k, c) BY DEF Order, MergedBefore
<1>3. PICK S \in SUBSET ChunksOf(owner[k]) : allocs[r][k] = Piece(owner[k], S) BY DEF Inv, InPieces
<1>4. k \in Given /\ ~Fits(owner[k].len) BY DEF Inv, InPieces
<1>5. c \in Int
  <2>1. c \in ChunksOf(owner[k]) BY <1>3 DEF Piece
  <2>2. Chunks(owner[k].len, owner[k].header) \in Nat BY <1>4, MessageFacts, Lossless DEF Inv, Sending
  <2> QED BY <2>1, <2>2, SMT DEF ChunksOf
<1> QED BY <1>1, <1>2, <1>4, <1>5, Later

LEMMA OverLater ==
  ASSUME [Next]_vars, NEW owner \in Owners, NEW own \in Owners, Inv(owner), Inv(own)', Same(owner, own),
         Order(owner), NEW r \in Receivers, NEW d \in DOMAIN delivered[r],
         NEW k \in {delivered[r][d].attempt} \ {0}
  PROVE  /\ k \in Given /\ k \in Given' /\ ~Fits(own[k].len) /\ own[k] = owner[k]
         /\ AtLeast(own, r, k, LastOf(own[k]))'
         /\ k \in DOMAIN allocs[r] => k \in broken' /\ allocs[r][k].merged \subseteq {LastOf(own[k])}
<1>1. TypeOK' /\ SenderGoesOn /\ WireMoves /\ broken \subseteq broken' BY StepShape, BrokenStays DEF Inv
<1>2. /\ k \in Given /\ ~Fits(owner[k].len) /\ AtLeast(owner, r, k, LastOf(owner[k]))
      /\ k \in DOMAIN allocs[r] => k \in broken /\ allocs[r][k].merged \subseteq {LastOf(owner[k])}
  BY DEF Order, Over
<1>3. own[k] = owner[k] BY <1>2 DEF Same
<1>4. LastOf(owner[k]) \in Int
  <2>1. Chunks(owner[k].len, owner[k].header) \in Nat BY <1>2, MessageFacts, Lossless DEF Inv, Sending
  <2> QED BY <2>1, SMT DEF LastOf
<1>5. k \in Given' BY <1>2, GivenStays
<1>6. AtLeast(own, r, k, LastOf(owner[k]))' BY <1>1, <1>2, <1>4, Later
<1> QED BY <1>1, <1>2, <1>3, <1>5, <1>6

\* Steps in which nothing is received.
LEMMA OrderStays ==
  ASSUME [Next]_vars, NEW owner \in Owners, NEW own \in Owners, Inv(owner), Inv(own)', Same(owner, own),
         Order(owner), UNCHANGED <<allocs, delivered>>
  PROVE  Order(own)'
<1>1. TypeOK' /\ SenderGoesOn /\ WireMoves /\ broken \subseteq broken' BY StepShape, BrokenStays DEF Inv
<1>2. InOrder' BY <1>1, InOrderStays DEF Order
<1>3. MergedBefore(own)' BY MergedLater DEF MergedBefore
<1>4. Over(own)' BY OverLater DEF Over
<1>5. CompletedOnce' BY DEF Order, CompletedOnce
<1> QED BY <1>2, <1>3, <1>4, <1>5 DEF Order

\* A page is received.
LEMMA ReceiveOrder ==
  ASSUME NEW owner \in Owners, Inv(owner), Inv(owner)', Order(owner),
         NEW r \in Receivers, NEW s \in Senders, Receive(r, s)
  PROVE  Order(owner)'
<1> DEFINE page  == Head(wire[r][s])
           plain == [data |-> [p \in 0 .. page.rem - 1 |-> page.body[p]], header |-> page.id]
           a     == Merge(r, page)
           complete == Completes(page, Allocation(r, page), a)
<1>1. [Next]_vars /\ Same(owner, owner) BY DEF Next, Same
<1>2. InOrder' BY <1>1, StepShape, BrokenStays, InOrderStays DEF Order, Inv
<1>3. DOMAIN allocs = Receivers /\ DOMAIN delivered = Receivers BY DEF Inv, InPieces, Completed
<1>4. CASE s \notin Wants[r]
  <2>1. UNCHANGED <<allocs, delivered>> BY <1>4 DEF Receive
  <2> QED BY <1>1, <2>1, OrderStays
<1>5. ASSUME NEW new, delivered' = [delivered EXCEPT ![r] = Append(@, new)]
      PROVE  /\ \A t \in Receivers \ {r} : delivered'[t] = delivered[t]
             /\ \A d \in DOMAIN delivered'[r] :
                  \/ d \in DOMAIN delivered[r] /\ delivered'[r][d] = delivered[r][d]
                  \/ d = Len(delivered[r]) + 1 /\ delivered'[r][d] = new
  <2>1. delivered'[r] = Append(delivered[r], new) /\ \A t \in Receivers \ {r} : delivered'[t] = delivered[t]
    BY <1>3, <1>5
  <2> DEFINE q == delivered[r]
             S == Wholes(r) \union {new}
  <2>2. q \in Seq(S) /\ new \in S
    <3>1. q \in Seq(Wholes(r)) /\ Wholes(r) \subseteq S BY DEF Inv, Completed
    <3> HIDE DEF q, S
    <3>2. q \in Seq(S) BY <3>1, SeqMonotonic
    <3> QED BY <3>2 DEF S
  <2> HIDE DEF q, S
  <2>3. /\ Append(q, new) \in Seq(S) /\ Len(Append(q, new)) = Len(q) + 1
        /\ \A i \in 1 .. Len(q) : Append(q, new)[i] = q[i]
        /\ Append(q, new)[Len(q) + 1] = new
    BY <2>2, AppendProperties
  <2>4. Len(q) \in Nat /\ DOMAIN q = 1 .. Len(q) /\ DOMAIN Append(q, new) = 1 .. Len(q) + 1
    BY <2>2, <2>3, LenProperties
  <2>5. \A d \in DOMAIN Append(q, new) :
          \/ d \in DOMAIN q /\ Append(q, new)[d] = q[d]
          \/ d = Len(q) + 1 /\ Append(q, new)[d] = new
    BY <2>3, <2>4, SMT
  <2> QED BY <2>1, <2>5 DEF q
<1>6. CASE s \in Wants[r] /\ page.num = 0
  <2> DEFINE new == [message |-> plain, attempt |-> 0]
  <2>1. delivered' = [delivered EXCEPT ![r] = Append(@, new)] /\ UNCHANGED allocs
    BY <1>6 DEF Receive
  <2>2. new.attempt = 0 OBVIOUS
  <2> HIDE DEF new
  <2>3. /\ \A t \in Receivers \ {r} : delivered'[t] = delivered[t]
        /\ \A d \in DOMAIN delivered'[r] :
             \/ d \in DOMAIN delivered[r] /\ delivered'[r][d] = delivered[r][d]
             \/ d = Len(delivered[r]) + 1 /\ delivered'[r][d].attempt = 0
    BY <1>5, <2>1, <2>2
  <2>4. MergedBefore(owner)' BY <1>1, <2>1, MergedLater DEF MergedBefore
  <2>5. Over(owner)'
    <3> SUFFICES ASSUME NEW t \in Receivers, NEW d \in DOMAIN delivered'[t],
                        NEW k \in {delivered'[t][d].attempt} \ {0}
                 PROVE  /\ k \in Given' /\ ~Fits(owner[k].len) /\ AtLeast(owner, t, k, LastOf(owner[k]))'
                        /\ k \in DOMAIN allocs'[t] => k \in broken' /\ allocs'[t][k].merged \subseteq {LastOf(owner[k])}
      BY DEF Over
    <3>1. d \in DOMAIN delivered[t] /\ k \in {delivered[t][d].attempt} \ {0} BY <2>3
    <3> QED BY <1>1, <2>1, <3>1, OverLater
  <2>6. CompletedOnce' BY <2>3 DEF Order, CompletedOnce
  <2> QED BY <1>2, <2>4, <2>5, <2>6 DEF Order
<1>7. CASE s \in Wants[r] /\ page.num # 0
  <2>1. page \in PagesOf(owner, s) /\ broken' = broken /\ Given' = Given BY TakePage
  <2>2. PICK k \in CutUp(owner, s) : \E i \in ChunksOf(owner[k]) :
              /\ owner[k] \in Messages /\ page = ChunkPage(owner[k], i, k)
              /\ page.id = k /\ page.i = i /\ page.num = Chunks(owner[k].len, owner[k].header)
    BY <1>7, <2>1, PageCases DEF Inv
  <2>3. PICK i \in ChunksOf(owner[k]) :
              /\ owner[k] \in Messages /\ page = ChunkPage(owner[k], i, k)
              /\ page.id = k /\ page.i = i /\ page.num = Chunks(owner[k].len, owner[k].header)
    BY <2>2
  <2>4. k \in Given /\ owner[k].from = s /\ ~Fits(owner[k].len) /\ k # 0
    BY SMT DEF CutUp, Given
  <2>5. PICK S \in SUBSET ChunksOf(owner[k]) :
              /\ Allocation(r, page) = Piece(owner[k], S) /\ a = Piece(owner[k], S \union {i})
              /\ k \notin DOMAIN allocs[r] => S = {}
    <3> DEFINE it == ChunkPage(owner[k], i, k)
    <3>1. \E S \in SUBSET ChunksOf(owner[k]) :
              /\ Allocation(r, it) = Piece(owner[k], S)
              /\ Merge(r, it) = Piece(owner[k], S \union {i})
              /\ S \union {i} \in SUBSET ChunksOf(owner[k])
              /\ k \notin DOMAIN allocs[r] => S = {}
      BY PieceOfChunk
    <3>2. page = it BY <2>3
    <3> HIDE DEF it, page
    <3> QED BY <3>1, <3>2
  <2> DEFINE last == LastOf(owner[k])
  <2>6. last \in Nat \ {0} /\ i \in Nat /\ i <= last /\ 0 \in ChunksOf(owner[k]) /\ last \in ChunksOf(owner[k])
    <3>1. Chunks(owner[k].len, owner[k].header) \in Nat \ {0, 1} BY <2>3, <2>4, MessageFacts, Lossless
    <3> QED BY <3>1, SMT DEF LastOf, ChunksOf
  <2>7. k \in DOMAIN allocs[r] => allocs[r][k].merged = S BY <2>3, <2>5 DEF Allocation, Piece
  <2>8. AtLeast(owner, r, k, i)' BY <1>7, <2>3, HeadIsFirst DEF Order
  <2>9. \A c \in S \union {i} : AtLeast(owner, r, k, c)' BY <1>1, <2>5, <2>7, <2>8, MergedLater
  <2>10. ASSUME NEW d \in DOMAIN delivered[r], delivered[r][d].attempt = k
         PROVE  S \union {i} = {last} /\ k \in broken
    <3>1. AtLeast(owner, r, k, last) BY <2>4, <2>10 DEF Order, Over
    <3>2. NotAfter(k, last, i)
      <4>1. /\ wire[r][s] # <<>> /\ wire[r][s] \in Seq(PagesOf(owner, s)) BY TakePage
      <4> HIDE DEF PagesOf
      <4>2. 1 \in DOMAIN wire[r][s] /\ wire[r][s][1] = page BY <4>1, EmptySeq, LenProperties, SMT
      <4>3. IsChunk(wire[r][s][1], k) /\ wire[r][s][1].i = i BY <1>7, <2>3, <4>2 DEF IsChunk
      <4> QED BY <2>4, <3>1, <4>2, <4>3 DEF AtLeast
    <3>3. i = last /\ k \in broken BY <2>6, <3>2, SMT DEF NotAfter
    <3>4. S \subseteq {last}
      <4>1. CASE k \in DOMAIN allocs[r] BY <2>4, <2>7, <2>10, <4>1 DEF Order, Over
      <4> QED BY <4>1, <2>5
    <3> QED BY <3>3, <3>4
  <2> HIDE DEF page, a, last
  <2>11. a.merged = S \union {i} BY <2>5 DEF Piece
  <2>12. CASE complete
    <3> DEFINE new == [message |-> [data |-> a.data, header |-> page.header], attempt |-> page.id]
    <3>1. /\ delivered' = [delivered EXCEPT ![r] = Append(@, new)]
          /\ allocs' = [allocs EXCEPT ![r] = Forget(r, page.id)]
      BY <1>7, <2>12 DEF Receive, page, a
    <3>2. new.attempt = k BY <2>3
    <3> HIDE DEF new
    <3>3. Cardinality(S \union {i}) = Chunks(owner[k].len, owner[k].header)
      BY <2>3, <2>11, <2>12 DEF Completes
    <3>4. S \union {i} = ChunksOf(owner[k]) BY <2>3, <2>4, <2>5, <3>3, AllChunks
    <3>5. AtLeast(owner, r, k, last)' BY <2>6, <2>9, <3>4
    <3>6. ASSUME NEW d \in DOMAIN delivered[r] PROVE delivered[r][d].attempt # k
      BY <2>6, <2>10, <3>4, <3>6
    <3>7. /\ \A t \in Receivers \ {r} : delivered'[t] = delivered[t]
          /\ \A d \in DOMAIN delivered'[r] :
               \/ d \in DOMAIN delivered[r] /\ delivered'[r][d] = delivered[r][d]
               \/ d = Len(delivered[r]) + 1 /\ delivered'[r][d].attempt = k
      BY <1>5, <3>1, <3>2
    <3>8. /\ \A t \in Receivers : /\ DOMAIN allocs'[t] \subseteq DOMAIN allocs[t]
                                  /\ \A j \in DOMAIN allocs'[t] : allocs'[t][j] = allocs[t][j]
          /\ k \notin DOMAIN allocs'[r] /\ DOMAIN allocs' = Receivers
      BY <1>3, <2>3, <3>1 DEF Forget
    <3>9. MergedBefore(owner)' BY <1>1, <3>8, MergedLater DEF MergedBefore
    <3>10. Over(owner)'
      <4> SUFFICES ASSUME NEW t \in Receivers, NEW d \in DOMAIN delivered'[t],
                          NEW j \in {delivered'[t][d].attempt} \ {0}
                   PROVE  /\ j \in Given' /\ ~Fits(owner[j].len) /\ AtLeast(owner, t, j, LastOf(owner[j]))'
                          /\ j \in DOMAIN allocs'[t] => j \in broken' /\ allocs'[t][j].merged \subseteq {LastOf(owner[j])}
        BY DEF Over
      <4>1. CASE d \in DOMAIN delivered[t] /\ delivered'[t][d] = delivered[t][d]
        <5>1. /\ j \in Given' /\ ~Fits(owner[j].len) /\ AtLeast(owner, t, j, LastOf(owner[j]))'
              /\ j \in DOMAIN allocs[t] => j \in broken' /\ allocs[t][j].merged \subseteq {LastOf(owner[j])}
          BY <1>1, <4>1, OverLater
        <5> QED BY <5>1, <3>8
      <4>2. CASE t = r /\ j = k BY <4>2, <2>1, <2>4, <3>5, <3>8 DEF last
      <4> QED BY <4>1, <4>2, <3>7
    <3>11. CompletedOnce' BY <3>6, <3>7 DEF Order, CompletedOnce
    <3> QED BY <1>2, <3>9, <3>10, <3>11 DEF Order
  <2>13. CASE ~complete
    <3>1. allocs' = [allocs EXCEPT ![r] = Keep(r, page.id, a)] /\ UNCHANGED delivered
      BY <1>7, <2>13 DEF Receive, page, a
    <3>2. /\ DOMAIN allocs' = Receivers
          /\ DOMAIN allocs'[r] = DOMAIN allocs[r] \union {k} /\ allocs'[r][k] = a
          /\ \A j \in DOMAIN allocs[r] \ {k} : allocs'[r][j] = allocs[r][j]
          /\ \A t \in Receivers \ {r} : allocs'[t] = allocs[t]
      BY <1>3, <2>3, <3>1 DEF Keep
    <3>3. MergedBefore(owner)'
      <4> SUFFICES ASSUME NEW t \in Receivers, NEW j \in DOMAIN allocs'[t], NEW c \in allocs'[t][j].merged
                   PROVE  AtLeast(owner, t, j, c)'
        BY DEF MergedBefore
      <4>1. CASE t = r /\ j = k BY <4>1, <2>9, <2>11, <3>2
      <4>2. CASE ~(t = r /\ j = k)
        <5>1. j \in DOMAIN allocs[t] /\ c \in allocs[t][j].merged BY <4>2, <3>2
        <5> QED BY <5>1, <1>1, MergedLater
      <4> QED BY <4>1, <4>2
    <3>4. Over(owner)'
      <4> SUFFICES ASSUME NEW t \in Receivers, NEW d \in DOMAIN delivered[t],
                          NEW j \in {delivered[t][d].attempt} \ {0}
                   PROVE  /\ j \in Given' /\ ~Fits(owner[j].len) /\ AtLeast(owner, t, j, LastOf(owner[j]))'
                          /\ j \in DOMAIN allocs'[t] => j \in broken' /\ allocs'[t][j].merged \subseteq {LastOf(owner[j])}
        BY <3>1 DEF Over
      <4>1. /\ j \in Given' /\ ~Fits(owner[j].len) /\ AtLeast(owner, t, j, LastOf(owner[j]))'
            /\ j \in DOMAIN allocs[t] => j \in broken' /\ allocs[t][j].merged \subseteq {LastOf(owner[j])}
        BY <1>1, OverLater
      <4>2. CASE t = r /\ j = k BY <4>1, <4>2, <2>1, <2>10, <2>11, <3>2 DEF last
      <4>3. CASE ~(t = r /\ j = k) BY <4>1, <4>3, <3>2
      <4> QED BY <4>2, <4>3
    <3>5. CompletedOnce' BY <3>1 DEF Order, CompletedOnce
    <3> QED BY <1>2, <3>3, <3>4, <3>5 DEF Order
  <2> QED BY <2>12, <2>13
<1> QED BY <1>4, <1>6, <1>7

-----------------------------------------------------------------------------
(* What a receiver has.  Once it has subscribed, a chunk that was sent is   *)
(* on the wire, merged, or part of what was completed; after the last one   *)
(* of an attempt it has everything, unless something failed in it.          *)

\* Receiver r was there when attempt k began, and collects its message.
Collects(owner, r, k) == joined[r] # 0 /\ joined[r] <= k /\ owner[k].from \in Wants[r]

HasCompleted(r, k) == \E d \in DOMAIN delivered[r] : delivered[r][d].attempt = k

HasMerged(r, k, c) == k \in DOMAIN allocs[r] /\ c \in allocs[r][k].merged

HasChunk(owner, r, k, c) ==
  \/ \E j \in DOMAIN wire[r][owner[k].from] :
       IsChunk(wire[r][owner[k].from][j], k) /\ wire[r][owner[k].from][j].i = c
  \/ HasMerged(r, k, c)
  \/ HasCompleted(r, k)

HasPlain(r, m) ==
  \/ \E j \in DOMAIN wire[r][m.from] : wire[r][m.from][j] = PlainPage(m)
  \/ \E d \in DOMAIN delivered[r] : delivered[r][d].message = Whole(m)

HasAll(owner, r, k) ==
  IF Fits(owner[k].len) THEN HasPlain(r, owner[k])
                        ELSE \A c \in ChunksOf(owner[k]) : HasChunk(owner, r, k, c)

\* The first attempt at a message is not after the present one.
FirstIsFirst ==
  \A s \in Senders : /\ Active(s) \/ stage[s] = "again" => msg[s].first \in Given
                     /\ Active(s) => msg[s].first <= id[s]

FailedIsBroken == \A s \in Senders : Active(s) /\ (stage[s] = "backoff" \/ ~fine[s]) => id[s] \in broken

\* Nothing comes to those who have not subscribed.
NothingBefore ==
  \A r \in Receivers :
    /\ joined[r] <= fresh
    /\ joined[r] = 0 => DOMAIN allocs[r] = {} /\ \A s \in Senders : wire[r][s] = <<>>

\* What was completed is the attempt's message; what was not has a chunk missing.
IsItsMessage(owner) ==
  \A r \in Receivers :
    /\ \A d \in DOMAIN delivered[r] : \A k \in {delivered[r][d].attempt} \ {0} :
         delivered[r][d].message = Whole(owner[k])
    /\ \A k \in DOMAIN allocs[r] : allocs[r][k].merged # ChunksOf(owner[k])

Reached(owner) ==
  \A s \in Senders, r \in Receivers : Active(s) /\ Collects(owner, r, id[s]) =>
    IF Fits(msg[s].len)
      THEN stage[s] = "notify" /\ fine[s] => HasPlain(r, msg[s])
      ELSE \A c \in ChunksOf(msg[s]) :
             c < next[s] \/ (c = next[s] /\ stage[s] = "notify") => HasChunk(owner, r, id[s], c)

WentOut(owner, k) == \A r \in Receivers : Collects(owner, r, k) => HasAll(owner, r, k)

ReturnedArrives(owner) ==
  \A m \in returned : \E k \in Given : owner[k] = m /\ m.first <= k /\ WentOut(owner, k)

Finished(owner) ==
  \A k \in Given : \/ k \in broken
                   \/ \E s \in Senders : id[s] = k /\ stage[s] \in {"page", "notify"}
                   \/ WentOut(owner, k)

Arrival(owner) ==
  /\ FirstIsFirst /\ FailedIsBroken /\ NothingBefore /\ IsItsMessage(owner)
  /\ Reached(owner) /\ ReturnedArrives(owner) /\ Finished(owner)

LEMMA AppendedStays ==
  ASSUME NEW S, NEW r \in Receivers, DOMAIN delivered = Receivers, delivered[r] \in Seq(S), NEW new,
         delivered' = [delivered EXCEPT ![r] = Append(@, new)]
  PROVE  /\ \A t \in Receivers \ {r} : delivered'[t] = delivered[t]
         /\ \A d \in DOMAIN delivered[r] : d \in DOMAIN delivered'[r] /\ delivered'[r][d] = delivered[r][d]
         /\ \E d \in DOMAIN delivered'[r] :
              /\ delivered'[r][d] = new
              /\ \A e \in DOMAIN delivered'[r] : e # d => e \in DOMAIN delivered[r]
<1> DEFINE q == delivered[r]
           T == S \union {new}
<1>1. delivered'[r] = Append(q, new) /\ \A t \in Receivers \ {r} : delivered'[t] = delivered[t]
  OBVIOUS
<1>2. q \in Seq(T) /\ new \in T
  <2>1. q \in Seq(S) /\ S \subseteq T OBVIOUS
  <2> HIDE DEF q, T
  <2>2. q \in Seq(T) BY <2>1, SeqMonotonic
  <2> QED BY <2>2 DEF T
<1> HIDE DEF q, T
<1>3. /\ Append(q, new) \in Seq(T) /\ Len(Append(q, new)) = Len(q) + 1
      /\ \A i \in 1 .. Len(q) : Append(q, new)[i] = q[i]
      /\ Append(q, new)[Len(q) + 1] = new
  BY <1>2, AppendProperties
<1>4. Len(q) \in Nat /\ DOMAIN q = 1 .. Len(q) /\ DOMAIN Append(q, new) = 1 .. Len(q) + 1
  BY <1>2, <1>3, LenProperties
<1>5. \A d \in DOMAIN q : d \in DOMAIN Append(q, new) /\ Append(q, new)[d] = q[d] BY <1>3, <1>4, SMT
<1>6. Len(q) + 1 \in DOMAIN Append(q, new) /\ \A e \in DOMAIN Append(q, new) : e # Len(q) + 1 => e \in DOMAIN q
  BY <1>4, SMT
<1> QED BY <1>1, <1>3, <1>5, <1>6 DEF q

\* What is completed stays completed, the rest of the others untouched.
LEMMA ReceiveExtends ==
  ASSUME NEW owner \in Owners, Inv(owner), NEW r \in Receivers, NEW s \in Senders, Receive(r, s)
  PROVE  /\ \A t \in Receivers \ {r} : allocs'[t] = allocs[t] /\ delivered'[t] = delivered[t]
         /\ \A d \in DOMAIN delivered[r] : d \in DOMAIN delivered'[r] /\ delivered'[r][d] = delivered[r][d]
         /\ \A t \in Receivers, u \in Senders : t # r \/ u # s => wire'[t][u] = wire[t][u]
<1>1. DOMAIN allocs = Receivers /\ DOMAIN delivered = Receivers BY DEF Inv, InPieces, Completed
<1>2. \A t \in Receivers \ {r} : allocs'[t] = allocs[t]
  <2>1. UNCHANGED allocs \/ \E new : allocs' = [allocs EXCEPT ![r] = new] BY DEF Receive
  <2> QED BY <1>1, <2>1
<1>3. UNCHANGED delivered \/ \E new : delivered' = [delivered EXCEPT ![r] = Append(@, new)]
  BY DEF Receive
<1>4. ASSUME NEW new, delivered' = [delivered EXCEPT ![r] = Append(@, new)]
      PROVE  /\ \A t \in Receivers \ {r} : delivered'[t] = delivered[t]
             /\ \A d \in DOMAIN delivered[r] : d \in DOMAIN delivered'[r] /\ delivered'[r][d] = delivered[r][d]
             /\ \E d \in DOMAIN delivered'[r] : delivered'[r][d] = new
  BY <1>1, <1>4, AppendedStays DEF Inv, Completed
<1>5. \A t \in Receivers, u \in Senders : t # r \/ u # s => wire'[t][u] = wire[t][u]
  <2>1. wire' = [wire EXCEPT ![r][s] = Tail(@)] BY TakePage
  <2> QED BY <2>1 DEF Inv, OnTheWire
<1> QED BY <1>2, <1>3, <1>4, <1>5

LEMMA ReceivedPlain ==
  ASSUME NEW owner \in Owners, Inv(owner), NEW r \in Receivers, NEW s \in Senders, Receive(r, s),
         s \in Wants[r], NEW m \in Messages, Fits(m.len), Head(wire[r][s]) = PlainPage(m)
  PROVE  \E d \in DOMAIN delivered'[r] : delivered'[r][d].message = Whole(m)
<1> DEFINE page  == Head(wire[r][s])
           plain == [data |-> [p \in 0 .. page.rem - 1 |-> page.body[p]], header |-> page.id]
           new   == [message |-> plain, attempt |-> 0]
<1>1. page.num = 0 BY DEF PlainPage
<1>2. delivered' = [delivered EXCEPT ![r] = Append(@, new)] BY <1>1 DEF Receive
<1>3. plain = Whole(m)
  <2>1. m.len \in Nat /\ m.len <= PageSize - PlainMeta BY MessageFacts DEF Fits
  <2>2. page.rem = m.len /\ page.id = m.header BY DEF PlainPage
  <2>3. \A p \in 0 .. m.len - 1 : page.body[p] = Byte(m, p)
    BY <2>1, ChunkingAssumption, SMT DEF PlainPage
  <2> HIDE DEF page
  <2> QED BY <2>2, <2>3 DEF Whole, Payload
<1>4. new.message = Whole(m) BY <1>3
<1> HIDE DEF new
<1>5. \E d \in DOMAIN delivered'[r] : delivered'[r][d] = new
  BY <1>2, AppendedStays DEF Inv, Completed
<1> QED BY <1>4, <1>5

\* A chunk that is received is merged, or completes its message.
LEMMA ReceivedChunk ==
  ASSUME NEW owner \in Owners, Inv(owner), NEW r \in Receivers, NEW s \in Senders, Receive(r, s),
         IsItsMessage(owner), s \in Wants[r], NEW k \in CutUp(owner, s), NEW i \in ChunksOf(owner[k]),
         Head(wire[r][s]) = ChunkPage(owner[k], i, k)
  PROVE  /\ \/ \E S \in SUBSET ChunksOf(owner[k]) :
                 /\ k \in DOMAIN allocs'[r] /\ allocs'[r][k].merged = S \union {i}
                 /\ S \union {i} # ChunksOf(owner[k])
                 /\ k \in DOMAIN allocs[r] => allocs[r][k].merged = S
                 /\ UNCHANGED delivered
            \/ /\ DOMAIN allocs'[r] = DOMAIN allocs[r] \ {k}
               /\ \E d \in DOMAIN delivered'[r] :
                    /\ delivered'[r][d].attempt = k /\ delivered'[r][d].message = Whole(owner[k])
                    /\ \A e \in DOMAIN delivered'[r] : e # d => e \in DOMAIN delivered[r]
         /\ \A j \in (DOMAIN allocs[r] \union DOMAIN allocs'[r]) \ {k} :
              j \in DOMAIN allocs[r] /\ j \in DOMAIN allocs'[r] /\ allocs'[r][j] = allocs[r][j]
<1> DEFINE page == Head(wire[r][s])
           a    == Merge(r, page)
           complete == Completes(page, Allocation(r, page), a)
<1>1. owner[k] \in Messages /\ ~Fits(owner[k].len) /\ s = owner[k].from BY DEF CutUp, Inv, Sending
<1>2. Chunks(owner[k].len, owner[k].header) \in Nat \ {0, 1} BY <1>1, MessageFacts, Lossless
<1>3. /\ page.num # 0 /\ page.header = owner[k].header /\ page.id = k /\ page.i = i
      /\ page.num = Chunks(owner[k].len, owner[k].header)
  BY <1>2 DEF ChunkPage
<1>4. PICK S \in SUBSET ChunksOf(owner[k]) :
              /\ Allocation(r, page) = Piece(owner[k], S) /\ a = Piece(owner[k], S \union {i})
              /\ S \union {i} \in SUBSET ChunksOf(owner[k])
              /\ k \notin DOMAIN allocs[r] => S = {}
  <2> DEFINE it == ChunkPage(owner[k], i, k)
  <2>1. \E S \in SUBSET ChunksOf(owner[k]) :
              /\ Allocation(r, it) = Piece(owner[k], S)
              /\ Merge(r, it) = Piece(owner[k], S \union {i})
              /\ S \union {i} \in SUBSET ChunksOf(owner[k])
              /\ k \notin DOMAIN allocs[r] => S = {}
    BY PieceOfChunk
  <2>2. page = it OBVIOUS
  <2> HIDE DEF it, page
  <2> QED BY <2>1, <2>2
<1>5. k \in DOMAIN allocs[r] => allocs[r][k].merged = S BY <1>3, <1>4 DEF Allocation, Piece
<1> HIDE DEF page
<1>6. DOMAIN allocs = Receivers /\ DOMAIN delivered = Receivers BY DEF Inv, InPieces, Completed
<1>8. CASE complete
  <2> DEFINE new == [message |-> [data |-> a.data, header |-> page.header], attempt |-> page.id]
  <2>1. /\ delivered' = [delivered EXCEPT ![r] = Append(@, new)]
        /\ allocs' = [allocs EXCEPT ![r] = Forget(r, page.id)]
    BY <1>3, <1>8 DEF Receive, page
  <2> HIDE DEF a
  <2>2. a.merged = S \union {i} /\ a.data = Piece(owner[k], S \union {i}).data BY <1>4 DEF Piece
  <2>3. Cardinality(S \union {i}) = Chunks(owner[k].len, owner[k].header)
    BY <1>3, <1>8, <2>2 DEF Completes
  <2>4. S \union {i} = ChunksOf(owner[k]) BY <1>1, <1>4, <2>3, AllChunks
  <2>5. a.data = Payload(owner[k]) BY <1>1, <2>2, <2>4, AllPieces
  <2>6. new.attempt = k /\ new.message = Whole(owner[k]) BY <1>3, <2>5 DEF Whole
  <2> HIDE DEF new
  <2>7. \E d \in DOMAIN delivered'[r] :
          /\ delivered'[r][d] = new
          /\ \A e \in DOMAIN delivered'[r] : e # d => e \in DOMAIN delivered[r]
    BY <1>6, <2>1, AppendedStays DEF Inv, Completed
  <2>8. /\ DOMAIN allocs'[r] = DOMAIN allocs[r] \ {k}
        /\ \A j \in DOMAIN allocs'[r] : allocs'[r][j] = allocs[r][j]
    BY <1>3, <1>6, <2>1 DEF Forget
  <2> QED BY <2>6, <2>7, <2>8
<1>9. CASE ~complete
  <2>1. allocs' = [allocs EXCEPT ![r] = Keep(r, page.id, a)] /\ UNCHANGED delivered
    BY <1>3, <1>9 DEF Receive, page
  <2>2. S \union {i} # ChunksOf(owner[k])
    <3>1. CASE i \in S
      <4>1. k \in DOMAIN allocs[r] /\ S = allocs[r][k].merged BY <3>1, <1>4, <1>5
      <4>2. S # ChunksOf(owner[k]) BY <4>1 DEF IsItsMessage
      <4> QED BY <3>1, <4>2
    <3>2. CASE i \notin S
      <4>1. Cardinality(S \union {i}) # page.num
        <5>1. a.merged = S \union {i} /\ Allocation(r, page).merged = S BY <1>4 DEF Piece
        <5> HIDE DEF a
        <5> QED BY <3>2, <1>3, <1>9, <5>1 DEF Completes
      <4>2. Cardinality(ChunksOf(owner[k])) = Chunks(owner[k].len, owner[k].header)
        BY <1>1, AllChunks
      <4> QED BY <4>1, <4>2, <1>3
    <3> QED BY <3>1, <3>2
  <2> HIDE DEF a
  <2>3. a.merged = S \union {i} BY <1>4 DEF Piece
  <2>4. /\ DOMAIN allocs'[r] = DOMAIN allocs[r] \union {k} /\ allocs'[r][k] = a
        /\ \A j \in DOMAIN allocs[r] \ {k} : allocs'[r][j] = allocs[r][j]
    BY <1>3, <1>6, <2>1 DEF Keep
  <2> QED BY <1>4, <1>5, <2>1, <2>2, <2>3, <2>4 DEF page
<1> QED BY <1>8, <1>9

LEMMA NoReceipt ==
  ASSUME [Next]_vars, NEW owner \in Owners, Inv(owner), NEW r \in Receivers,
         ~ \E s \in Senders : Receive(r, s)
  PROVE  /\ allocs'[r] = allocs[r] /\ delivered'[r] = delivered[r]
         /\ \A s \in Senders : \/ wire'[r][s] = wire[r][s]
                               \/ stage[s] = "page" /\ wire'[r][s] = Append(wire[r][s], Page(s))
<1>1. CASE \E t \in Receivers, s \in Senders : Receive(t, s)
  <2>1. PICK t \in Receivers, s \in Senders : Receive(t, s) BY <1>1
  <2>2. r # t BY <2>1
  <2> QED BY <2>1, <2>2, ReceiveExtends
<1>2. CASE \E s \in Senders : SendPage(s) \/ PageFails(s)
  <2>1. PICK s \in Senders : SendPage(s) \/ PageFails(s) BY <1>2
  <2>2. UNCHANGED <<allocs, delivered>> /\ stage[s] = "page" /\ \E targets \in SUBSET Receivers : Publish(s, targets)
    <3>1. CASE SendPage(s) BY <3>1 DEF SendPage, Go, Subscribed, receiver
    <3>2. CASE PageFails(s) BY <3>2 DEF PageFails, Go, Subscribed, receiver
    <3> QED BY <2>1, <3>1, <3>2
  <2>3. PICK targets \in SUBSET Receivers : Publish(s, targets) BY <2>2
  <2>4. ASSUME NEW t \in Senders
        PROVE  wire'[r][t] = wire[r][t] \/ (t = s /\ wire'[r][t] = Append(wire[r][t], Page(t)))
    BY <2>3 DEF Publish, Inv, OnTheWire
  <2> QED BY <2>2, <2>4
<1>3. CASE /\ ~ \E t \in Receivers, s \in Senders : Receive(t, s)
           /\ ~ \E s \in Senders : SendPage(s) \/ PageFails(s)
  <2>1. UNCHANGED <<wire, allocs, delivered>>
    BY <1>3 DEF Next, vars, receiver, Send, Backoff, Notify, NotifyFails, Again, Die, Join
  <2> QED BY <2>1
<1> QED BY <1>1, <1>2, <1>3

\* A page stays on the wire until it is received.
LEMMA WireStays ==
  ASSUME [Next]_vars, NEW owner \in Owners, Inv(owner), NEW r \in Receivers, NEW s \in Senders,
         NEW j \in DOMAIN wire[r][s]
  PROVE  \/ Receive(r, s) /\ Head(wire[r][s]) = wire[r][s][j]
         \/ \E i \in DOMAIN wire'[r][s] : wire'[r][s][i] = wire[r][s][j]
<1> DEFINE q == wire[r][s]
           w == wire'[r][s]
<1>1. q \in Seq(PagesOf(owner, s)) BY DEF Inv, OnTheWire
<1>2. CASE Receive(r, s)
  <2>1. q # <<>> /\ w = Tail(q)
    <3>1. wire' = [wire EXCEPT ![r][s] = Tail(@)] /\ q # <<>> BY <1>2, TakePage
    <3> QED BY <3>1 DEF Inv, OnTheWire
  <2> HIDE DEF PagesOf, q, w
  <2>2. Len(q) \in Nat \ {0} /\ DOMAIN q = 1 .. Len(q) /\ Head(q) = q[1]
    BY <1>1, <2>1, LenProperties, EmptySeq
  <2>3. Len(Tail(q)) = Len(q) - 1 /\ DOMAIN Tail(q) = 1 .. Len(Tail(q))
        /\ \A i \in 1 .. Len(Tail(q)) : Tail(q)[i] = q[i + 1]
    BY <1>1, <2>1, HeadTailProperties, LenProperties
  <2>4. CASE j = 1 BY <2>2, <2>4, <1>2 DEF q
  <2>5. CASE j # 1
    <3>1. j \in 1 .. Len(q) BY <2>2 DEF q
    <3>2. j - 1 \in DOMAIN Tail(q) /\ Tail(q)[j - 1] = q[j] BY <2>2, <2>3, <2>5, <3>1, SMT
    <3> QED BY <2>1, <3>2 DEF q, w
  <2> QED BY <2>4, <2>5
<1>3. CASE ~Receive(r, s)
  <2>1. w = q \/ (stage[s] = "page" /\ w = Append(q, Page(s)))
    <3>1. CASE \E t \in Senders : Receive(r, t)
      <4>1. PICK t \in Senders : Receive(r, t) BY <3>1
      <4> QED BY <4>1, <1>3, ReceiveExtends
    <3>2. CASE ~ \E t \in Senders : Receive(r, t) BY <3>2, NoReceipt
    <3> QED BY <3>1, <3>2
  <2>2. CASE w = q BY <2>2
  <2>3. CASE stage[s] = "page" /\ w = Append(q, Page(s))
    <3>1. Page(s) \in PagesOf(owner, s) BY <2>3, PageSent
    <3> HIDE DEF PagesOf, q, w
    <3>2. Append(q, Page(s)) \in Seq(PagesOf(owner, s)) /\ Len(Append(q, Page(s))) = Len(q) + 1
          /\ \A i \in 1 .. Len(q) : Append(q, Page(s))[i] = q[i]
      BY <1>1, <3>1, AppendProperties
    <3>3. Len(q) \in Nat /\ DOMAIN q = 1 .. Len(q) /\ DOMAIN w = 1 .. Len(q) + 1
      BY <1>1, <2>3, <3>2, LenProperties
    <3>4. j \in 1 .. Len(q) BY <3>3 DEF q
    <3>5. j \in DOMAIN w /\ w[j] = q[j] BY <2>3, <3>2, <3>3, <3>4, SMT
    <3> QED BY <3>5 DEF q, w
  <2> QED BY <2>1, <2>2, <2>3
<1> QED BY <1>2, <1>3

LEMMA CompletedStays ==
  ASSUME [Next]_vars, NEW owner \in Owners, Inv(owner), NEW r \in Receivers
  PROVE  \A d \in DOMAIN delivered[r] : d \in DOMAIN delivered'[r] /\ delivered'[r][d] = delivered[r][d]
<1>1. CASE \E t \in Senders : Receive(r, t) BY <1>1, ReceiveExtends
<1>2. CASE ~ \E t \in Senders : Receive(r, t) BY <1>2, NoReceipt
<1> QED BY <1>1, <1>2

\* What receiving a page does to the allocations.
LEMMA ReceivedAny ==
  ASSUME NEW owner \in Owners, Inv(owner), NEW r \in Receivers, NEW s \in Senders, Receive(r, s)
  PROVE  \/ allocs'[r] = allocs[r] /\ (delivered'[r] = delivered[r] \/
                \E new : new.attempt = 0 /\ delivered' = [delivered EXCEPT ![r] = Append(@, new)])
         \/ /\ s \in Wants[r]
            /\ \E k \in CutUp(owner, s) : \E i \in ChunksOf(owner[k]) :
                 Head(wire[r][s]) = ChunkPage(owner[k], i, k)
<1> DEFINE page == Head(wire[r][s])
<1>1. CASE s \notin Wants[r] BY <1>1 DEF Receive
<1>2. CASE s \in Wants[r] /\ page.num = 0
  <2> DEFINE plain == [data |-> [p \in 0 .. page.rem - 1 |-> page.body[p]], header |-> page.id]
             new   == [message |-> plain, attempt |-> 0]
  <2>1. delivered' = [delivered EXCEPT ![r] = Append(@, new)] /\ UNCHANGED allocs BY <1>2 DEF Receive
  <2>2. new.attempt = 0 OBVIOUS
  <2> HIDE DEF new
  <2> QED BY <2>1, <2>2
<1>3. CASE s \in Wants[r] /\ page.num # 0
  <2>1. page \in PagesOf(owner, s) BY TakePage
  <2> HIDE DEF page
  <2>2. \E k \in CutUp(owner, s) : \E i \in ChunksOf(owner[k]) : page = ChunkPage(owner[k], i, k)
    BY <2>1, <1>3, PageCases DEF Inv
  <2> QED BY <2>2, <1>3 DEF page
<1> QED BY <1>1, <1>2, <1>3

LEMMA MergedStays ==
  ASSUME [Next]_vars, NEW owner \in Owners, Inv(owner), IsItsMessage(owner), NEW r \in Receivers, NEW k, NEW c,
         HasMerged(r, k, c)
  PROVE  HasMerged(r, k, c)' \/ HasCompleted(r, k)'
<1>1. CASE ~ \E t \in Senders : Receive(r, t) BY <1>1, NoReceipt DEF HasMerged
<1>2. ASSUME NEW s \in Senders, Receive(r, s) PROVE HasMerged(r, k, c)' \/ HasCompleted(r, k)'
  <2>1. CASE allocs'[r] = allocs[r] BY <2>1 DEF HasMerged
  <2>2. ASSUME s \in Wants[r], NEW n \in CutUp(owner, s), NEW i \in ChunksOf(owner[n]),
               Head(wire[r][s]) = ChunkPage(owner[n], i, n)
        PROVE  HasMerged(r, k, c)' \/ HasCompleted(r, k)'
    <3>1. \A j \in (DOMAIN allocs[r] \union DOMAIN allocs'[r]) \ {n} :
            j \in DOMAIN allocs[r] /\ j \in DOMAIN allocs'[r] /\ allocs'[r][j] = allocs[r][j]
      BY <1>2, <2>2, ReceivedChunk
    <3>2. CASE k # n BY <3>1, <3>2 DEF HasMerged
    <3>3. CASE k = n
      <4>1. \/ \E S : k \in DOMAIN allocs'[r] /\ allocs'[r][k].merged = S \union {i}
                      /\ (k \in DOMAIN allocs[r] => allocs[r][k].merged = S)
            \/ \E d \in DOMAIN delivered'[r] : delivered'[r][d].attempt = k
        BY <1>2, <2>2, <3>3, ReceivedChunk
      <4> QED BY <4>1 DEF HasMerged, HasCompleted
    <3> QED BY <3>2, <3>3
  <2> QED BY <1>2, <2>1, <2>2, ReceivedAny
<1> QED BY <1>1, <1>2

\* A chunk that a receiver has it keeps, until its message is completed.
LEMMA HasChunkStays ==
  ASSUME [Next]_vars, NEW owner \in Owners, NEW own \in Owners, Inv(owner), IsItsMessage(owner),
         Same(owner, own), NEW r \in Receivers, NEW k \in Given, owner[k].from \in Wants[r], NEW c,
         HasChunk(owner, r, k, c)
  PROVE  HasChunk(own, r, k, c)'
<1>1. own[k] = owner[k] /\ owner[k].from \in Senders BY MessageFacts DEF Same, Inv, Sending
<1> PICK s \in Senders : s = owner[k].from BY <1>1
<1>2. CASE HasCompleted(r, k) BY <1>2, CompletedStays DEF HasChunk, HasCompleted
<1>3. CASE HasMerged(r, k, c) BY <1>3, MergedStays DEF HasChunk
<1>4. ASSUME NEW j \in DOMAIN wire[r][s], IsChunk(wire[r][s][j], k), wire[r][s][j].i = c
      PROVE  HasChunk(own, r, k, c)'
  <2>1. CASE \E i \in DOMAIN wire'[r][s] : wire'[r][s][i] = wire[r][s][j]
    BY <2>1, <1>1, <1>4 DEF HasChunk, IsChunk
  <2>2. CASE Receive(r, s) /\ Head(wire[r][s]) = wire[r][s][j]
    <3>1. wire[r][s][j] \in PagesOf(owner, s) BY OnTheWireAt
    <3>2. \E n \in CutUp(owner, s) : \E i \in ChunksOf(owner[n]) :
            wire[r][s][j] = ChunkPage(owner[n], i, n) /\ wire[r][s][j].id = n /\ wire[r][s][j].i = i
      BY <3>1, <1>4, PageCases DEF Inv, IsChunk
    <3>3. k \in CutUp(owner, s) /\ c \in ChunksOf(owner[k]) /\ wire[r][s][j] = ChunkPage(owner[k], c, k)
      BY <3>2, <1>4 DEF IsChunk
    <3>4. \/ \E S : k \in DOMAIN allocs'[r] /\ allocs'[r][k].merged = S \union {c}
          \/ \E d \in DOMAIN delivered'[r] : delivered'[r][d].attempt = k
      BY <2>2, <3>3, ReceivedChunk
    <3> QED BY <3>4 DEF HasChunk, HasMerged, HasCompleted
  <2> QED BY <2>1, <2>2, WireStays
<1> QED BY <1>2, <1>3, <1>4 DEF HasChunk

LEMMA HasPlainStays ==
  ASSUME [Next]_vars, NEW owner \in Owners, Inv(owner), NEW r \in Receivers,
         NEW m \in Messages, Fits(m.len), m.from \in Wants[r], HasPlain(r, m)
  PROVE  HasPlain(r, m)'
<1>1. m.from \in Senders BY MessageFacts
<1>2. CASE \E d \in DOMAIN delivered[r] : delivered[r][d].message = Whole(m)
  BY <1>2, CompletedStays DEF HasPlain
<1>3. ASSUME NEW j \in DOMAIN wire[r][m.from], wire[r][m.from][j] = PlainPage(m)
      PROVE  HasPlain(r, m)'
  <2>1. CASE \E i \in DOMAIN wire'[r][m.from] : wire'[r][m.from][i] = wire[r][m.from][j]
    BY <2>1, <1>3 DEF HasPlain
  <2>2. CASE Receive(r, m.from) /\ Head(wire[r][m.from]) = wire[r][m.from][j]
    BY <2>2, <1>1, <1>3, ReceivedPlain DEF HasPlain
  <2> QED BY <1>1, <2>1, <2>2, WireStays
<1> QED BY <1>2, <1>3 DEF HasPlain

LEMMA HasAllStays ==
  ASSUME [Next]_vars, NEW owner \in Owners, NEW own \in Owners, Inv(owner), IsItsMessage(owner),
         Same(owner, own), NEW r \in Receivers, NEW k \in Given, owner[k].from \in Wants[r], HasAll(owner, r, k)
  PROVE  HasAll(own, r, k)'
<1>1. own[k] = owner[k] /\ owner[k] \in Messages BY DEF Same, Inv, Sending
<1>2. CASE Fits(owner[k].len)
  <2>1. HasPlain(r, owner[k]) BY <1>2 DEF HasAll
  <2>2. HasPlain(r, owner[k])' BY <1>1, <1>2, <2>1, HasPlainStays
  <2> QED BY <1>1, <1>2, <2>2 DEF HasAll
<1>3. CASE ~Fits(owner[k].len)
  <2>1. \A c \in ChunksOf(owner[k]) : HasChunk(own, r, k, c)' BY <1>3, HasChunkStays DEF HasAll
  <2> QED BY <1>1, <1>3, <2>1 DEF HasAll
<1> QED BY <1>2, <1>3

\* What a step may do to a sender.
Still(t) ==
  stage'[t] = stage[t] /\ msg'[t] = msg[t] /\ id'[t] = id[t] /\ next'[t] = next[t] /\ fine'[t] = fine[t]

Starts(t) ==
  /\ fresh \in Attempts /\ fresh' = fresh + 1
  /\ stage'[t] = "page" /\ id'[t] = fresh /\ next'[t] = 0 /\ fine'[t]
  /\ \/ stage[t] = "again" /\ msg'[t] = msg[t]
     \/ stage[t] = "idle" /\ msg'[t].first = fresh

GoesOn(t) ==
  /\ msg'[t] = msg[t] /\ id'[t] = id[t]
  /\ \/ /\ stage[t] = "page" /\ stage'[t] = "notify" /\ next'[t] = next[t] /\ fine'[t] = fine[t]
        /\ SendPage(t)
     \/ /\ stage[t] = "page" /\ next'[t] = next[t] /\ id[t] \in broken'
        /\ IF Fits(msg[t].len) THEN stage'[t] = "notify" /\ ~fine'[t] ELSE stage'[t] = "backoff"
     \/ stage[t] = "backoff" /\ stage'[t] \in {"page", "idle"} /\ next'[t] = next[t] /\ fine'[t] = fine[t]
     \/ /\ stage[t] = "notify" /\ fine'[t] = fine[t]
        /\ \/ stage'[t] = "again" /\ ~fine[t]
           \/ /\ stage'[t] = "idle" /\ fine[t]
              /\ Fits(msg[t].len) \/ next[t] + 1 = Chunks(msg[t].len, msg[t].header)
           \/ stage'[t] = "page" /\ fine[t] /\ ~Fits(msg[t].len) /\ next'[t] = next[t] + 1
     \/ stage[t] = "notify" /\ stage'[t] = "again" /\ id[t] \in broken'
     \/ stage'[t] = "dead" /\ (stage[t] \in {"idle", "again", "dead"} \/ id[t] \in broken')

LEMMA SenderSteps ==
  ASSUME [Next]_vars, NEW owner \in Owners, Inv(owner), NEW t \in Senders
  PROVE  /\ Still(t) \/ Starts(t) \/ GoesOn(t)
         /\ fresh' = fresh \/ (fresh' = fresh + 1 /\ \E u \in Senders : Starts(u))
<1>1. /\ stage \in [Senders -> {"idle", "page", "backoff", "notify", "again", "dead"}]
      /\ msg \in [Senders -> Messages \union {None}] /\ id \in [Senders -> 0 .. MaxAttempts]
      /\ next \in [Senders -> Nat] /\ fine \in [Senders -> BOOLEAN]
  BY DEF Inv, TypeOK
<1>2. ASSUME NEW s \in Senders, NEW size \in Sizes, Send(s, size[1], size[2])
      PROVE  (Still(t) \/ Starts(t)) /\ Starts(s) /\ fresh' = fresh + 1
  <2> PICK m : m = [from |-> s, first |-> fresh, len |-> size[1], header |-> size[2]] OBVIOUS
  <2>1. /\ stage[s] = "idle" /\ stage' = [stage EXCEPT ![s] = "page"]
        /\ fresh \in Attempts /\ fresh' = fresh + 1 /\ id' = [id EXCEPT ![s] = fresh]
        /\ next' = [next EXCEPT ![s] = 0] /\ fine' = [fine EXCEPT ![s] = TRUE]
        /\ msg' = [msg EXCEPT ![s] = m]
    BY <1>2 DEF Send, Go, Attempt
  <2>2. m.first = fresh OBVIOUS
  <2>3. Starts(s) BY <1>1, <2>1, <2>2 DEF Starts
  <2>4. t # s => Still(t) BY <1>1, <2>1 DEF Still
  <2> QED BY <2>1, <2>3, <2>4
<1>3. ASSUME NEW s \in Senders, Again(s)
      PROVE  (Still(t) \/ Starts(t)) /\ Starts(s) /\ fresh' = fresh + 1
  <2>1. /\ stage[s] = "again" /\ stage' = [stage EXCEPT ![s] = "page"]
        /\ fresh \in Attempts /\ fresh' = fresh + 1 /\ id' = [id EXCEPT ![s] = fresh]
        /\ next' = [next EXCEPT ![s] = 0] /\ fine' = [fine EXCEPT ![s] = TRUE] /\ msg' = msg
    BY <1>3 DEF Again, Go, Attempt
  <2>2. Starts(s) BY <1>1, <2>1 DEF Starts
  <2>3. t # s => Still(t) BY <1>1, <2>1 DEF Still
  <2> QED BY <2>1, <2>2, <2>3
<1>4. ASSUME NEW s \in Senders, SendPage(s) PROVE (Still(t) \/ GoesOn(t)) /\ fresh' = fresh
  BY <1>1, <1>4 DEF SendPage, Go, Still, GoesOn
<1>5. ASSUME NEW s \in Senders, PageFails(s) PROVE (Still(t) \/ GoesOn(t)) /\ fresh' = fresh
  <2>1. /\ stage[s] = "page" /\ UNCHANGED <<msg, id, next, fresh>> /\ id[s] \in broken'
        /\ stage' = [stage EXCEPT ![s] = IF Fits(msg[s].len) THEN "notify" ELSE "backoff"]
        /\ fine' = [fine EXCEPT ![s] = ~Fits(msg[s].len)]
    BY <1>5 DEF PageFails, Go
  <2>2. CASE t # s BY <1>1, <2>1, <2>2 DEF Still
  <2>3. CASE t = s
    <3>1. fine'[s] = ~Fits(msg[s].len) BY <1>1, <2>1
    <3>2. stage'[s] = IF Fits(msg[s].len) THEN "notify" ELSE "backoff" BY <1>1, <2>1
    <3>3. Fits(msg[s].len) => ~fine'[s] BY <3>1
    <3> QED BY <2>1, <2>3, <3>2, <3>3 DEF GoesOn
  <2> QED BY <2>1, <2>2, <2>3
<1>6. ASSUME NEW s \in Senders, Backoff(s) PROVE (Still(t) \/ GoesOn(t)) /\ fresh' = fresh
  BY <1>1, <1>6 DEF Backoff, Go, Still, GoesOn
<1>7. ASSUME NEW s \in Senders, Notify(s) PROVE (Still(t) \/ GoesOn(t)) /\ fresh' = fresh
  <2> DEFINE last == Fits(msg[s].len) \/ next[s] + 1 = Chunks(msg[s].len, msg[s].header)
  <2>1. /\ stage[s] = "notify" /\ UNCHANGED <<msg, id, fine, fresh>>
        /\ stage' = [stage EXCEPT ![s] = IF ~fine[s] THEN "again" ELSE IF last THEN "idle" ELSE "page"]
        /\ next' = IF last THEN next ELSE [next EXCEPT ![s] = @ + 1]
    BY <1>7 DEF Notify, Go
  <2>2. CASE t # s BY <1>1, <2>1, <2>2 DEF Still
  <2>3. CASE t = s
    <3>1. stage'[s] = IF ~fine[s] THEN "again" ELSE IF last THEN "idle" ELSE "page" BY <1>1, <2>1
    <3>2. ~last => next'[s] = next[s] + 1 BY <1>1, <2>1
    <3> QED BY <2>1, <2>3, <3>1, <3>2 DEF GoesOn
  <2> QED BY <2>1, <2>2, <2>3
<1>8. ASSUME NEW s \in Senders, NotifyFails(s) PROVE (Still(t) \/ GoesOn(t)) /\ fresh' = fresh
  BY <1>1, <1>8 DEF NotifyFails, Go, Still, GoesOn
<1>9. ASSUME NEW s \in Senders, Die(s) PROVE (Still(t) \/ GoesOn(t)) /\ fresh' = fresh
  BY <1>1, <1>9 DEF Die, Still, GoesOn
<1>10. CASE UNCHANGED vars \/ (\E r \in Receivers : Join(r) \/ \E s \in Senders : Receive(r, s))
  <2>1. UNCHANGED <<stage, msg, id, next, fine, fresh>> BY <1>10 DEF vars, sender, Join, Receive
  <2> QED BY <2>1 DEF Still
<1> QED BY <1>2, <1>3, <1>4, <1>5, <1>6, <1>7, <1>8, <1>9, <1>10 DEF Next

\* Who collects an earlier attempt collected it before.
LEMMA JoinsLater ==
  ASSUME [Next]_vars, NEW owner \in Owners, NEW own \in Owners, Inv(owner), Same(owner, own), NothingBefore,
         NEW r \in Receivers
  PROVE  /\ joined'[r] = joined[r] \/ joined'[r] = fresh
         /\ \A k \in Given : Collects(own, r, k)' => Collects(owner, r, k)
<1>1. fresh \in Nat /\ joined \in [Receivers -> 0 .. MaxAttempts + 1]
  BY StreamAssumption, SMT DEF Inv, TypeOK
<1>2. joined' = joined \/ (\E t \in Receivers : joined' = [joined EXCEPT ![t] = fresh])
  BY DEF Next, vars, receiver, Send, SendPage, PageFails, Backoff, Notify, NotifyFails, Again, Die, Join, Receive
<1>3. joined'[r] = joined[r] \/ joined'[r] = fresh BY <1>1, <1>2
<1>4. \A k \in Given : ~ fresh <= k BY <1>1, SMT DEF Given
<1> QED BY <1>3, <1>4 DEF Collects, Same

LEMMA FirstStaysFirst ==
  ASSUME [Next]_vars, NEW owner \in Owners, Inv(owner), FirstIsFirst
  PROVE  FirstIsFirst'
<1>0. Given \subseteq Given' BY GivenStays
<1>1. fresh \in Nat BY StreamAssumption, SMT DEF Inv, TypeOK
<1>2. fresh' = fresh + 1 => fresh \in Given'
  <2>1. fresh \in 1 .. MaxAttempts + 1 BY DEF Inv, TypeOK
  <2> QED BY <2>1, StreamAssumption, SMT DEF Given
<1>3. ASSUME NEW s \in Senders
      PROVE  /\ Active(s)' \/ stage'[s] = "again" => msg'[s].first \in Given'
             /\ Active(s)' => msg'[s].first <= id'[s]
  <2>1. CASE Still(s) BY <1>0, <2>1 DEF Still, Active, FirstIsFirst
  <2>2. CASE Starts(s)
    <3>1. CASE msg'[s].first = fresh BY <1>1, <1>2, <2>2, <3>1, SMT DEF Starts
    <3>2. CASE stage[s] = "again" /\ msg'[s] = msg[s]
      <4>1. msg[s].first \in Given BY <3>2 DEF FirstIsFirst
      <4>2. msg[s].first <= fresh BY <1>1, <4>1, SMT DEF Given
      <4> QED BY <1>0, <2>2, <3>2, <4>1, <4>2 DEF Starts
    <3> QED BY <2>2, <3>1, <3>2 DEF Starts
  <2>3. CASE GoesOn(s)
    <3>1. msg'[s] = msg[s] /\ id'[s] = id[s] /\ (Active(s)' \/ stage'[s] = "again" => Active(s))
      BY <2>3 DEF GoesOn, Active
    <3> QED BY <1>0, <3>1 DEF FirstIsFirst
  <2> QED BY <2>1, <2>2, <2>3, SenderSteps
<1> QED BY <1>3 DEF FirstIsFirst

LEMMA FailedStaysBroken ==
  ASSUME [Next]_vars, NEW owner \in Owners, Inv(owner), FailedIsBroken
  PROVE  FailedIsBroken'
<1>1. broken \subseteq broken' BY BrokenStays
<1>2. ASSUME NEW s \in Senders, Active(s)', stage'[s] = "backoff" \/ ~fine'[s]
      PROVE  id'[s] \in broken'
  <2>1. CASE Still(s) BY <1>1, <1>2, <2>1 DEF Still, Active, FailedIsBroken
  <2>2. CASE Starts(s) BY <1>2, <2>2 DEF Starts
  <2>3. CASE GoesOn(s) BY <1>1, <1>2, <2>3 DEF GoesOn, Active, FailedIsBroken
  <2> QED BY <2>1, <2>2, <2>3, SenderSteps
<1> QED BY <1>2 DEF FailedIsBroken

LEMMA NothingStaysBefore ==
  ASSUME [Next]_vars, NEW owner \in Owners, Inv(owner), Inv(owner)' \/ TypeOK', NothingBefore
  PROVE  NothingBefore'
<1>1. fresh \in 1 .. MaxAttempts + 1 /\ joined \in [Receivers -> 0 .. MaxAttempts + 1] BY DEF Inv, TypeOK
<1>2. fresh' = fresh \/ fresh' = fresh + 1
  BY DEF Next, vars, sender, Send, Attempt, SendPage, PageFails, Backoff, Notify, NotifyFails, Again, Die, Join, Receive
<1>3. ASSUME NEW r \in Receivers
      PROVE  /\ joined'[r] <= fresh'
             /\ joined'[r] = 0 => DOMAIN allocs'[r] = {} /\ \A s \in Senders : wire'[r][s] = <<>>
  <2>1. joined'[r] = joined[r] \/ joined'[r] = fresh BY JoinsLater DEF Same
  <2>2. joined[r] <= fresh /\ joined[r] \in Nat BY <1>1, StreamAssumption, SMT DEF NothingBefore
  <2>3. joined'[r] <= fresh' BY <1>1, <1>2, <2>1, <2>2, StreamAssumption, SMT
  <2>4. ASSUME joined'[r] = 0 PROVE DOMAIN allocs'[r] = {} /\ \A s \in Senders : wire'[r][s] = <<>>
    <3>1. joined[r] = 0 BY <1>1, <2>1, <2>4, StreamAssumption, SMT
    <3>2. DOMAIN allocs[r] = {} /\ \A s \in Senders : wire[r][s] = <<>> BY <3>1 DEF NothingBefore
    <3>3. \A s \in Senders : ~Receive(r, s) BY <3>2 DEF Receive
    <3>4. allocs'[r] = allocs[r] BY <3>3, NoReceipt
    <3>5. ASSUME NEW s \in Senders PROVE wire'[r][s] = wire[r][s]
      <4>1. CASE \E t \in Senders : SendPage(t) \/ PageFails(t)
        <5>1. r \notin Subscribed BY <3>1 DEF Subscribed
        <5>2. PICK t \in Senders : \E targets \in SUBSET Subscribed : Publish(t, targets)
          BY <4>1 DEF SendPage, PageFails
        <5> QED BY <5>1, <5>2 DEF Publish
      <4>2. CASE \E t \in Receivers, u \in Senders : Receive(t, u)
        <5>1. PICK t \in Receivers, u \in Senders : Receive(t, u) BY <4>2
        <5>2. t # r BY <3>3, <5>1
        <5> QED BY <5>1, <5>2, ReceiveExtends
      <4>3. CASE /\ ~ \E t \in Senders : SendPage(t) \/ PageFails(t)
                 /\ ~ \E t \in Receivers, u \in Senders : Receive(t, u)
        BY <4>3 DEF Next, vars, Send, Backoff, Notify, NotifyFails, Again, Die, Join
      <4> QED BY <4>1, <4>2, <4>3
    <3> QED BY <3>2, <3>4, <3>5
  <2> QED BY <2>3, <2>4
<1> QED BY <1>3 DEF NothingBefore

LEMMA StaysItsMessage ==
  ASSUME [Next]_vars, NEW owner \in Owners, NEW own \in Owners, Inv(owner), Same(owner, own), Order(owner),
         IsItsMessage(owner)
  PROVE  IsItsMessage(own)'
<1> SUFFICES ASSUME NEW r \in Receivers
             PROVE  /\ \A d \in DOMAIN delivered'[r] : \A k \in {delivered'[r][d].attempt} \ {0} :
                         delivered'[r][d].message = Whole(own[k])
                    /\ \A k \in DOMAIN allocs'[r] : allocs'[r][k].merged # ChunksOf(own[k])
  BY DEF IsItsMessage
<1>1. \A d \in DOMAIN delivered[r] : \A k \in {delivered[r][d].attempt} \ {0} :
        delivered[r][d].message = Whole(own[k])
  BY DEF IsItsMessage, Order, Over, Same
<1>2. \A k \in DOMAIN allocs[r] : allocs[r][k].merged # ChunksOf(own[k])
  BY DEF IsItsMessage, Inv, InPieces, Same
<1>3. \A d \in DOMAIN delivered[r] : d \in DOMAIN delivered'[r] /\ delivered'[r][d] = delivered[r][d]
  BY CompletedStays
<1>4. CASE ~ \E s \in Senders : Receive(r, s) BY <1>1, <1>2, <1>4, NoReceipt
<1>5. ASSUME NEW s \in Senders, Receive(r, s)
      PROVE  /\ \A d \in DOMAIN delivered'[r] : \A k \in {delivered'[r][d].attempt} \ {0} :
                  delivered'[r][d].message = Whole(own[k])
             /\ \A k \in DOMAIN allocs'[r] : allocs'[r][k].merged # ChunksOf(own[k])
  <2>1. CASE allocs'[r] = allocs[r] /\ delivered'[r] = delivered[r] BY <1>1, <1>2, <2>1
  <2>2. ASSUME allocs'[r] = allocs[r], NEW new, new.attempt = 0,
               delivered' = [delivered EXCEPT ![r] = Append(@, new)]
        PROVE  /\ \A d \in DOMAIN delivered'[r] : \A k \in {delivered'[r][d].attempt} \ {0} :
                    delivered'[r][d].message = Whole(own[k])
               /\ \A k \in DOMAIN allocs'[r] : allocs'[r][k].merged # ChunksOf(own[k])
    <3>1. \E d \in DOMAIN delivered'[r] :
             /\ delivered'[r][d] = new
             /\ \A e \in DOMAIN delivered'[r] : e # d => e \in DOMAIN delivered[r]
      BY <2>2, AppendedStays DEF Inv, Completed
    <3> QED BY <1>1, <1>2, <1>3, <2>2, <3>1
  <2>3. ASSUME s \in Wants[r], NEW n \in CutUp(owner, s), NEW i \in ChunksOf(owner[n]),
               Head(wire[r][s]) = ChunkPage(owner[n], i, n)
        PROVE  /\ \A d \in DOMAIN delivered'[r] : \A k \in {delivered'[r][d].attempt} \ {0} :
                    delivered'[r][d].message = Whole(own[k])
               /\ \A k \in DOMAIN allocs'[r] : allocs'[r][k].merged # ChunksOf(own[k])
    <3>1. own[n] = owner[n] BY DEF CutUp, Same
    <3>2. /\ \/ /\ n \in DOMAIN allocs'[r] /\ allocs'[r][n].merged # ChunksOf(owner[n])
                /\ UNCHANGED delivered
             \/ /\ DOMAIN allocs'[r] = DOMAIN allocs[r] \ {n}
                /\ \E d \in DOMAIN delivered'[r] :
                     /\ delivered'[r][d].attempt = n /\ delivered'[r][d].message = Whole(owner[n])
                     /\ \A e \in DOMAIN delivered'[r] : e # d => e \in DOMAIN delivered[r]
          /\ \A j \in (DOMAIN allocs[r] \union DOMAIN allocs'[r]) \ {n} :
               j \in DOMAIN allocs[r] /\ j \in DOMAIN allocs'[r] /\ allocs'[r][j] = allocs[r][j]
      BY <1>5, <2>3, ReceivedChunk
    <3>3. \A k \in DOMAIN allocs'[r] : allocs'[r][k].merged # ChunksOf(own[k])
      BY <1>2, <3>1, <3>2
    <3>4. \A d \in DOMAIN delivered'[r] : \A k \in {delivered'[r][d].attempt} \ {0} :
            delivered'[r][d].message = Whole(own[k])
      BY <1>1, <1>3, <3>1, <3>2
    <3> QED BY <3>3, <3>4
  <2> QED BY <1>5, <2>1, <2>2, <2>3, ReceivedAny
<1> QED BY <1>4, <1>5

\* A page that is sent reaches everyone that is there.
LEMMA PageArrives ==
  ASSUME NEW owner \in Owners, Inv(owner), NEW s \in Senders, SendPage(s), NEW r \in Receivers, joined[r] # 0
  PROVE  \E j \in DOMAIN wire'[r][s] : wire'[r][s][j] = Page(s)
<1> DEFINE q == wire[r][s]
<1>1. q \in Seq(PagesOf(owner, s)) BY DEF Inv, OnTheWire
<1>2. wire'[r][s] = Append(q, Page(s))
  <2>1. Publish(s, Subscribed) /\ r \in Subscribed BY DEF SendPage, Subscribed
  <2> QED BY <2>1 DEF Publish, Inv, OnTheWire
<1>3. Page(s) \in PagesOf(owner, s)
  <2>1. stage[s] = "page" BY DEF SendPage, Go
  <2> QED BY <2>1, PageSent
<1> HIDE DEF PagesOf, q
<1>4. /\ Append(q, Page(s)) \in Seq(PagesOf(owner, s)) /\ Len(Append(q, Page(s))) = Len(q) + 1
      /\ Append(q, Page(s))[Len(q) + 1] = Page(s)
  BY <1>1, <1>3, AppendProperties
<1>5. Len(q) \in Nat /\ DOMAIN Append(q, Page(s)) = 1 .. Len(q) + 1 BY <1>1, <1>4, LenProperties
<1>6. Len(q) + 1 \in DOMAIN Append(q, Page(s)) BY <1>5, SMT
<1> QED BY <1>2, <1>4, <1>6

LEMMA ReachedStays ==
  ASSUME [Next]_vars, NEW owner \in Owners, NEW own \in Owners, Inv(owner), Inv(own)', Same(owner, own),
         IsItsMessage(owner), NothingBefore, Reached(owner)
  PROVE  Reached(own)'
<1> SUFFICES ASSUME NEW s \in Senders, NEW r \in Receivers, NEW k, k = id'[s], NEW m, m = msg'[s],
                    Active(s)', Collects(own, r, k)'
             PROVE  IF Fits(m.len)
                      THEN stage'[s] = "notify" /\ fine'[s] => HasPlain(r, m)'
                      ELSE \A c \in ChunksOf(m) :
                             c < next'[s] \/ (c = next'[s] /\ stage'[s] = "notify") => HasChunk(own, r, k, c)'
  <2> SUFFICES ASSUME NEW s \in Senders, NEW r \in Receivers, Active(s)', Collects(own, r, id[s])'
               PROVE  (IF Fits(msg[s].len)
                         THEN stage[s] = "notify" /\ fine[s] => HasPlain(r, msg[s])
                         ELSE \A c \in ChunksOf(msg[s]) :
                                c < next[s] \/ (c = next[s] /\ stage[s] = "notify")
                                   => HasChunk(own, r, id[s], c))'
    BY DEF Reached
  <2> QED BY DEF Collects, HasPlain, HasChunk, HasMerged, HasCompleted, IsChunk
<1>1. next[s] \in Nat /\ fresh \notin Given BY StreamAssumption, SMT DEF Inv, TypeOK, Given
<1>2. CASE Starts(s)
  <2>1. stage'[s] = "page" /\ next'[s] = 0 BY <1>2 DEF Starts
  <2>2. m \in Messages BY DEF Inv, Sending
  <2>3. ~Fits(m.len) => \A c \in ChunksOf(m) : ~ c < 0
    <3>1. ~Fits(m.len) => Chunks(m.len, m.header) \in Nat BY <2>2, MessageFacts, Lossless
    <3> QED BY <3>1, SMT DEF ChunksOf
  <2> QED BY <2>1, <2>3
<1>3. CASE Active(s) /\ id'[s] = id[s] /\ msg'[s] = msg[s]
  <2>1. k \in Given /\ owner[k] = m /\ m \in Messages /\ m.from = s /\ own[k] = m
    BY <1>3 DEF Inv, Sending, Same
  <2>2. Collects(owner, r, k) BY <2>1, JoinsLater
  <2>3. joined[r] # 0 /\ s \in Wants[r] BY <2>1, <2>2 DEF Collects
  <2>4. IF Fits(m.len)
          THEN stage[s] = "notify" /\ fine[s] => HasPlain(r, m)
          ELSE \A c \in ChunksOf(m) :
                 c < next[s] \/ (c = next[s] /\ stage[s] = "notify") => HasChunk(owner, r, k, c)
    BY <1>3, <2>2 DEF Reached
  <2>5. CASE Fits(m.len)
    <3>1. HasPlain(r, m) => HasPlain(r, m)' BY <2>1, <2>3, <2>5, HasPlainStays
    <3>2. ASSUME stage'[s] = "notify", fine'[s] PROVE HasPlain(r, m)'
      <4>1. CASE Still(s) BY <2>4, <2>5, <3>1, <3>2, <4>1 DEF Still
      <4>2. CASE SendPage(s)
        <5>1. \E j \in DOMAIN wire'[r][s] : wire'[r][s][j] = Page(s) BY <2>3, <4>2, PageArrives
        <5>2. Page(s) = PlainPage(m) BY <1>3, <2>5 DEF Page
        <5> QED BY <2>1, <5>1, <5>2 DEF HasPlain
      <4>3. CASE GoesOn(s) /\ ~SendPage(s) BY <1>3, <2>5, <3>2, <4>3 DEF GoesOn
      <4> QED BY <1>2, <4>1, <4>2, <4>3, SenderSteps, <2>1, <1>1 DEF Starts
    <3> QED BY <2>5, <3>2
  <2>6. CASE ~Fits(m.len)
    <3> SUFFICES ASSUME NEW c \in ChunksOf(m), c < next'[s] \/ (c = next'[s] /\ stage'[s] = "notify")
                 PROVE  HasChunk(own, r, k, c)'
      BY <2>6
    <3>1. HasChunk(owner, r, k, c) => HasChunk(own, r, k, c)' BY <2>1, <2>3, HasChunkStays
    <3>2. c \in Nat
      <4>1. Chunks(m.len, m.header) \in Nat BY <2>1, <2>6, MessageFacts, Lossless
      <4> QED BY <4>1, SMT DEF ChunksOf
    <3>3. CASE c < next[s] \/ (c = next[s] /\ stage[s] = "notify") BY <2>4, <2>6, <3>1, <3>3
    <3>4. CASE ~(c < next[s] \/ (c = next[s] /\ stage[s] = "notify"))
      <4>1. CASE SendPage(s) /\ c = next[s]
        <5>1. PICK j \in DOMAIN wire'[r][s] : wire'[r][s][j] = Page(s) BY <2>3, <4>1, PageArrives
        <5>2. Page(s) = ChunkPage(m, c, k) BY <1>3, <2>6, <4>1 DEF Page
        <5>3. Page(s).id = k /\ Page(s).i = c /\ Page(s).num = Chunks(m.len, m.header) BY <5>2 DEF ChunkPage
        <5>4. Page(s).num # 0 BY <2>1, <2>6, <5>3, MessageFacts, Lossless
        <5> QED BY <2>1, <5>1, <5>3, <5>4 DEF HasChunk, IsChunk
      <4>2. ~Still(s) BY <3>4 DEF Still
      <4>3. GoesOn(s) BY <4>2, <1>1, <2>1, SenderSteps DEF Starts
      <4>4. SendPage(s) /\ next'[s] = next[s]
        <5>1. next'[s] = next[s] + 1 /\ c < next'[s] => c < next[s] \/ c = next[s]
          BY <1>1, <3>2, SMT
        <5> QED BY <1>3, <2>6, <3>4, <4>3, <5>1 DEF GoesOn, Active
      <4>5. c = next[s] BY <3>4, <4>4
      <4> QED BY <4>1, <4>4, <4>5
    <3> QED BY <3>3, <3>4
  <2> QED BY <2>5, <2>6
<1>4. Still(s) \/ GoesOn(s) => Active(s) /\ id'[s] = id[s] /\ msg'[s] = msg[s]
  BY DEF Still, GoesOn, Active
<1> QED BY <1>2, <1>3, <1>4, SenderSteps

\* With the last page of a message that went well, it is all there.
LEMMA LastOut ==
  ASSUME NEW owner \in Owners, Inv(owner), Reached(owner), NEW s \in Senders, stage[s] = "notify", fine[s],
         Fits(msg[s].len) \/ next[s] + 1 = Chunks(msg[s].len, msg[s].header)
  PROVE  /\ id[s] \in Given /\ owner[id[s]] = msg[s] /\ msg[s] \in Messages
         /\ WentOut(owner, id[s])
<1>1. Active(s) BY DEF Active
<1>2. id[s] \in Given /\ owner[id[s]] = msg[s] /\ msg[s] \in Messages BY <1>1 DEF Inv, Sending
<1>3. ASSUME NEW r \in Receivers, Collects(owner, r, id[s]) PROVE HasAll(owner, r, id[s])
  <2>1. CASE Fits(msg[s].len) BY <1>1, <1>2, <1>3, <2>1 DEF Reached, HasAll
  <2>2. CASE ~Fits(msg[s].len)
    <3>1. next[s] \in Nat /\ Chunks(msg[s].len, msg[s].header) \in Nat
      BY <1>2, <2>2, MessageFacts, Lossless DEF Inv, TypeOK
    <3>2. \A c \in ChunksOf(msg[s]) : c < next[s] \/ c = next[s] BY <2>2, <3>1, SMT DEF ChunksOf
    <3> QED BY <1>1, <1>2, <1>3, <2>2, <3>2 DEF Reached, HasAll
  <2> QED BY <2>1, <2>2
<1> QED BY <1>2, <1>3 DEF WentOut

LEMMA OutStays ==
  ASSUME [Next]_vars, NEW owner \in Owners, NEW own \in Owners, Inv(owner), Same(owner, own),
         IsItsMessage(owner), NothingBefore, NEW k \in Given, WentOut(owner, k)
  PROVE  WentOut(own, k)'
<1>1. ASSUME NEW r \in Receivers, Collects(own, r, k)' PROVE HasAll(own, r, k)'
  <2>1. Collects(owner, r, k) BY <1>1, JoinsLater
  <2>2. HasAll(owner, r, k) /\ owner[k].from \in Wants[r] BY <2>1 DEF WentOut, Collects
  <2> QED BY <2>2, HasAllStays
<1> QED BY <1>1 DEF WentOut

LEMMA ReturnedStays ==
  ASSUME [Next]_vars, NEW owner \in Owners, NEW own \in Owners, Inv(owner), Same(owner, own),
         IsItsMessage(owner), NothingBefore, FirstIsFirst, Reached(owner), ReturnedArrives(owner)
  PROVE  ReturnedArrives(own)'
<1>1. Given \subseteq Given' BY GivenStays
<1>2. ASSUME NEW m \in returned' \ returned
      PROVE  \E s \in Senders : /\ stage[s] = "notify" /\ fine[s] /\ m = msg[s]
                                /\ Fits(msg[s].len) \/ next[s] + 1 = Chunks(msg[s].len, msg[s].header)
  <2>1. PICK s \in Senders : Notify(s)
    BY <1>2 DEF Next, vars, history, Send, SendPage, PageFails, Backoff, NotifyFails, Again, Die, Join, Receive
  <2>2. stage'[s] = "idle" /\ m = msg[s] BY <1>2, <2>1 DEF Notify
  <2>3. stage[s] = "notify" /\ fine[s]
        /\ (Fits(msg[s].len) \/ next[s] + 1 = Chunks(msg[s].len, msg[s].header))
    BY <2>1, <2>2 DEF Notify, Go, Inv, TypeOK
  <2> QED BY <2>2, <2>3
<1>3. ASSUME NEW m \in returned'
      PROVE  \E k \in Given' : own[k] = m /\ m.first <= k /\ WentOut(own, k)'
  <2>1. CASE m \in returned
    <3>1. PICK k \in Given : owner[k] = m /\ m.first <= k /\ WentOut(owner, k) BY <2>1 DEF ReturnedArrives
    <3>2. WentOut(own, k)' BY <3>1, OutStays
    <3> QED BY <1>1, <3>1, <3>2 DEF Same
  <2>2. CASE m \notin returned
    <3>1. PICK s \in Senders : /\ stage[s] = "notify" /\ fine[s] /\ m = msg[s]
                               /\ Fits(msg[s].len) \/ next[s] + 1 = Chunks(msg[s].len, msg[s].header)
      BY <1>2, <2>2
    <3>2. id[s] \in Given /\ owner[id[s]] = m /\ WentOut(owner, id[s]) BY <3>1, LastOut
    <3>3. m.first <= id[s] BY <3>1 DEF FirstIsFirst, Active
    <3> PICK k \in Given : k = id[s] BY <3>2
    <3>4. WentOut(own, k)' BY <3>2, OutStays
    <3> QED BY <1>1, <3>2, <3>3, <3>4 DEF Same
  <2> QED BY <2>1, <2>2
<1> QED BY <1>3 DEF ReturnedArrives

LEMMA FinishedStays ==
  ASSUME [Next]_vars, NEW owner \in Owners, NEW own \in Owners, Inv(owner), Same(owner, own),
         IsItsMessage(owner), NothingBefore, FailedIsBroken, Reached(owner), Finished(owner)
  PROVE  Finished(own)'
<1>1. broken \subseteq broken' BY BrokenStays
<1>2. ASSUME NEW k \in Given
      PROVE  \/ k \in broken'
             \/ \E s \in Senders : id'[s] = k /\ stage'[s] \in {"page", "notify"}
             \/ WentOut(own, k)'
  <2>1. CASE k \in broken BY <1>1, <2>1
  <2>2. CASE WentOut(owner, k) BY <2>2, OutStays
  <2>3. ASSUME NEW s \in Senders, id[s] = k, stage[s] \in {"page", "notify"}
        PROVE  \/ k \in broken'
               \/ id'[s] = k /\ stage'[s] \in {"page", "notify"}
               \/ WentOut(owner, k)
    <3>1. CASE Still(s) BY <2>3, <3>1 DEF Still
    <3>2. CASE Starts(s) BY <2>3, <3>2 DEF Starts
    <3>3. CASE stage[s] = "notify" /\ ~fine[s] BY <1>1, <2>3, <3>3 DEF FailedIsBroken, Active
    <3>4. CASE /\ stage[s] = "notify" /\ fine[s]
               /\ Fits(msg[s].len) \/ next[s] + 1 = Chunks(msg[s].len, msg[s].header)
      BY <2>3, <3>4, LastOut
    <3>5. CASE GoesOn(s) /\ ~(stage[s] = "notify" /\ ~fine[s])
               /\ ~(/\ stage[s] = "notify" /\ fine[s]
                    /\ Fits(msg[s].len) \/ next[s] + 1 = Chunks(msg[s].len, msg[s].header))
      <4>1. stage'[s] = "backoff" => id[s] \in broken' BY <2>3, <3>5 DEF GoesOn
      <4> QED BY <2>3, <3>5, <4>1 DEF GoesOn
    <3> QED BY <3>1, <3>2, <3>3, <3>4, <3>5, SenderSteps
  <2>4. CASE \E s \in Senders : id[s] = k /\ stage[s] \in {"page", "notify"}
    <3>1. PICK s \in Senders : id[s] = k /\ stage[s] \in {"page", "notify"} BY <2>4
    <3>2. WentOut(owner, k) => WentOut(own, k)' BY OutStays
    <3> QED BY <2>3, <3>1, <3>2
  <2> QED BY <2>1, <2>2, <2>4 DEF Finished
<1>3. ASSUME NEW k \in Given' \ Given
      PROVE  \E s \in Senders : id'[s] = k /\ stage'[s] \in {"page", "notify"}
  <2>1. /\ fresh \in Nat
        /\ fresh' = fresh \/ (fresh' = fresh + 1 /\ \E u \in Senders : Starts(u))
    <3>1. fresh \in Nat BY StreamAssumption, SMT DEF Inv, TypeOK
    <3>2. CASE Senders = {}
      <4>1. UNCHANGED vars \/ \E r \in Receivers : Join(r) BY <3>2 DEF Next
      <4> QED BY <3>1, <4>1 DEF vars, sender, Join
    <3>3. CASE Senders # {}
      <4>1. PICK u \in Senders : TRUE BY <3>3
      <4> QED BY <3>1, <4>1, SenderSteps
    <3> QED BY <3>1, <3>2, <3>3
  <2>2. fresh' = fresh + 1 /\ k = fresh BY <1>3, <2>1, SMT DEF Given
  <2>3. fresh' # fresh BY <2>1, <2>2, SMT
  <2> QED BY <2>1, <2>2, <2>3 DEF Starts
<1>4. ASSUME NEW k \in Given'
      PROVE  \/ k \in broken'
             \/ \E s \in Senders : id'[s] = k /\ stage'[s] \in {"page", "notify"}
             \/ WentOut(own, k)'
  BY <1>2, <1>3
<1> QED BY <1>4 DEF Finished

LEMMA OrderInitially == ASSUME Init, NEW owner PROVE Order(owner)
<1>1. \A r \in Receivers : allocs[r] = <<>> /\ delivered[r] = <<>> BY DEF Init
<1>2. \A r \in Receivers, s \in Senders : wire[r][s] = <<>> BY DEF Init
<1>3. DOMAIN <<>> = {} BY SMT
<1> QED BY <1>1, <1>2, <1>3 DEF Order, InOrder, MergedBefore, Over, CompletedOnce

LEMMA ArrivalInitially == ASSUME Init, NEW owner PROVE Arrival(owner)
<1>1. \A s \in Senders : ~Active(s) /\ stage[s] # "again" BY DEF Init, Active
<1>2. /\ \A r \in Receivers : allocs[r] = <<>> /\ delivered[r] = <<>> /\ joined[r] = 0
      /\ \A r \in Receivers, s \in Senders : wire[r][s] = <<>>
  BY DEF Init
<1>3. DOMAIN <<>> = {} BY SMT
<1>4. Given = {} BY SMT DEF Init, Given
<1>5. 0 <= fresh BY SMT DEF Init
<1>6. FirstIsFirst /\ FailedIsBroken /\ Reached(owner) BY <1>1 DEF FirstIsFirst, FailedIsBroken, Reached
<1>7. NothingBefore /\ IsItsMessage(owner) BY <1>2, <1>3, <1>5 DEF NothingBefore, IsItsMessage
<1>8. ReturnedArrives(owner) /\ Finished(owner) BY <1>4 DEF Init, ReturnedArrives, Finished
<1> QED BY <1>6, <1>7, <1>8 DEF Arrival

LEMMA ArrivalStays ==
  ASSUME [Next]_vars, NEW owner \in Owners, NEW own \in Owners, Inv(owner), Inv(own)', Same(owner, own),
         Order(owner), Arrival(owner)
  PROVE  Arrival(own)'
<1>1. FirstIsFirst /\ FailedIsBroken /\ NothingBefore /\ IsItsMessage(owner)
      /\ Reached(owner) /\ ReturnedArrives(owner) /\ Finished(owner)
  BY DEF Arrival
<1>2. FirstIsFirst' BY <1>1, FirstStaysFirst
<1>3. FailedIsBroken' BY <1>1, FailedStaysBroken
<1>4. NothingBefore'
  <2>1. TypeOK' BY DEF Inv
  <2> QED BY <2>1, <1>1, NothingStaysBefore
<1>5. IsItsMessage(own)' BY <1>1, StaysItsMessage
<1>6. Reached(own)' BY <1>1, ReachedStays
<1>7. ReturnedArrives(own)' BY <1>1, ReturnedStays
<1>8. Finished(own)' BY <1>1, FinishedStays
<1> QED BY <1>2, <1>3, <1>4, <1>5, <1>6, <1>7, <1>8 DEF Arrival

\* Of a message that is all there, with nothing left to be read, no chunk is
\* missing: it was completed.
LEMMA AllThere ==
  ASSUME NEW owner \in Owners, Inv(owner), IsItsMessage(owner), NEW r \in Receivers, NEW k \in Given,
         ~Fits(owner[k].len), HasAll(owner, r, k),
         \A j \in DOMAIN wire[r][owner[k].from] : ~IsChunk(wire[r][owner[k].from][j], k)
  PROVE  \E d \in DOMAIN delivered[r] :
           delivered[r][d].attempt = k /\ delivered[r][d].message = Whole(owner[k])
<1>1. k # 0 BY SMT DEF Given
<1>2. HasCompleted(r, k)
  <2> SUFFICES ASSUME ~HasCompleted(r, k) PROVE FALSE
    OBVIOUS
  <2>1. \A c \in ChunksOf(owner[k]) : HasMerged(r, k, c) BY DEF HasAll, HasChunk
  <2>2. 0 \in ChunksOf(owner[k])
    <3>1. Chunks(owner[k].len, owner[k].header) \in Nat \ {0, 1}
      BY MessageFacts, Lossless DEF Inv, Sending
    <3> QED BY <3>1, SMT DEF ChunksOf
  <2>3. k \in DOMAIN allocs[r] /\ ChunksOf(owner[k]) \subseteq allocs[r][k].merged
    BY <2>1, <2>2 DEF HasMerged
  <2>4. allocs[r][k].merged \subseteq ChunksOf(owner[k]) BY <2>3 DEF Inv, InPieces, Piece
  <2>5. allocs[r][k].merged = ChunksOf(owner[k]) BY <2>3, <2>4
  <2>6. allocs[r][k].merged # ChunksOf(owner[k]) BY <2>3 DEF IsItsMessage
  <2> QED BY <2>5, <2>6
<1> QED BY <1>1, <1>2 DEF HasCompleted, IsItsMessage

StreamInv == \E owner \in Owners : Inv(owner) /\ Order(owner) /\ Arrival(owner)

LEMMA StreamInvHolds == StreamInv /\ [Next]_vars => StreamInv'
<1> SUFFICES ASSUME NEW owner \in Owners, Inv(owner), Order(owner), Arrival(owner), [Next]_vars
             PROVE  StreamInv'
  BY DEF StreamInv
<1>1. CASE \E r \in Receivers, s \in Senders : Receive(r, s)
  <2>1. PICK r \in Receivers, s \in Senders : Receive(r, s) BY <1>1
  <2>2. Inv(owner)' BY <2>1, ReceiveKeeps
  <2>3. Order(owner)' BY <2>1, <2>2, ReceiveOrder
  <2>4. Arrival(owner)' BY <2>2, ArrivalStays DEF Same
  <2> QED BY <2>2, <2>3, <2>4 DEF StreamInv
<1>2. CASE ~ \E r \in Receivers, s \in Senders : Receive(r, s)
  <2>1. UNCHANGED <<allocs, delivered>>
    BY <1>2 DEF Next, vars, receiver, Send, SendPage, PageFails, Backoff, Notify, NotifyFails, Again, Die, Join
  <2>2. PICK own \in Owners : Inv(own)' /\ Same(owner, own) BY Holds
  <2>3. Order(own)' BY <2>1, <2>2, OrderStays
  <2>4. Arrival(own)' BY <2>2, ArrivalStays
  <2> QED BY <2>2, <2>3, <2>4 DEF StreamInv
<1> QED BY <1>1, <1>2

-----------------------------------------------------------------------------

\* What the sender's and the receivers' state may be (src/skycurrent/src/backing/iox2.rs:353, 503).
THEOREM StreamTypeCorrect == Spec => []TypeOK
<1>1. Init => StreamInv BY Initially, OrderInitially, ArrivalInitially DEF StreamInv
<1>2. StreamInv /\ [Next]_vars => StreamInv' BY StreamInvHolds
<1>3. StreamInv => TypeOK BY DEF StreamInv, Inv
<1> QED BY <1>1, <1>2, <1>3, PTL DEF Spec

\* Whatever a receiver completes, from pages of its own or chunks in any
\* order, of any attempt and after any failure, is a message that a sender
\* it collects from has sent, to the byte (src/skycurrent/src/backing/iox2.rs:412).
THEOREM OnlyWholeMessages == Spec => []Intact
<1>1. Init => StreamInv BY Initially, OrderInitially, ArrivalInitially DEF StreamInv
<1>2. StreamInv /\ [Next]_vars => StreamInv' BY StreamInvHolds
<1>3. StreamInv => Intact
  <2> SUFFICES ASSUME NEW owner \in Owners, Inv(owner), NEW r \in Receivers, NEW i \in DOMAIN delivered[r]
               PROVE  \E s \in Wants[r] : \E first \in Attempts : \E size \in Sizes :
                        delivered[r][i].message = Whole([from |-> s, first |-> first, len |-> size[1], header |-> size[2]])
    BY DEF StreamInv, Intact
  <2>1. delivered[r] \in Seq(Wholes(r)) BY DEF Inv, Completed
  <2>2. delivered[r][i] \in Wholes(r)
    <3>1. i \in 1 .. Len(delivered[r]) BY <2>1, LenProperties
    <3> QED BY <2>1, <3>1, ElementOfSeq
  <2>3. PICK m \in Messages : m.from \in Wants[r] /\ delivered[r][i].message = Whole(m)
    BY <2>2 DEF Wholes
  <2>4. /\ m.first \in Attempts /\ <<m.len, m.header>> \in Sizes
        /\ m = [from |-> m.from, first |-> m.first, len |-> m.len, header |-> m.header]
    BY MessageFacts
  <2>5. PICK size \in Sizes : size[1] = m.len /\ size[2] = m.header BY <2>4
  <2> QED BY <2>3, <2>4, <2>5
<1> QED BY <1>1, <1>2, <1>3, PTL DEF Spec

\* A receiver completes an attempt once: what a sender repeats after a
\* failure, at most the last chunk of what was completed, is never a whole
\* message again (src/skycurrent/src/backing/iox2.rs:394).
THEOREM OncePerAttempt == Spec => []CompletedOnce
<1>1. Init => StreamInv BY Initially, OrderInitially, ArrivalInitially DEF StreamInv
<1>2. StreamInv /\ [Next]_vars => StreamInv' BY StreamInvHolds
<1>3. StreamInv => CompletedOnce BY DEF StreamInv, Order
<1> QED BY <1>1, <1>2, <1>3, PTL DEF Spec

\* What send_stream has returned for is with every receiver that was there
\* and collects it once it has read its pages, however the attempts before
\* failed (src/skycurrent/src/backing/iox2.rs:503).
THEOREM ReturnedMessagesArrive == Spec => []Arrives
<1>1. Init => StreamInv BY Initially, OrderInitially, ArrivalInitially DEF StreamInv
<1>2. StreamInv /\ [Next]_vars => StreamInv' BY StreamInvHolds
<1>3. StreamInv => Arrives
  <2> SUFFICES ASSUME NEW owner \in Owners, Inv(owner), Arrival(owner), NEW r \in Subscribed, NEW m \in returned,
                      m.from \in Wants[r], m.first >= joined[r], wire[r][m.from] = <<>>
               PROVE  \E i \in DOMAIN delivered[r] : delivered[r][i].message = Whole(m)
    BY DEF StreamInv, Arrives
  <2>1. r \in Receivers /\ joined[r] # 0 BY DEF Subscribed
  <2>2. PICK k \in Given : owner[k] = m /\ m.first <= k /\ WentOut(owner, k) BY DEF Arrival, ReturnedArrives
  <2>3. joined[r] <= k
    <3>1. joined[r] \in Nat BY <2>1, StreamAssumption, SMT DEF Inv, TypeOK
    <3>2. m.first \in Nat
      <4>1. m.first \in Attempts BY MessageFacts DEF Inv, TypeOK
      <4> QED BY <4>1, SMT DEF Attempts
    <3> QED BY <2>2, <3>1, <3>2, SMT DEF Given
  <2>4. HasAll(owner, r, k) BY <2>1, <2>2, <2>3 DEF WentOut, Collects
  <2>5. DOMAIN wire[r][m.from] = {}
    <3>1. DOMAIN <<>> = {} BY SMT
    <3> QED BY <3>1
  <2>6. CASE Fits(m.len) BY <2>2, <2>4, <2>5, <2>6 DEF HasAll, HasPlain
  <2>7. CASE ~Fits(m.len)
    <3>1. IsItsMessage(owner) BY DEF Arrival
    <3> QED BY <2>1, <2>2, <2>4, <2>5, <2>7, <3>1, AllThere
  <2> QED BY <2>6, <2>7
<1> QED BY <1>1, <1>2, <1>3, PTL DEF Spec

\* The allocations of a receiver are those of messages that it does not have
\* yet, or that it will never have for a reason: nothing of an attempt that
\* went through is left (src/skycurrent/src/backing/iox2.rs:424).
THEOREM NothingIsLeft == Spec => []KeptForAReason
<1>1. Init => StreamInv BY Initially, OrderInitially, ArrivalInitially DEF StreamInv
<1>2. StreamInv /\ [Next]_vars => StreamInv' BY StreamInvHolds
<1>3. StreamInv => KeptForAReason
  <2> SUFFICES ASSUME NEW owner \in Owners, Inv(owner), Order(owner), Arrival(owner), NEW r \in Receivers,
                      NEW k \in DOMAIN allocs[r], ~ k < joined[r], k \notin broken,
                      ~ \E s \in Senders : id[s] = k /\ stage[s] \in {"page", "notify"},
                      \A s \in Senders : \A i \in DOMAIN wire[r][s] : ~IsChunk(wire[r][s][i], k)
               PROVE  FALSE
    BY DEF StreamInv, KeptForAReason, IsChunk
  <2>1. k \in Given /\ owner[k].from \in Wants[r] /\ ~Fits(owner[k].len) BY DEF Inv, InPieces
  <2>2. joined[r] # 0 BY DEF Arrival, NothingBefore
  <2>3. joined[r] <= k
    <3>1. joined[r] \in Nat BY StreamAssumption, SMT DEF Inv, TypeOK
    <3> QED BY <2>1, <3>1, SMT DEF Given
  <2>4. HasAll(owner, r, k) BY <2>1, <2>2, <2>3 DEF Arrival, Finished, WentOut, Collects
  <2>5. owner[k].from \in Senders BY <2>1, MessageFacts DEF Inv, Sending
  <2>6. PICK d \in DOMAIN delivered[r] : delivered[r][d].attempt = k
    BY <2>1, <2>4, <2>5, AllThere DEF Arrival
  <2>7. k # 0 BY <2>1, SMT DEF Given
  <2> QED BY <2>6, <2>7 DEF Order, Over
<1> QED BY <1>1, <1>2, <1>3, PTL DEF Spec
=============================================================================
