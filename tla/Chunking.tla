------------------------------ MODULE Chunking ------------------------------
(***************************************************************************)
(* How a payload is cut into pages and how much of each page a receiver    *)
(* takes back (send_stream and try_recv_stream of iox2.rs).                *)
(*                                                                         *)
(* A payload of `len` bytes begins with a header of `header` bytes.  One   *)
(* that fits is a page of its own; else every page repeats the header and  *)
(* carries a chunk of the rest.  The receiver knows the header's size, the *)
(* number of chunks and the size of the last one modulo that of a chunk.   *)
(***************************************************************************)
EXTENDS Integers

CONSTANTS PageSize,    \* PRESET_N
          PlainMeta,   \* bytes before the payload in a page of its own, 3 * 8
          ChunkMeta    \* bytes before the header in a page with a chunk, 4 * 8

ASSUME ChunkingAssumption ==
  /\ PageSize \in Nat /\ PlainMeta \in Nat /\ ChunkMeta \in Nat
  /\ PlainMeta <= ChunkMeta /\ ChunkMeta < PageSize

(* The sender. *)

Fits(len) == len <= PageSize - PlainMeta

Accepted(len, header) ==
  /\ header <= len
  /\ Fits(len) \/ ChunkMeta + header < PageSize

ChunkSize(header) == PageSize - ChunkMeta - header

\* payload[header_size..].chunks(chunk_size).len()
Chunks(len, header) == (len - header + ChunkSize(header) - 1) \div ChunkSize(header)

Remainder(len, header) == (len - header) % ChunkSize(header)

\* Where chunk i of the payload begins and how long it is.
ChunkStart(header, i) == header + i * ChunkSize(header)

ChunkLength(len, header, i) ==
  IF len - ChunkStart(header, i) < ChunkSize(header) THEN len - ChunkStart(header, i)
                                                     ELSE ChunkSize(header)

(* The receiver. *)

\* Mutant: the remainder 0 is taken for a length.
LastLength_TakesRemainder(header, remainder) == remainder

\* A remainder of zero stands for a full chunk.
LastLength(header, remainder) == IF remainder = 0 THEN ChunkSize(header) ELSE remainder

TotalLength(header, chunks, remainder) ==
  header + (chunks - 1) * ChunkSize(header) + LastLength(header, remainder)

TakenLength(header, chunks, remainder, i) ==
  IF i + 1 = chunks THEN LastLength(header, remainder) ELSE ChunkSize(header)
=============================================================================
