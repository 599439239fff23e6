--------------------------------- MODULE Wire ---------------------------------
(***************************************************************************)
(* How PyMySQL puts bytes on the wire and takes them off: the frames of a  *)
(* packet and the length-encoded columns of a row.                         *)
(***************************************************************************)
EXTENDS Integers, Sequences, SequencesExt

CONSTANTS
    MAX_PACKET_LEN,     \* the most a frame carries (2^24 - 1)
    Numbers             \* frame numbers are taken modulo this (256)

ASSUME WireAssumption == MAX_PACKET_LEN \in Nat \ {0} /\ Numbers \in Nat \ {0}

----------------------------------------------------------------------------
(* Frames.                                                                 *)

Chunk(payload, i) ==
    SubSeq(payload, (i - 1) * MAX_PACKET_LEN + 1,
           IF i * MAX_PACKET_LEN < Len(payload) THEN i * MAX_PACKET_LEN ELSE Len(payload))

\* A slip: a packet that fills its last frame is taken for finished.
FramesFull(payload) ==
    [i \in 1..(Len(payload) + MAX_PACKET_LEN - 1) \div MAX_PACKET_LEN |->
        [number |-> (i - 1) % Numbers, data |-> Chunk(payload, i)]]

\* _execute_command: frames are full up to the last, which is not, and may be
\* empty.
Frames(payload) ==
    [i \in 1..Len(payload) \div MAX_PACKET_LEN + 1 |->
        [number |-> (i - 1) % Numbers, data |-> Chunk(payload, i)]]

\* _read_packet: frames are taken until one is not full; their numbers must go on
\* from next.  What is left stays for the next packet.
Whole(frames) == {n \in DOMAIN frames : Len(frames[n].data) < MAX_PACKET_LEN}

ReadPacket(frames, next) ==
    LET n == CHOOSE n \in Whole(frames) : \A k \in Whole(frames) : n <= k
        inOrder == \A i \in 1..n : frames[i].number = (next + i - 1) % Numbers
    IN  IF Whole(frames) = {} \/ ~inOrder
          THEN [ok |-> FALSE, payload |-> <<>>, rest |-> frames]
          ELSE [ok |-> TRUE,
                payload |-> FlattenSeq([i \in 1..n |-> frames[i].data]),
                rest |-> SubSeq(frames, n + 1, Len(frames))]

----------------------------------------------------------------------------
(* Columns.  A byte is a number; the bytes of a value itself are left out, *)
(* all that is kept of them is their count.                                *)

NULL == -1

Byte(i, k) == (i \div 256^k) % 256
Bytes(i, n) == [k \in 1..n |-> Byte(i, k - 1)]

\* _lenenc_int, and the lengths in a row; 64-bit lengths only as far as TLC counts.
Lenenc(i) ==
    CASE i < 251 -> <<i>>
      [] i >= 251 /\ i < 65536 -> <<252>> \o Bytes(i, 2)
      [] i >= 65536 /\ i < 16777216 -> <<253>> \o Bytes(i, 3)
      [] OTHER -> <<254>> \o Bytes(i, 4) \o <<0, 0, 0, 0>>

Column(length) == IF length = NULL THEN <<251>> ELSE Lenenc(length)

\* A row packet: the head of each column in turn, each followed by its value.
Row(lengths) == [i \in DOMAIN lengths |-> [head |-> Column(lengths[i]),
                                           value |-> IF lengths[i] = NULL THEN 0 ELSE lengths[i]]]

Size(row) == FoldLeft(LAMBDA n, c : n + Len(c.head) + c.value, 0, row)

FirstByte(row) == row[1].head[1]

\* A slip: any packet that begins with 254 is the end.
IsEofByFirstByte(row) == FirstByte(row) = 254

\* is_eof_packet, is_error_packet.
IsEof(row) == FirstByte(row) = 254 /\ Size(row) < 9
IsError(row) == FirstByte(row) = 255

\* Little-endian.
Unsigned(bytes) == FoldRight(LAMBDA b, n : b + 256 * n, bytes, 0)

\* read_length_encoded_integer: how many bytes follow, by the first.
ReadLength(head) ==
    CASE head[1] = 251 -> NULL
      [] head[1] < 251 -> head[1]
      [] head[1] = 252 -> Unsigned(SubSeq(head, 2, 3))
      [] head[1] = 253 -> Unsigned(SubSeq(head, 2, 4))
      [] OTHER -> Unsigned(SubSeq(head, 2, 9))
===============================================================================
