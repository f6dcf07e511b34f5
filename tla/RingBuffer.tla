----------------------------- MODULE RingBuffer ------------------------------
(***************************************************************************)
(* The ring buffer of optimization/zero_copy.rs.  A byte is a member of    *)
(* Bytes; fifo is what the buffer stands for.                              *)
(***************************************************************************)
EXTENDS Integers, Sequences

CONSTANTS RingCapacity, Bytes,
          MaxChunk      \* bound: the length of a slice handed to write or read

ASSUME RingAssumption == RingCapacity \in Nat \ {0} /\ MaxChunk \in Nat

VARIABLES ring, readPos, writePos, isFull,
          fifo          \* history: the bytes written and not yet read

ringVars == <<ring, readPos, writePos, isFull, fifo>>

RingInit ==
    /\ ring \in [0 .. RingCapacity - 1 -> {CHOOSE b \in Bytes : TRUE}]
    /\ readPos = 0 /\ writePos = 0 /\ isFull = FALSE /\ fifo = <<>>

AvailableWrite ==
    IF isFull THEN 0
    ELSE IF writePos >= readPos THEN RingCapacity - writePos + readPos
    ELSE readPos - writePos

AvailableRead ==
    IF isFull THEN RingCapacity
    ELSE IF writePos >= readPos THEN writePos - readPos
    ELSE RingCapacity - readPos + writePos

Least(a, b) == IF a < b THEN a ELSE b

(* write: up to the end of the buffer, then from its start *)
WriteBytes(data) ==
    LET n == Least(Len(data), AvailableWrite)
        first == Least(RingCapacity - writePos, n)
    IN  /\ n > 0
        /\ ring' = [i \in DOMAIN ring |->
                       IF i \in writePos .. writePos + first - 1 THEN data[i - writePos + 1]
                       ELSE IF i < n - first THEN data[first + i + 1]
                       ELSE ring[i]]
        /\ writePos' = (writePos + n) % RingCapacity
        /\ isFull' = (isFull \/ writePos' = readPos)
        /\ fifo' = fifo \o SubSeq(data, 1, n)
        /\ UNCHANGED readPos

(* The bytes that read copies out when n of them are there. *)
BytesRead(n) ==
    LET first == Least(RingCapacity - readPos, n)
    IN  [k \in 1 .. n |-> IF k <= first THEN ring[readPos + k - 1] ELSE ring[k - first - 1]]

ReadBytes_StaysFull(size) ==
    LET n == Least(size, AvailableRead)
    IN  /\ n > 0
        /\ readPos' = (readPos + n) % RingCapacity
        /\ fifo' = SubSeq(fifo, n + 1, Len(fifo))
        /\ UNCHANGED <<ring, writePos, isFull>>

ReadBytes(size) ==
    LET n == Least(size, AvailableRead)
    IN  /\ n > 0
        /\ readPos' = (readPos + n) % RingCapacity
        /\ isFull' = FALSE
        /\ fifo' = SubSeq(fifo, n + 1, Len(fifo))
        /\ UNCHANGED <<ring, writePos>>

(* read_zero_copy: one or two slices, one after the other *)
ReadZeroCopy ==
    LET part(from, to) == [k \in 1 .. to - from |-> ring[from + k - 1]]
    IN  IF AvailableRead = 0 THEN <<>>
        ELSE IF readPos < writePos THEN part(readPos, writePos)
        ELSE part(readPos, RingCapacity) \o part(0, writePos)

RingNext ==
    \/ \E n \in 0 .. MaxChunk : \E data \in [1 .. n -> Bytes] : WriteBytes(data)
    \/ \E size \in 0 .. MaxChunk : ReadBytes(size)

(* The buffer is a queue of at most RingCapacity bytes: whatever wraps      *)
(* around, both ways of reading give the bytes in the order in which they   *)
(* were written, none lost and none twice, also when it is exactly full.    *)
RingIsQueue ==
    /\ Len(fifo) = AvailableRead /\ AvailableRead + AvailableWrite = RingCapacity
    /\ BytesRead(AvailableRead) = fifo
    /\ ReadZeroCopy = fifo

RingSpec == RingInit /\ [][RingNext]_ringVars
=============================================================================
