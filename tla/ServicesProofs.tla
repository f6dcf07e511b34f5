---------------------------- MODULE ServicesProofs ----------------------------
(***************************************************************************)
(* Proofs about the L1 cache of the storage, the runtime optimisations and *)
(* the parallel EVM.                                                       *)
(***************************************************************************)
EXTENDS MCServices, SequenceTheorems, TLAPS

-----------------------------------------------------------------------------
(* RingBuffer, for any capacity and slices of any length *)

(* A position that may lie one round further. *)
At(p) == IF p < RingCapacity THEN p ELSE p - RingCapacity

(* Equal positions mean full or empty, and the bytes to read lie from       *)
(* readPos on, in the order of fifo.                                        *)
RingInv ==
    /\ readPos \in 0 .. RingCapacity - 1 /\ writePos \in 0 .. RingCapacity - 1
    /\ isFull \in BOOLEAN /\ (isFull => readPos = writePos)
    /\ DOMAIN ring = 0 .. RingCapacity - 1
    /\ fifo \in Seq(Bytes) /\ Len(fifo) = AvailableRead
    /\ \A k \in 1 .. AvailableRead : fifo[k] = ring[At(readPos + k - 1)]

LEMMA Wraps ==
    ASSUME NEW p \in 0 .. 2 * RingCapacity - 1
    PROVE  p % RingCapacity = At(p) /\ At(p) \in 0 .. RingCapacity - 1
<1> DEFINE C == RingCapacity
<1>1. C \in Nat /\ C > 0
  BY RingAssumption
<1>2. CASE p < C
  <2>1. p % C = p
    BY <1>1, <1>2, Z3
  <2> QED  BY <1>1, <1>2, <2>1 DEF At
<1>3. CASE p >= C
  <2>1. p % C = p - C
    BY <1>1, <1>3, Z3
  <2> QED  BY <1>1, <1>3, <2>1 DEF At
<1> QED  BY <1>1, <1>2, <1>3

LEMMA AtShift ==
    ASSUME NEW p \in 0 .. RingCapacity - 1, NEW a \in 0 .. RingCapacity,
           NEW b \in 0 .. RingCapacity, a + b <= RingCapacity
    PROVE  At(At(p + a) + b) = At(p + a + b)
BY RingAssumption DEF At

LEMMA AtRange ==
    ASSUME NEW p \in 0 .. RingCapacity - 1, NEW a \in 0 .. RingCapacity
    PROVE  At(p + a) \in 0 .. RingCapacity - 1
BY RingAssumption DEF At

(* What is left to read of a bytes from position p when n are taken.        *)
LEMMA AfterRead ==
    ASSUME NEW p \in 0 .. RingCapacity - 1, NEW a \in 0 .. RingCapacity, NEW n \in 1 .. a
    PROVE  LET q == At(p + n)
               w == At(p + a)
           IN  (IF w >= q THEN w - q ELSE RingCapacity - q + w) = a - n
BY RingAssumption DEF At

(* What is free and what can be read, together the capacity. *)
LEMMA Space ==
    ASSUME RingInv
    PROVE  /\ AvailableRead \in 0 .. RingCapacity
           /\ AvailableWrite = RingCapacity - AvailableRead
           /\ AvailableWrite > 0 => ~isFull
           /\ writePos = At(readPos + AvailableRead)
BY RingAssumption DEF RingInv, AvailableRead, AvailableWrite, At

LEMMA WriteStep ==
    ASSUME RingInv, NEW m \in Nat, NEW slice \in [1 .. m -> Bytes], WriteBytes(slice)
    PROVE  RingInv'
<1> DEFINE C == RingCapacity
           n == Least(Len(slice), AvailableWrite)
           first == Least(C - writePos, n)
<1>1. Len(slice) = m /\ slice \in Seq(Bytes)
  OBVIOUS
<1>2. /\ n \in 1 .. m /\ n <= AvailableWrite /\ ~isFull
      /\ first \in 1 .. n /\ first <= C - writePos /\ (first < n => first = C - writePos)
      /\ C \in Nat \ {0} /\ AvailableRead \in 0 .. C /\ n + AvailableRead <= C
      /\ writePos = At(readPos + AvailableRead)
  <2>1. n > 0
    BY DEF WriteBytes
  <2>2. C \in Nat \ {0} /\ AvailableRead \in 0 .. C /\ AvailableWrite = C - AvailableRead
        /\ writePos \in 0 .. C - 1 /\ writePos = At(readPos + AvailableRead)
        /\ (AvailableWrite > 0 => ~isFull)
    BY Space, RingAssumption DEF RingInv
  <2>3. n \in 1 .. m /\ n <= AvailableWrite
    BY <1>1, <2>1, <2>2 DEF Least
  <2> HIDE DEF n
  <2>4. first \in 1 .. n /\ first <= C - writePos /\ (first < n => first = C - writePos)
    BY <2>2, <2>3 DEF Least
  <2> QED  BY <2>2, <2>3, <2>4
<1>a. /\ writePos' = (writePos + n) % C /\ readPos' = readPos
      /\ isFull' = (isFull \/ writePos' = readPos')
      /\ fifo' = fifo \o SubSeq(slice, 1, n)
      /\ ring' = [i \in DOMAIN ring |->
            IF i \in writePos .. writePos + first - 1 THEN slice[i - writePos + 1]
            ELSE IF i < n - first THEN slice[first + i + 1] ELSE ring[i]]
  BY DEF WriteBytes
<1> HIDE DEF n, first
<1>p. readPos \in 0 .. C - 1 /\ writePos \in 0 .. C - 1
  BY DEF RingInv
<1>b. /\ DOMAIN ring = 0 .. C - 1
      /\ fifo \in Seq(Bytes) /\ Len(fifo) = AvailableRead
      /\ \A k \in 1 .. AvailableRead : fifo[k] = ring[At(readPos + k - 1)]
  BY DEF RingInv
<1>3. /\ writePos' = At(writePos + n) /\ writePos' \in 0 .. C - 1
      /\ readPos' = readPos /\ isFull' = (writePos' = readPos)
  <2>1. writePos + n \in 0 .. 2 * C - 1
    BY <1>2, <1>p
  <2> QED  BY <1>2, <1>a, <2>1, Wraps
<1>4. AvailableRead' = AvailableRead + n
  <2>1. AvailableRead = IF writePos >= readPos THEN writePos - readPos ELSE C - readPos + writePos
    BY <1>2 DEF AvailableRead
  <2>2. AvailableRead' = IF writePos' = readPos THEN C
                         ELSE IF writePos' >= readPos THEN writePos' - readPos
                         ELSE C - readPos + writePos'
    BY <1>3 DEF AvailableRead
  <2> QED  BY <1>2, <1>3, <1>p, <2>1, <2>2 DEF At
<1>5. /\ fifo' \in Seq(Bytes) /\ Len(fifo') = AvailableRead + n
      /\ \A k \in 1 .. AvailableRead : fifo'[k] = fifo[k]
      /\ \A k \in AvailableRead + 1 .. AvailableRead + n : fifo'[k] = slice[k - AvailableRead]
  <2>2. /\ SubSeq(slice, 1, n) \in Seq(Bytes) /\ Len(SubSeq(slice, 1, n)) = n
        /\ \A j \in 1 .. n : SubSeq(slice, 1, n)[j] = slice[j]
    BY <1>1, <1>2
  <2> DEFINE new == SubSeq(slice, 1, n)
  <2> HIDE DEF new
  <2>3. new \in Seq(Bytes) /\ Len(new) = n /\ fifo' = fifo \o new
    BY <1>a, <2>2 DEF new
  <2>4. fifo' \in Seq(Bytes) /\ Len(fifo') = AvailableRead + n
    <3>1. fifo \in Seq(Bytes) /\ Len(fifo) = AvailableRead
      BY <1>b
    <3>2. fifo \o new \in Seq(Bytes) /\ Len(fifo \o new) = Len(fifo) + Len(new)
      BY <2>3, <3>1, ConcatProperties
    <3> QED  BY <2>3, <3>1, <3>2
  <2>5. \A k \in 1 .. AvailableRead : fifo'[k] = fifo[k]
    BY <1>2, <1>b, <2>3
  <2>6. \A k \in AvailableRead + 1 .. AvailableRead + n : fifo'[k] = new[k - AvailableRead]
    BY <1>2, <1>b, <2>3
  <2>7. \A k \in AvailableRead + 1 .. AvailableRead + n : k - AvailableRead \in 1 .. n
    BY <1>2
  <2> QED  BY <2>2, <2>4, <2>5, <2>6, <2>7 DEF new
<1>6. /\ DOMAIN ring' = 0 .. C - 1
      /\ \A i \in 0 .. C - 1 :
            ring'[i] = IF i \in writePos .. writePos + first - 1 THEN slice[i - writePos + 1]
                       ELSE IF i < n - first THEN slice[first + i + 1] ELSE ring[i]
  BY <1>a, <1>b
<1>7. ASSUME NEW k \in 1 .. AvailableRead' PROVE fifo'[k] = ring'[At(readPos' + k - 1)]
  <2> DEFINE p == At(readPos + k - 1)
  <2>1. p \in 0 .. C - 1
    <3>1. k - 1 \in 0 .. C /\ readPos + (k - 1) = readPos + k - 1
      BY <1>2, <1>4, <1>p
    <3> QED  BY <1>p, <3>1, AtRange
  <2>2. CASE k <= AvailableRead
    <3>1. p \notin writePos .. writePos + first - 1 /\ ~(p < n - first)
      BY <1>2, <1>p, <2>2, <2>1 DEF At
    <3>2. k \in 1 .. AvailableRead
      BY <1>2, <1>4, <2>2
    <3>3. fifo'[k] = ring[p]
      BY <1>5, <1>b, <3>2
    <3> QED  BY <1>3, <1>6, <2>1, <3>1, <3>3
  <2>3. CASE k > AvailableRead
    <3> DEFINE j == k - AvailableRead
    <3>1. j \in 1 .. n /\ fifo'[k] = slice[j]
      <4>1. k \in AvailableRead + 1 .. AvailableRead + n /\ j \in 1 .. n
        BY <1>2, <1>4, <2>3
      <4> QED  BY <1>5, <4>1
    <3> HIDE DEF j
    <3>2. p = At(writePos + j - 1)
      <4>1. /\ AvailableRead \in 0 .. C /\ j - 1 \in 0 .. C /\ AvailableRead + (j - 1) <= C
            /\ writePos + j - 1 = writePos + (j - 1)
            /\ readPos + AvailableRead + (j - 1) = readPos + k - 1
        BY <1>2, <1>p, <3>1 DEF j
      <4>2. At(At(readPos + AvailableRead) + (j - 1)) = At(readPos + AvailableRead + (j - 1))
        BY <1>p, <4>1, AtShift
      <4> QED  BY <1>2, <4>1, <4>2
    <3>3. CASE j <= first
      <4>1. p = writePos + j - 1 /\ p \in writePos .. writePos + first - 1
        BY <1>2, <1>p, <3>1, <3>2, <3>3 DEF At
      <4>2. p - writePos + 1 = j
        BY <1>p, <4>1, <3>1
      <4> QED  BY <1>3, <1>6, <2>1, <3>1, <4>1, <4>2
    <3>4. CASE j > first
      <4>1. /\ p = j - first - 1 /\ p < n - first /\ first + p + 1 = j
            /\ p \notin writePos .. writePos + first - 1
        BY <1>2, <1>p, <3>1, <3>2, <3>4 DEF At
      <4> QED  BY <1>3, <1>6, <2>1, <3>1, <4>1
    <3> QED  BY <1>2, <3>1, <3>3, <3>4
  <2> QED  BY <1>2, <1>4, <2>2, <2>3
<1>8. readPos' \in 0 .. C - 1 /\ isFull' \in BOOLEAN /\ (isFull' => readPos' = writePos')
  BY <1>3 DEF RingInv
<1> QED  BY <1>3, <1>4, <1>5, <1>6, <1>7, <1>8 DEF RingInv

LEMMA ReadStep ==
    ASSUME RingInv, NEW most \in Nat, ReadBytes(most)
    PROVE  RingInv'
<1> DEFINE C == RingCapacity
           n == Least(most, AvailableRead)
<1>1. /\ n \in 1 .. AvailableRead /\ AvailableRead \in 0 .. C /\ C \in Nat \ {0}
      /\ writePos = At(readPos + AvailableRead)
  BY Space, RingAssumption DEF ReadBytes, Least
<1>a. readPos' = (readPos + n) % C /\ writePos' = writePos /\ ring' = ring /\ isFull' = FALSE
      /\ fifo' = SubSeq(fifo, n + 1, Len(fifo))
  BY DEF ReadBytes
<1> HIDE DEF n
<1>p. readPos \in 0 .. C - 1 /\ writePos \in 0 .. C - 1
      /\ isFull \in BOOLEAN /\ (isFull => readPos = writePos)
  BY DEF RingInv
<1>b. /\ DOMAIN ring = 0 .. C - 1
      /\ fifo \in Seq(Bytes) /\ Len(fifo) = AvailableRead
      /\ \A k \in 1 .. AvailableRead : fifo[k] = ring[At(readPos + k - 1)]
  BY DEF RingInv
<1>2. /\ readPos' = At(readPos + n) /\ readPos' \in 0 .. C - 1
      /\ writePos' = writePos /\ ring' = ring /\ isFull' = FALSE
  <2>1. readPos + n \in 0 .. 2 * C - 1
    BY <1>1, <1>p
  <2> QED  BY <1>a, <2>1, Wraps
<1>3. AvailableRead' = AvailableRead - n
  <2>1. AvailableRead' = IF writePos >= readPos' THEN writePos - readPos' ELSE C - readPos' + writePos
    BY <1>2 DEF AvailableRead
  <2> QED  BY <1>1, <1>2, <1>p, <2>1, AfterRead
<1>4. /\ fifo' \in Seq(Bytes) /\ Len(fifo') = AvailableRead - n
      /\ \A k \in 1 .. AvailableRead - n : fifo'[k] = fifo[n + k]
  BY <1>1, <1>a, <1>b
<1>5. ASSUME NEW k \in 1 .. AvailableRead' PROVE fifo'[k] = ring'[At(readPos' + k - 1)]
  <2>1. n + k \in 1 .. AvailableRead /\ fifo'[k] = fifo[n + k]
    BY <1>1, <1>3, <1>4
  <2>2. At(readPos + (n + k) - 1) = At(readPos' + k - 1)
    BY <1>1, <1>2, <1>p, <1>3 DEF At
  <2>3. fifo[n + k] = ring[At(readPos + (n + k) - 1)]
    BY <1>b, <2>1
  <2> QED  BY <1>2, <2>1, <2>2, <2>3
<1>6. writePos' \in 0 .. C - 1 /\ DOMAIN ring' = 0 .. C - 1
  BY <1>2, <1>p, <1>b
<1> QED  BY <1>2, <1>3, <1>4, <1>5, <1>6 DEF RingInv

LEMMA RingStart == RingInit => RingInv
BY RingAssumption DEF RingInit, RingInv, AvailableRead

LEMMA RingStep == ASSUME RingInv, [RingNext]_ringVars PROVE RingInv'
<1>1. ASSUME NEW m \in 0 .. MaxChunk, NEW slice \in [1 .. m -> Bytes], WriteBytes(slice) PROVE RingInv'
  BY <1>1, RingAssumption, WriteStep
<1>2. ASSUME NEW most \in 0 .. MaxChunk, ReadBytes(most) PROVE RingInv'
  BY <1>2, RingAssumption, ReadStep
<1>3. CASE UNCHANGED ringVars
  BY <1>3 DEF ringVars, RingInv, AvailableRead
<1> QED  BY <1>1, <1>2, <1>3 DEF RingNext

LEMMA RingGives == ASSUME RingInv PROVE RingIsQueue
<1> DEFINE C == RingCapacity
           r == AvailableRead
           part(from, to) == [k \in 1 .. to - from |-> ring[from + k - 1]]
<1>1. /\ C \in Nat \ {0} /\ r \in 0 .. C /\ AvailableWrite = C - r
      /\ readPos \in 0 .. C - 1 /\ writePos \in 0 .. C - 1
      /\ fifo \in Seq(Bytes) /\ Len(fifo) = r
      /\ \A k \in 1 .. r : fifo[k] = ring[At(readPos + k - 1)]
  BY Space, RingAssumption DEF RingInv
<1>2. BytesRead(r) = fifo
  <2> DEFINE first == Least(C - readPos, r)
  <2>1. ASSUME NEW k \in 1 .. r
        PROVE  At(readPos + k - 1) = IF k <= first THEN readPos + k - 1 ELSE k - first - 1
    BY <1>1 DEF Least, At
  <2>2. BytesRead(r) = [k \in 1 .. r |-> fifo[k]]
    BY <1>1, <2>1 DEF BytesRead
  <2> QED  BY <1>1, <2>2
<1>3. ReadZeroCopy = fifo
  <2>1. CASE r = 0
    BY <1>1, <2>1 DEF ReadZeroCopy
  <2>2. CASE r # 0 /\ readPos < writePos
    <3>1. r = writePos - readPos
      BY <1>1, <2>2 DEF AvailableRead, RingInv
    <3>2. ReadZeroCopy = part(readPos, writePos)
      BY <2>2 DEF ReadZeroCopy
    <3>3. part(readPos, writePos) = [k \in 1 .. r |-> fifo[k]]
      BY <1>1, <3>1 DEF At
    <3> QED  BY <1>1, <3>2, <3>3
  <2>3. CASE r # 0 /\ ~(readPos < writePos)
    <3>1. r = (C - readPos) + writePos
      BY <1>1, <2>3 DEF AvailableRead, RingInv
    <3>2. ReadZeroCopy = part(readPos, C) \o part(0, writePos)
      BY <2>3 DEF ReadZeroCopy
    <3>3. ASSUME NEW k \in 1 .. r
          PROVE  fifo[k] = IF k <= C - readPos THEN ring[readPos + k - 1]
                           ELSE ring[k - (C - readPos) - 1]
      <4>1. At(readPos + k - 1) = IF k <= C - readPos THEN readPos + k - 1 ELSE k - (C - readPos) - 1
        BY <1>1 DEF At
      <4>2. fifo[k] = ring[At(readPos + k - 1)]
        BY <1>1
      <4> QED  BY <4>1, <4>2
    <3>4. Len(part(readPos, C)) = C - readPos /\ Len(part(0, writePos)) = writePos
      BY <1>1
    <3>5. part(readPos, C) \o part(0, writePos) = [k \in 1 .. r |-> fifo[k]]
      BY <1>1, <3>1, <3>3, <3>4
    <3>6. [k \in 1 .. r |-> fifo[k]] = fifo
      BY <1>1
    <3> QED  BY <3>2, <3>5, <3>6
  <2> QED  BY <2>1, <2>2, <2>3
<1> QED  BY <1>1, <1>2, <1>3 DEF RingIsQueue

(* BufferIsQueue: the ring buffer of zero_copy.rs is a queue of at most its *)
(* capacity, for every capacity and every sequence of writes and reads.     *)
THEOREM BufferIsQueue == RingSpec => []RingIsQueue
BY RingStart, RingStep, RingGives, PTL DEF RingSpec

-----------------------------------------------------------------------------
(* The allocators, for blocks, chunks, requests and pools of any size *)

Offsets == 0 .. BlocksPerSlab - 1

(* A list of the offsets outside busy, none twice. *)
FreeList(f, busy) ==
    /\ f \in Seq(Nat)
    /\ \A j, k \in 1 .. Len(f) : f[j] = f[k] => j = k
    /\ \A k \in 1 .. Len(f) : f[k] \in Offsets /\ f[k] \notin busy
    /\ \A o \in Offsets : o \in busy \/ \E k \in 1 .. Len(f) : f[k] = o

LEMMA TakeLast ==
    ASSUME NEW f, NEW busy, FreeList(f, busy), f # <<>>
    PROVE  /\ f[Len(f)] \in Offsets \ busy
           /\ FreeList(SubSeq(f, 1, Len(f) - 1), busy \cup {f[Len(f)]})
           /\ Len(SubSeq(f, 1, Len(f) - 1)) = Len(f) - 1
<1> DEFINE n == Len(f)
           g == SubSeq(f, 1, n - 1)
<1>1. /\ f \in Seq(Nat) /\ n \in Nat \ {0} /\ \A k \in 1 .. n : f[k] \in Nat
      /\ \A j, k \in 1 .. n : f[j] = f[k] => j = k
      /\ \A k \in 1 .. n : f[k] \in Offsets /\ f[k] \notin busy
      /\ \A o \in Offsets : o \in busy \/ \E k \in 1 .. n : f[k] = o
  BY DEF FreeList
<1>2. 1 \in Int /\ n - 1 \in Int /\ \A k \in 1 .. n - 1 : f[k] \in Nat
  BY <1>1
<1>3. /\ g \in Seq(Nat) /\ Len(g) = IF 1 <= n - 1 THEN n - 1 - 1 + 1 ELSE 0
      /\ \A k \in 1 .. n - 1 - 1 + 1 : g[k] = f[1 + k - 1]
  <2> HIDE DEF n
  <2> QED  BY <1>2, SubSeqProperties
<1> HIDE DEF n, g
<1>4. g \in Seq(Nat) /\ Len(g) = n - 1 /\ \A k \in 1 .. n - 1 : g[k] = f[k] /\ k \in 1 .. n /\ k # n
  BY <1>1, <1>3
<1>5. \A k \in 1 .. n : k = n \/ k \in 1 .. n - 1
  BY <1>1
<1>6. n \in 1 .. n
  BY <1>1
<1>7. FreeList(g, busy \cup {f[n]})
  <2>1. \A j, k \in 1 .. n - 1 : g[j] = g[k] => j = k
    BY <1>1, <1>4
  <2>2. \A k \in 1 .. n - 1 : g[k] \in Offsets /\ g[k] \notin busy \cup {f[n]}
    BY <1>1, <1>4, <1>6
  <2>3. \A o \in Offsets : o \in busy \cup {f[n]} \/ \E k \in 1 .. n - 1 : g[k] = o
    BY <1>1, <1>4, <1>5
  <2> QED  BY <1>4, <2>1, <2>2, <2>3 DEF FreeList
<1>8. f[n] \in Offsets \ busy
  BY <1>1, <1>6
<1> QED  BY <1>4, <1>7, <1>8 DEF g, n

LEMMA PutBack ==
    ASSUME NEW f, NEW busy, FreeList(f, busy), NEW x \in Offsets \cap busy
    PROVE  FreeList(Append(f, x), busy \ {x}) /\ Len(Append(f, x)) = Len(f) + 1
<1> DEFINE n == Len(f)
           g == Append(f, x)
<1>1. /\ f \in Seq(Nat) /\ n \in Nat /\ x \in Nat
      /\ \A j, k \in 1 .. n : f[j] = f[k] => j = k
      /\ \A k \in 1 .. n : f[k] \in Offsets /\ f[k] \notin busy
      /\ \A o \in Offsets : o \in busy \/ \E k \in 1 .. n : f[k] = o
  BY MemoryAssumption DEF FreeList, Offsets
<1>2. g \in Seq(Nat) /\ Len(g) = n + 1 /\ g[n + 1] = x /\ \A k \in 1 .. n : g[k] = f[k]
  BY <1>1, AppendProperties
<1> HIDE DEF n, g
<1>3. \A k \in 1 .. n + 1 : k = n + 1 \/ k \in 1 .. n
  BY <1>1
<1>4. n + 1 \in 1 .. n + 1 /\ \A k \in 1 .. n : k \in 1 .. n + 1
  BY <1>1
<1>5. \A k \in 1 .. n : f[k] # x
  BY <1>1
<1>6. \A j, k \in 1 .. n + 1 : g[j] = g[k] => j = k
  BY <1>1, <1>2, <1>3, <1>5
<1>7. \A k \in 1 .. n + 1 : g[k] \in Offsets /\ g[k] \notin busy \ {x}
  BY <1>1, <1>2, <1>3
<1>8. \A o \in Offsets : o \in busy \ {x} \/ \E k \in 1 .. n + 1 : g[k] = o
  BY <1>1, <1>2, <1>4
<1>9. FreeList(g, busy \ {x})
  BY <1>2, <1>6, <1>7, <1>8 DEF FreeList
<1> QED  BY <1>2, <1>9 DEF g, n

LEMMA FreshList == FreeList(FreshFreeList, {0}) /\ Len(FreshFreeList) = BlocksPerSlab - 1
<1> DEFINE B == BlocksPerSlab
           f == FreshFreeList
<1>1. B \in Nat \ {0}
  BY MemoryAssumption
<1>2. f \in Seq(Nat) /\ Len(f) = B - 1 /\ \A k \in 1 .. B - 1 : f[k] = B - k
  BY <1>1 DEF FreshFreeList
<1> HIDE DEF f
<1>3. \A j, k \in 1 .. B - 1 : f[j] = f[k] => j = k
  BY <1>1, <1>2
<1>4. \A k \in 1 .. B - 1 : f[k] \in Offsets /\ f[k] \notin {0}
  BY <1>1, <1>2 DEF Offsets
<1>5. ASSUME NEW o \in Offsets, o # 0 PROVE \E k \in 1 .. B - 1 : f[k] = o
  <2>1. B - o \in 1 .. B - 1 /\ f[B - o] = o
    BY <1>1, <1>2, <1>5 DEF Offsets
  <2> QED  BY <2>1
<1>6. FreeList(f, {0})
  BY <1>2, <1>3, <1>4, <1>5 DEF FreeList
<1> QED  BY <1>2, <1>6 DEF f

(* How many blocks of a slab are free and how many are not. *)
FreeOf(f) == {f[k] : k \in 1 .. Len(f)}

LEMMA FreeCount ==
    ASSUME NEW f, NEW busy \in SUBSET Offsets, FreeList(f, busy)
    PROVE  /\ FreeOf(f) \cap busy = {}
           /\ FreeOf(f) \cup busy = Offsets
           /\ Cardinality(FreeOf(f)) = Len(f)
           /\ Cardinality(busy) = BlocksPerSlab - Len(f)
<1> DEFINE free == {f[k] : k \in 1 .. Len(f)}
           n == Len(f)
           g == [k \in 1 .. n |-> f[k]]
<1>1. /\ n \in Nat
      /\ \A j, k \in 1 .. n : f[j] = f[k] => j = k
      /\ \A k \in 1 .. n : f[k] \in Offsets /\ f[k] \notin busy
      /\ \A o \in Offsets : o \in busy \/ \E k \in 1 .. n : f[k] = o
  BY DEF FreeList
<1>2. free \cap busy = {} /\ free \cup busy = Offsets
  <2> HIDE DEF n
  <2>1. free = {f[k] : k \in 1 .. n}
    BY DEF n
  <2> HIDE DEF free
  <2> QED  BY <1>1, <2>1
<1>3. g \in Bijection(1 .. n, free)
  <2>1. g \in [1 .. n -> free] /\ (\A x \in free : \E k \in 1 .. n : g[k] = x)
        /\ \A j, k \in 1 .. n : g[j] = g[k] => j = k
    <3>1. \A k \in 1 .. n : f[k] \in free
      OBVIOUS
    <3>2. \A x \in free : \E k \in 1 .. n : f[k] = x
      OBVIOUS
    <3> HIDE DEF free, n
    <3> QED  BY <1>1, <3>1, <3>2
  <2> HIDE DEF g, free, n
  <2>2. g \in Injection(1 .. n, free) /\ g \in Surjection(1 .. n, free)
    BY <2>1 DEF Injection, IsInjective, Surjection
  <2> QED  BY <2>2 DEF Bijection
<1> HIDE DEF g, free, n
<1>4. IsFiniteSet(1 .. n) /\ Cardinality(1 .. n) = n
  <2>1. 1 \in Int /\ n \in Int
    BY <1>1
  <2>2. IsFiniteSet(1 .. n) /\ Cardinality(1 .. n) = IF 1 > n THEN 0 ELSE n - 1 + 1
    BY <2>1, FS_Interval
  <2> QED  BY <1>1, <2>2
<1>5. IsFiniteSet(free) /\ Cardinality(free) = n
  BY <1>3, <1>4, FS_Bijection DEF ExistsBijection
<1>6. IsFiniteSet(Offsets) /\ Cardinality(Offsets) = BlocksPerSlab
  <2>1. 0 \in Int /\ BlocksPerSlab - 1 \in Int /\ BlocksPerSlab \in Nat /\ ~(0 > BlocksPerSlab - 1)
    BY MemoryAssumption
  <2>2. /\ IsFiniteSet(0 .. BlocksPerSlab - 1)
        /\ Cardinality(0 .. BlocksPerSlab - 1) =
              IF 0 > BlocksPerSlab - 1 THEN 0 ELSE BlocksPerSlab - 1 - 0 + 1
    BY <2>1, FS_Interval
  <2> QED  BY <2>1, <2>2 DEF Offsets
<1>7. IsFiniteSet(busy) /\ Cardinality(busy) \in Nat
  BY <1>6, FS_Subset, FS_CardinalityType
<1>8. Cardinality(free \cup busy) = Cardinality(free) + Cardinality(busy) - Cardinality(free \cap busy)
  BY <1>5, <1>7, FS_Union
<1>9. Cardinality(free \cap busy) = 0
  BY <1>2, FS_EmptySet
<1>10. Cardinality(busy) = BlocksPerSlab - n
  <2>1. Cardinality(free \cup busy) = BlocksPerSlab
    BY <1>2, <1>6
  <2>2. BlocksPerSlab = n + Cardinality(busy) - 0
    BY <1>5, <1>8, <1>9, <2>1
  <2>3. BlocksPerSlab \in Nat
    BY MemoryAssumption
  <2> QED  BY <1>1, <1>7, <2>2, <2>3
<1> QED  BY <1>2, <1>5, <1>10 DEF FreeOf, free, n

(* The offsets in a slab of the blocks that callers have. *)
UsedIn(bs, s) == {o \in Offsets : <<s, o>> \in bs}

SlabEntry == [free : Seq(Nat), used : Int]

SlabsInv ==
    /\ slabs \in Seq(SlabEntry)
    /\ \A b \in blocks : b[1] \in 1 .. Len(slabs) /\ b[2] \in Offsets /\ b = <<b[1], b[2]>>
    /\ \A s \in 1 .. Len(slabs) :
          /\ FreeList(slabs[s].free, UsedIn(blocks, s))
          /\ slabs[s].used = BlocksPerSlab - Len(slabs[s].free)

LEMMA SlabsStart == MemInit => SlabsInv
<1> SUFFICES ASSUME MemInit PROVE SlabsInv
  OBVIOUS
<1>1. slabs = <<>> /\ blocks = {} /\ slabs \in Seq(SlabEntry) /\ Len(slabs) = 0
  BY EmptySeq DEF MemInit
<1>2. \A s \in 1 .. Len(slabs) : FALSE
  BY <1>1
<1> QED  BY <1>1, <1>2 DEF SlabsInv

(* One slab changes its free list, and the blocks change as it says. *)
LEMMA OneSlab ==
    ASSUME SlabsInv, NEW s \in 1 .. Len(slabs), NEW f, NEW u,
           slabs' = [slabs EXCEPT ![s] = [free |-> f, used |-> u]],
           \A r \in 1 .. Len(slabs) : r # s => UsedIn(blocks', r) = UsedIn(blocks, r),
           \A b \in blocks' : b[1] \in 1 .. Len(slabs) /\ b[2] \in Offsets /\ b = <<b[1], b[2]>>,
           FreeList(f, UsedIn(blocks', s)), u = BlocksPerSlab - Len(f)
    PROVE  SlabsInv'
<1>1. f \in Seq(Nat) /\ u \in Int
  BY MemoryAssumption DEF FreeList
<1>2. [free |-> f, used |-> u] \in SlabEntry
  BY <1>1 DEF SlabEntry
<1>3. /\ slabs' \in Seq(SlabEntry) /\ Len(slabs') = Len(slabs)
      /\ slabs'[s] = [free |-> f, used |-> u]
      /\ \A r \in 1 .. Len(slabs) : r # s => slabs'[r] = slabs[r]
  BY <1>2 DEF SlabsInv
<1>4. slabs'[s].free = f /\ slabs'[s].used = u
  BY <1>3
<1>5. ASSUME NEW r \in 1 .. Len(slabs)
      PROVE  /\ FreeList(slabs'[r].free, UsedIn(blocks', r))
             /\ slabs'[r].used = BlocksPerSlab - Len(slabs'[r].free)
  <2>1. CASE r = s
    BY <1>4, <2>1
  <2>2. CASE r # s
    <3>1. slabs'[r] = slabs[r] /\ UsedIn(blocks', r) = UsedIn(blocks, r)
      BY <1>3, <2>2
    <3> QED  BY <3>1 DEF SlabsInv
  <2> QED  BY <2>1, <2>2
<1> QED  BY <1>3, <1>5 DEF SlabsInv

LEMMA SlabStep ==
    ASSUME SlabsInv, [SlabNext]_slabVars PROVE SlabsInv'
<1>0. slabs \in Seq(SlabEntry) /\ Len(slabs) \in Nat
  BY DEF SlabsInv
<1>1. ASSUME NEW s \in 1 .. Len(slabs), slabs[s].free # <<>>,
             slabs' = [slabs EXCEPT ![s] = [free |-> SubSeq(slabs[s].free, 1, Len(slabs[s].free) - 1),
                                            used |-> slabs[s].used + 1]],
             blocks' = blocks \cup {<<s, slabs[s].free[Len(slabs[s].free)]>>}
      PROVE  SlabsInv'
  <2> DEFINE f == slabs[s].free
             x == f[Len(f)]
             g == SubSeq(f, 1, Len(f) - 1)
  <2>1. FreeList(f, UsedIn(blocks, s)) /\ slabs[s].used = BlocksPerSlab - Len(f) /\ Len(f) \in Nat
    BY DEF SlabsInv, FreeList
  <2>2. /\ x \in Offsets \ UsedIn(blocks, s)
        /\ FreeList(g, UsedIn(blocks, s) \cup {x}) /\ Len(g) = Len(f) - 1
    <3> HIDE DEF f
    <3>1. f # <<>>
      BY <1>1 DEF f
    <3> QED  BY <2>1, <3>1, TakeLast
  <2>3. slabs' = [slabs EXCEPT ![s] = [free |-> g, used |-> slabs[s].used + 1]]
        /\ blocks' = blocks \cup {<<s, x>>}
    BY <1>1
  <2> HIDE DEF f, x, g
  <2>4. UsedIn(blocks', s) = UsedIn(blocks, s) \cup {x}
    BY <2>2, <2>3 DEF UsedIn
  <2>5. \A r \in 1 .. Len(slabs) : r # s => UsedIn(blocks', r) = UsedIn(blocks, r)
    BY <2>3 DEF UsedIn
  <2>6. \A b \in blocks' : b[1] \in 1 .. Len(slabs) /\ b[2] \in Offsets /\ b = <<b[1], b[2]>>
    BY <2>2, <2>3 DEF SlabsInv
  <2>7. slabs[s].used + 1 = BlocksPerSlab - Len(g)
    BY <2>1, <2>2, MemoryAssumption
  <2> QED  BY <2>2, <2>3, <2>4, <2>5, <2>6, <2>7, OneSlab
<1>2. ASSUME slabs' = Append(slabs, [free |-> FreshFreeList, used |-> 1]),
             blocks' = blocks \cup {<<Len(slabs) + 1, 0>>}
      PROVE  SlabsInv'
  <2> DEFINE n == Len(slabs) + 1
             e == [free |-> FreshFreeList, used |-> 1]
  <2>1. n \in Nat /\ 0 \in Offsets /\ n \notin 1 .. Len(slabs)
    BY <1>0, MemoryAssumption DEF Offsets
  <2>2. /\ e \in SlabEntry /\ e.free = FreshFreeList /\ e.used = 1
        /\ FreeList(e.free, {0}) /\ e.used = BlocksPerSlab - Len(e.free)
    BY FreshList, MemoryAssumption DEF FreeList, SlabEntry
  <2> HIDE DEF e
  <2>3. /\ slabs' \in Seq(SlabEntry) /\ Len(slabs') = n /\ slabs'[n] = e
        /\ \A r \in 1 .. Len(slabs) : slabs'[r] = slabs[r]
    BY <1>0, <1>2, <2>2, AppendProperties DEF e
  <2>4. \A b \in blocks : b[1] \in 1 .. Len(slabs) /\ b[2] \in Offsets /\ b = <<b[1], b[2]>>
    BY DEF SlabsInv
  <2>5. \A b \in blocks' : b[1] \in 1 .. n /\ b[2] \in Offsets /\ b = <<b[1], b[2]>>
    BY <1>0, <1>2, <2>1, <2>4
  <2>6. UsedIn(blocks', n) = {0}
    BY <1>2, <2>1, <2>4 DEF UsedIn
  <2>7. \A r \in 1 .. Len(slabs) : UsedIn(blocks', r) = UsedIn(blocks, r)
    BY <1>2, <2>1 DEF UsedIn
  <2>8. ASSUME NEW r \in 1 .. n
        PROVE  /\ FreeList(slabs'[r].free, UsedIn(blocks', r))
               /\ slabs'[r].used = BlocksPerSlab - Len(slabs'[r].free)
    <3>1. CASE r = n
      BY <2>2, <2>3, <2>6, <3>1
    <3>2. CASE r \in 1 .. Len(slabs)
      <4>1. slabs'[r] = slabs[r] /\ UsedIn(blocks', r) = UsedIn(blocks, r)
        BY <2>3, <2>7, <3>2
      <4> QED  BY <3>2, <4>1 DEF SlabsInv
    <3> QED  BY <1>0, <3>1, <3>2
  <2> QED  BY <2>3, <2>5, <2>8 DEF SlabsInv
<1>3. ASSUME NEW b \in blocks, SlabDeallocate(b) PROVE SlabsInv'
  <2> DEFINE s == b[1]
             x == b[2]
             f == slabs[s].free
             g == Append(f, x)
  <2>1. s \in 1 .. Len(slabs) /\ x \in Offsets /\ b = <<s, x>> /\ x \in UsedIn(blocks, s)
    <3>1. s \in 1 .. Len(slabs) /\ x \in Offsets /\ b = <<s, x>>
      BY DEF SlabsInv
    <3> HIDE DEF s, x
    <3> QED  BY <3>1 DEF UsedIn
  <2>2. FreeList(f, UsedIn(blocks, s)) /\ slabs[s].used = BlocksPerSlab - Len(f) /\ Len(f) \in Nat
    <3> HIDE DEF s
    <3> QED  BY <2>1 DEF SlabsInv, FreeList
  <2>3. /\ slabs' = [slabs EXCEPT ![s] = [free |-> g, used |-> slabs[s].used - 1]]
        /\ blocks' = blocks \ {<<s, x>>}
    BY <1>3, <2>1 DEF SlabDeallocate
  <2> HIDE DEF s, x, f, g
  <2>4. FreeList(g, UsedIn(blocks, s) \ {x}) /\ Len(g) = Len(f) + 1
    BY <2>1, <2>2, PutBack DEF g
  <2>5. UsedIn(blocks', s) = UsedIn(blocks, s) \ {x}
    BY <2>3 DEF UsedIn
  <2>6. \A r \in 1 .. Len(slabs) : r # s => UsedIn(blocks', r) = UsedIn(blocks, r)
    BY <2>3 DEF UsedIn
  <2>7. \A c \in blocks' : c[1] \in 1 .. Len(slabs) /\ c[2] \in Offsets /\ c = <<c[1], c[2]>>
    BY <2>3 DEF SlabsInv
  <2>8. slabs[s].used - 1 = BlocksPerSlab - Len(g)
    BY <2>2, <2>4, MemoryAssumption
  <2> QED  BY <2>1, <2>3, <2>4, <2>5, <2>6, <2>7, <2>8, OneSlab
<1>4. CASE UNCHANGED slabVars
  BY <1>4 DEF SlabsInv, slabVars
<1> QED  BY <1>1, <1>2, <1>3, <1>4 DEF SlabNext, SlabAllocate

LEMMA SlabsGive == ASSUME SlabsInv PROVE SlabsPartitioned
<1> SUFFICES ASSUME NEW s \in 1 .. Len(slabs)
             PROVE  LET free == {slabs[s].free[k] : k \in 1 .. Len(slabs[s].free)}
                        busy == {b[2] : b \in {x \in blocks : x[1] = s}}
                    IN  /\ free \cap busy = {} /\ free \cup busy = 0 .. BlocksPerSlab - 1
                        /\ Cardinality(free) = Len(slabs[s].free)
                        /\ Cardinality(busy) = slabs[s].used
  BY DEF SlabsPartitioned
<1> DEFINE f == slabs[s].free
<1>1. {b[2] : b \in {x \in blocks : x[1] = s}} = UsedIn(blocks, s)
  BY DEF SlabsInv, UsedIn
<1>2. FreeList(f, UsedIn(blocks, s)) /\ slabs[s].used = BlocksPerSlab - Len(f)
  BY DEF SlabsInv
<1>3. UsedIn(blocks, s) \in SUBSET Offsets
  BY DEF UsedIn
<1>4. /\ FreeOf(f) \cap UsedIn(blocks, s) = {}
      /\ FreeOf(f) \cup UsedIn(blocks, s) = Offsets
      /\ Cardinality(FreeOf(f)) = Len(f)
      /\ Cardinality(UsedIn(blocks, s)) = BlocksPerSlab - Len(f)
  <2> HIDE DEF f
  <2> QED  BY <1>2, <1>3, FreeCount
<1> QED  BY <1>1, <1>2, <1>4 DEF Offsets, FreeOf
-----------------------------------------------------------------------------
ChunkEntry == [id : Nat, cap : Nat, used : Nat]

(* A chunk that is put aside is older than the current one, and everything  *)
(* given lies below what its chunk counts as used.                          *)
ArenaInv ==
    /\ chunk \in ChunkEntry /\ chunk.used <= chunk.cap
    /\ oldChunks \in Seq(ChunkEntry)
    /\ \A k \in 1 .. Len(oldChunks) : oldChunks[k].id < chunk.id /\ oldChunks[k].used <= oldChunks[k].cap
    /\ given \subseteq [id : Nat, from : Nat, to : Nat]
    /\ \A g, h \in given : g # h /\ g.id = h.id => g.to <= h.from \/ h.to <= g.from
    /\ \A g \in given :
          \/ g.id = chunk.id /\ g.to <= chunk.used
          \/ \E k \in 1 .. Len(oldChunks) : oldChunks[k].id = g.id /\ g.to <= oldChunks[k].used
    /\ arenaCall \in [ArenaCalls -> [at : {"idle", "grow", "clear", "stats"}, size : Nat]]

LEMMA AlignedUp == ASSUME NEW n \in Nat PROVE Aligned(n) \in Nat /\ Aligned(n) >= n
<1>1. Align \in Nat /\ Align >= 1
  BY MemoryAssumption
<1> DEFINE a == Align
           q == (n + a - 1) \div a
<1>2. a \in Nat /\ a > 0 /\ n + a - 1 \in Nat
  BY <1>1
<1> HIDE DEF a
<1>3. q \in Nat /\ q * a <= n + a - 1 /\ n + a - 1 < (q + 1) * a
  BY <1>2, Z3
<1> HIDE DEF q
<1>4. (q + 1) * a = q * a + a /\ q * a \in Nat
  BY <1>2, <1>3, Z3
<1>5. q * a >= n
  BY <1>2, <1>3, <1>4
<1> QED  BY <1>4, <1>5 DEF Aligned, a, q

LEMMA ArenaStart == MemInit => ArenaInv
<1> SUFFICES ASSUME MemInit PROVE ArenaInv
  OBVIOUS
<1>1. /\ chunk = [id |-> 1, cap |-> ChunkSize, used |-> 0] /\ given = {}
      /\ oldChunks = <<>> /\ Len(oldChunks) = 0 /\ oldChunks \in Seq(ChunkEntry)
      /\ arenaCall = [c \in ArenaCalls |-> [at |-> "idle", size |-> 0]]
  BY EmptySeq DEF MemInit, FreshChunk, NoCall
<1>2. chunk \in ChunkEntry /\ chunk.used <= chunk.cap
  BY <1>1, MemoryAssumption DEF ChunkEntry
<1>3. \A k \in 1 .. Len(oldChunks) : FALSE
  BY <1>1
<1> QED  BY <1>1, <1>2, <1>3 DEF ArenaInv

LEMMA ArenaStep ==
    ASSUME ArenaInv, [ArenaNext]_arenaVars PROVE ArenaInv'
<1>a. /\ chunk.id \in Nat /\ chunk.cap \in Nat /\ chunk.used \in Nat /\ chunk.used <= chunk.cap
      /\ chunk = [id |-> chunk.id, cap |-> chunk.cap, used |-> chunk.used]
  BY DEF ArenaInv, ChunkEntry
<1>b. Len(oldChunks) \in Nat /\ \A k \in 1 .. Len(oldChunks) : oldChunks[k] \in ChunkEntry
  BY DEF ArenaInv
<1>c. \A k \in 1 .. Len(oldChunks) : oldChunks[k].id \in Nat /\ oldChunks[k].used \in Nat
  BY <1>b DEF ChunkEntry
<1>d. \A c \in ArenaCalls : arenaCall[c].size \in Nat
  BY DEF ArenaInv
<1>0. /\ chunk.id \in Nat /\ chunk.cap \in Nat /\ chunk.used \in Nat /\ chunk.used <= chunk.cap
      /\ chunk = [id |-> chunk.id, cap |-> chunk.cap, used |-> chunk.used]
      /\ Len(oldChunks) \in Nat /\ \A k \in 1 .. Len(oldChunks) : oldChunks[k] \in ChunkEntry
      /\ \A k \in 1 .. Len(oldChunks) : oldChunks[k].id \in Nat /\ oldChunks[k].used \in Nat
  BY <1>a, <1>b, <1>c
<1>1. ASSUME NEW c \in ArenaCalls, NEW want \in Sizes, ArenaAllocate(c, want) PROVE ArenaInv'
  <2>0. want \in Nat /\ UNCHANGED oldChunks
    BY <1>1, MemoryAssumption DEF ArenaAllocate
  <2>1. CASE Aligned(chunk.used) + want <= chunk.cap
    <3> DEFINE from == Aligned(chunk.used)
               g == [id |-> chunk.id, from |-> from, to |-> from + want]
    <3>1. from \in Nat /\ from >= chunk.used /\ from + want \in Nat /\ from + want <= chunk.cap
      BY <1>0, <2>0, <2>1, AlignedUp
    <3>2. /\ given' = given \cup {g} /\ UNCHANGED arenaCall
          /\ chunk' = [chunk EXCEPT !.used = from + want]
      BY <1>1, <2>1 DEF ArenaAllocate
    <3> HIDE DEF from
    <3>3. g \in [id : Nat, from : Nat, to : Nat] /\ g.id = chunk.id /\ g.from = from /\ g.to = from + want
      BY <1>0, <3>1
    <3>4. chunk' = [id |-> chunk.id, cap |-> chunk.cap, used |-> from + want]
      BY <1>0, <3>2
    <3>5. chunk' \in ChunkEntry /\ chunk'.used <= chunk'.cap /\ chunk'.id = chunk.id /\ chunk'.used = from + want
      BY <1>0, <3>1, <3>4 DEF ChunkEntry
    <3> HIDE DEF g
    <3>6. \A h \in given : /\ h.id \in Nat /\ h.from \in Nat /\ h.to \in Nat
                           /\ (h.id = chunk.id => h.to <= g.from)
      <4> SUFFICES ASSUME NEW h \in given
                   PROVE  /\ h.id \in Nat /\ h.from \in Nat /\ h.to \in Nat
                          /\ (h.id = chunk.id => h.to <= g.from)
        OBVIOUS
      <4>1. h.id \in Nat /\ h.from \in Nat /\ h.to \in Nat
        BY DEF ArenaInv
      <4>2. ASSUME h.id = chunk.id PROVE h.to <= chunk.used
        <5>1. \A k \in 1 .. Len(oldChunks) : oldChunks[k].id # chunk.id
          BY <1>0 DEF ArenaInv
        <5> QED  BY <4>2, <5>1 DEF ArenaInv
      <4> QED  BY <1>0, <3>1, <3>3, <4>1, <4>2
    <3>7. \A h, i \in given' : h # i /\ h.id = i.id => h.to <= i.from \/ i.to <= h.from
      <4> SUFFICES ASSUME NEW h \in given', NEW i \in given', h # i, h.id = i.id
                   PROVE  h.to <= i.from \/ i.to <= h.from
        OBVIOUS
      <4>1. CASE h \in given /\ i \in given
        BY <4>1 DEF ArenaInv
      <4>2. CASE h = g /\ i \in given
        BY <3>3, <3>6, <4>2
      <4>3. CASE h \in given /\ i = g
        BY <3>3, <3>6, <4>3
      <4> QED  BY <3>2, <4>1, <4>2, <4>3
    <3>8. \A h \in given' : \/ h.id = chunk'.id /\ h.to <= chunk'.used
                            \/ \E k \in 1 .. Len(oldChunks) : oldChunks[k].id = h.id /\ h.to <= oldChunks[k].used
      <4> SUFFICES ASSUME NEW h \in given'
                   PROVE  \/ h.id = chunk'.id /\ h.to <= chunk'.used
                          \/ \E k \in 1 .. Len(oldChunks) : oldChunks[k].id = h.id /\ h.to <= oldChunks[k].used
        OBVIOUS
      <4>1. CASE h = g
        BY <3>1, <3>3, <3>5, <4>1
      <4>2. CASE h \in given /\ h.id = chunk.id
        BY <1>0, <2>0, <3>1, <3>3, <3>5, <3>6, <4>2
      <4>3. CASE h \in given /\ h.id # chunk.id
        BY <4>3 DEF ArenaInv
      <4> QED  BY <3>2, <4>1, <4>2, <4>3
    <3>9. given' \subseteq [id : Nat, from : Nat, to : Nat]
      BY <3>2, <3>3 DEF ArenaInv
    <3> QED  BY <2>0, <3>2, <3>5, <3>7, <3>8, <3>9 DEF ArenaInv
  <2>2. CASE ~(Aligned(chunk.used) + want <= chunk.cap)
    <3>1. UNCHANGED <<chunk, given>> /\ arenaCall' = [arenaCall EXCEPT ![c] = [at |-> "grow", size |-> want]]
      BY <1>1, <2>2 DEF ArenaAllocate
    <3>2. arenaCall' \in [ArenaCalls -> [at : {"idle", "grow", "clear", "stats"}, size : Nat]]
      BY <2>0, <3>1 DEF ArenaInv
    <3> QED  BY <2>0, <3>1, <3>2 DEF ArenaInv
  <2> QED  BY <2>1, <2>2
<1>2. ASSUME NEW c \in ArenaCalls, ArenaGrow(c) PROVE ArenaInv'
  <2> DEFINE want == arenaCall[c].size
             id == chunk.id + 1
             cap == IF want > ChunkSize THEN want ELSE ChunkSize
             g == [id |-> id, from |-> 0, to |-> want]
             new == [id |-> id, cap |-> cap, used |-> want]
  <2>1. /\ oldChunks' = Append(oldChunks, chunk) /\ chunk' = new
        /\ given' = given \cup {g} /\ arenaCall' = [arenaCall EXCEPT ![c] = NoCall]
    BY <1>2 DEF ArenaGrow
  <2>2. want \in Nat /\ cap \in Nat /\ want <= cap /\ id \in Nat /\ chunk.id < id /\ id # chunk.id
    <3>1. want \in Nat /\ ChunkSize \in Nat
      BY <1>d, MemoryAssumption
    <3> HIDE DEF want
    <3> QED  BY <1>0, <3>1
  <2> HIDE DEF want, id, cap
  <2>3. /\ g \in [id : Nat, from : Nat, to : Nat] /\ g.id = id /\ g.to = want
        /\ new \in ChunkEntry /\ new.id = id /\ new.used = want /\ new.cap = cap
    BY <2>2 DEF ChunkEntry
  <2> HIDE DEF g, new
  <2> DEFINE n == Len(oldChunks) + 1
  <2>4. /\ oldChunks' \in Seq(ChunkEntry) /\ Len(oldChunks') = n /\ oldChunks'[n] = chunk
        /\ \A k \in 1 .. Len(oldChunks) : oldChunks'[k] = oldChunks[k]
    BY <2>1, AppendProperties DEF ArenaInv
  <2>5. /\ \A k \in 1 .. n : k = n \/ k \in 1 .. Len(oldChunks)
        /\ \A k \in 1 .. Len(oldChunks) : k \in 1 .. n
        /\ n \in 1 .. n
    BY <1>0
  <2> HIDE DEF n
  <2>6. \A k \in 1 .. n : oldChunks'[k].id < chunk'.id /\ oldChunks'[k].used <= oldChunks'[k].cap
    <3> SUFFICES ASSUME NEW k \in 1 .. n
                 PROVE  oldChunks'[k].id < id /\ oldChunks'[k].used <= oldChunks'[k].cap
      BY <2>1, <2>3
    <3>1. CASE k = n
      BY <1>0, <2>2, <2>4, <3>1
    <3>2. CASE k \in 1 .. Len(oldChunks)
      <4>1. oldChunks[k].id < chunk.id /\ oldChunks[k].used <= oldChunks[k].cap /\ oldChunks[k].id \in Nat
        BY <1>0, <3>2 DEF ArenaInv
      <4>2. oldChunks[k].id < id
        BY <1>0, <2>2, <4>1
      <4> QED  BY <2>4, <3>2, <4>1, <4>2
    <3> QED  BY <2>5, <3>1, <3>2
  <2>7. \A h \in given : h.id # id /\ \E k \in 1 .. n : oldChunks'[k].id = h.id /\ h.to <= oldChunks'[k].used
    <3> SUFFICES ASSUME NEW h \in given
                 PROVE  h.id # id /\ \E k \in 1 .. n : oldChunks'[k].id = h.id /\ h.to <= oldChunks'[k].used
      OBVIOUS
    <3>1. CASE h.id = chunk.id /\ h.to <= chunk.used
      BY <2>2, <2>4, <2>5, <3>1
    <3>2. ASSUME NEW k \in 1 .. Len(oldChunks), oldChunks[k].id = h.id, h.to <= oldChunks[k].used
          PROVE  h.id # id /\ \E j \in 1 .. n : oldChunks'[j].id = h.id /\ h.to <= oldChunks'[j].used
      <4>1. oldChunks'[k].id < id /\ oldChunks'[k] = oldChunks[k] /\ k \in 1 .. n
        BY <2>1, <2>3, <2>4, <2>5, <2>6
      <4>2. h.id # id
        BY <1>0, <2>2, <3>2, <4>1
      <4> QED  BY <3>2, <4>1, <4>2
    <3> QED  BY <3>1, <3>2 DEF ArenaInv
  <2>8. \A h, i \in given' : h # i /\ h.id = i.id => h.to <= i.from \/ i.to <= h.from
    BY <2>1, <2>3, <2>7 DEF ArenaInv
  <2>9. \A h \in given' : \/ h.id = chunk'.id /\ h.to <= chunk'.used
                          \/ \E k \in 1 .. n : oldChunks'[k].id = h.id /\ h.to <= oldChunks'[k].used
    <3> SUFFICES ASSUME NEW h \in given'
                 PROVE  \/ h.id = chunk'.id /\ h.to <= chunk'.used
                        \/ \E k \in 1 .. n : oldChunks'[k].id = h.id /\ h.to <= oldChunks'[k].used
      OBVIOUS
    <3>1. CASE h = g
      <4>1. chunk'.id = id /\ chunk'.used = want /\ want <= want
        BY <2>1, <2>2, <2>3
      <4> QED  BY <2>3, <3>1, <4>1
    <3>2. CASE h \in given
      BY <2>7, <3>2
    <3> QED  BY <2>1, <3>1, <3>2
  <2>10. given' \subseteq [id : Nat, from : Nat, to : Nat]
    BY <2>1, <2>3 DEF ArenaInv
  <2>11. arenaCall' \in [ArenaCalls -> [at : {"idle", "grow", "clear", "stats"}, size : Nat]]
    BY <2>1 DEF ArenaInv, NoCall
  <2> QED  BY <2>1, <2>2, <2>3, <2>4, <2>6, <2>8, <2>9, <2>10, <2>11 DEF ArenaInv
<1>3. ASSUME NEW c \in ArenaCalls, ArenaClearOld(c) PROVE ArenaInv'
  <2>1. /\ oldChunks' = <<>> /\ Len(oldChunks') = 0 /\ oldChunks' \in Seq(ChunkEntry)
        /\ given' = {g \in given : g.id = chunk.id} /\ UNCHANGED chunk
        /\ arenaCall' = [arenaCall EXCEPT ![c] = [at |-> "clear", size |-> 0]]
    BY <1>3, EmptySeq DEF ArenaClearOld
  <2>3. arenaCall' \in [ArenaCalls -> [at : {"idle", "grow", "clear", "stats"}, size : Nat]]
    BY <2>1 DEF ArenaInv
  <2>4. \A g \in given' : g \in given /\ g.id = chunk'.id /\ g.to <= chunk'.used
    <3>1. \A k \in 1 .. Len(oldChunks) : oldChunks[k].id # chunk.id
      BY <1>0 DEF ArenaInv
    <3> QED  BY <2>1, <3>1 DEF ArenaInv
  <2>5. \A k \in 1 .. Len(oldChunks') : FALSE
    BY <2>1
  <2> QED  BY <2>1, <2>3, <2>4, <2>5 DEF ArenaInv
<1>4. ASSUME NEW c \in ArenaCalls, ArenaClearCurrent(c) PROVE ArenaInv'
  <2>1. /\ chunk' = [id |-> chunk.id + 1, cap |-> ChunkSize, used |-> 0]
        /\ given' = {g \in given : g.id # chunk.id} /\ UNCHANGED oldChunks
        /\ arenaCall' = [arenaCall EXCEPT ![c] = NoCall]
    BY <1>4 DEF ArenaClearCurrent, FreshChunk
  <2>2. /\ chunk' \in ChunkEntry /\ chunk'.used <= chunk'.cap /\ chunk'.id = chunk.id + 1
    BY <1>0, <2>1, MemoryAssumption DEF ChunkEntry
  <2>3. arenaCall' \in [ArenaCalls -> [at : {"idle", "grow", "clear", "stats"}, size : Nat]]
    BY <2>1 DEF ArenaInv, NoCall
  <2>4. \A k \in 1 .. Len(oldChunks) : oldChunks[k].id < chunk'.id
    BY <1>0, <2>2 DEF ArenaInv
  <2>5. \A g \in given' :
           g \in given /\ \E k \in 1 .. Len(oldChunks) : oldChunks[k].id = g.id /\ g.to <= oldChunks[k].used
    BY <2>1 DEF ArenaInv
  <2> QED  BY <2>1, <2>2, <2>3, <2>4, <2>5 DEF ArenaInv
<1>5. ASSUME NEW c \in ArenaCalls, StatsBegin(c) \/ StatsEnd(c) PROVE ArenaInv'
  <2>1. \E e \in [at : {"idle", "grow", "clear", "stats"}, size : Nat] : arenaCall' = [arenaCall EXCEPT ![c] = e]
    <3>1. CASE StatsBegin(c)
      BY <3>1 DEF StatsBegin
    <3>2. CASE StatsEnd(c)
      BY <3>2 DEF StatsEnd, NoCall
    <3> QED  BY <1>5, <3>1, <3>2
  <2>2. arenaCall' \in [ArenaCalls -> [at : {"idle", "grow", "clear", "stats"}, size : Nat]]
    BY <2>1 DEF ArenaInv
  <2>3. UNCHANGED <<chunk, oldChunks, given>>
    BY <1>5 DEF StatsBegin, StatsEnd
  <2> QED  BY <2>2, <2>3 DEF ArenaInv
<1>6. CASE UNCHANGED arenaVars
  BY <1>6 DEF ArenaInv, arenaVars
<1> QED  BY <1>1, <1>2, <1>3, <1>4, <1>5, <1>6 DEF ArenaNext

LEMMA ArenaGives == ASSUME ArenaInv PROVE ArenaSound
<1> DEFINE chunks == {chunk} \cup {oldChunks[k] : k \in 1 .. Len(oldChunks)}
<1>1. \A g \in given : \E k \in chunks : k.id = g.id /\ g.to <= k.used /\ k.used <= k.cap
  <2> SUFFICES ASSUME NEW g \in given PROVE \E k \in chunks : k.id = g.id /\ g.to <= k.used /\ k.used <= k.cap
    OBVIOUS
  <2>1. CASE g.id = chunk.id /\ g.to <= chunk.used
    BY <2>1 DEF ArenaInv
  <2>2. ASSUME NEW k \in 1 .. Len(oldChunks), oldChunks[k].id = g.id, g.to <= oldChunks[k].used
        PROVE  \E j \in chunks : j.id = g.id /\ g.to <= j.used /\ j.used <= j.cap
    BY <2>2 DEF ArenaInv
  <2> HIDE DEF chunks
  <2> QED  BY <2>1, <2>2 DEF ArenaInv
<1>2. \A g, h \in given : g # h /\ g.id = h.id => g.to <= h.from \/ h.to <= g.from
  BY DEF ArenaInv
<1> QED  BY <1>1, <1>2 DEF ArenaSound

-----------------------------------------------------------------------------
(* What a pool and its callers have: the object pool resets what comes back. *)
Objects == IF fixedPool THEN {"clean", "dirty"} ELSE {"clean"}

ObjectsInv ==
    /\ fixedPool \in BOOLEAN
    /\ pooled \in Seq(Objects) /\ Len(pooled) <= PoolLimit
    /\ outside \in Seq(Objects)

LEMMA ObjectsStart == MemInit => ObjectsInv
<1> SUFFICES ASSUME MemInit PROVE ObjectsInv
  OBVIOUS
<1>1. pooled = <<>> /\ outside = <<>> /\ Len(pooled) = 0 /\ <<>> \in Seq(Objects) /\ fixedPool \in BOOLEAN
  BY EmptySeq DEF MemInit
<1> QED  BY <1>1, MemoryAssumption DEF ObjectsInv

LEMMA Without ==
    ASSUME NEW T, NEW q \in Seq(T), NEW k \in 1 .. Len(q)
    PROVE  /\ SubSeq(q, 1, k - 1) \o SubSeq(q, k + 1, Len(q)) \in Seq(T)
           /\ Len(SubSeq(q, 1, k - 1) \o SubSeq(q, k + 1, Len(q))) = Len(q) - 1
<1> DEFINE n == Len(q)
<1>1. n \in Nat /\ k \in Nat /\ k >= 1 /\ k <= n /\ \A i \in 1 .. n : q[i] \in T
  OBVIOUS
<1>2. /\ 1 \in Int /\ k - 1 \in Int /\ k + 1 \in Int /\ n \in Int
      /\ \A i \in 1 .. k - 1 : q[i] \in T
      /\ \A i \in k + 1 .. n : q[i] \in T
  <2> HIDE DEF n
  <2> QED  BY <1>1
<1> HIDE DEF n
<1>3. SubSeq(q, 1, k - 1) \in Seq(T) /\ Len(SubSeq(q, 1, k - 1)) = IF 1 <= k - 1 THEN k - 1 - 1 + 1 ELSE 0
  BY <1>2, SubSeqProperties
<1>4. SubSeq(q, k + 1, n) \in Seq(T) /\ Len(SubSeq(q, k + 1, n)) = IF k + 1 <= n THEN n - (k + 1) + 1 ELSE 0
  BY <1>2, SubSeqProperties
<1>5. /\ SubSeq(q, 1, k - 1) \o SubSeq(q, k + 1, n) \in Seq(T)
      /\ Len(SubSeq(q, 1, k - 1) \o SubSeq(q, k + 1, n)) =
            Len(SubSeq(q, 1, k - 1)) + Len(SubSeq(q, k + 1, n))
  BY <1>3, <1>4, ConcatProperties
<1>6. Len(SubSeq(q, 1, k - 1)) = k - 1 /\ Len(SubSeq(q, k + 1, n)) = n - k
  BY <1>1, <1>3, <1>4
<1>7. Len(SubSeq(q, 1, k - 1) \o SubSeq(q, k + 1, n)) = n - 1
  BY <1>1, <1>5, <1>6
<1> QED  BY <1>5, <1>7 DEF n

LEMMA ObjectsStep == ASSUME ObjectsInv, [ObjectNext]_objectVars PROVE ObjectsInv'
<1>1. CASE Acquire
  <2> DEFINE at == IF fixedPool THEN Len(pooled) ELSE 1
  <2>1. UNCHANGED fixedPool /\ Objects' = Objects
    BY <1>1 DEF Acquire, Objects
  <2>2. CASE pooled = <<>>
    <3>1. UNCHANGED pooled /\ outside' = Append(outside, "clean") /\ "clean" \in Objects
      BY <1>1, <2>2 DEF Acquire, Objects
    <3>2. outside' \in Seq(Objects)
      BY <3>1, AppendProperties DEF ObjectsInv
    <3> QED  BY <2>1, <3>1, <3>2 DEF ObjectsInv
  <2>3. CASE pooled # <<>>
    <3>1. /\ outside' = Append(outside, pooled[at])
          /\ pooled' = SubSeq(pooled, 1, at - 1) \o SubSeq(pooled, at + 1, Len(pooled))
      BY <1>1, <2>3 DEF Acquire
    <3>2. at \in 1 .. Len(pooled) /\ Len(pooled) \in Nat /\ pooled[at] \in Objects
      <4>1. Len(pooled) \in Nat /\ Len(pooled) >= 1 /\ \A i \in 1 .. Len(pooled) : pooled[i] \in Objects
        BY <2>3 DEF ObjectsInv
      <4>2. at \in 1 .. Len(pooled)
        BY <4>1
      <4> HIDE DEF at
      <4> QED  BY <4>1, <4>2
    <3> HIDE DEF at
    <3>3. pooled' \in Seq(Objects) /\ Len(pooled') = Len(pooled) - 1
      BY <3>1, <3>2, Without DEF ObjectsInv
    <3>4. outside' \in Seq(Objects)
      BY <3>1, <3>2, AppendProperties DEF ObjectsInv
    <3>5. Len(pooled') <= PoolLimit
      BY <3>2, <3>3, MemoryAssumption DEF ObjectsInv
    <3> QED  BY <2>1, <3>3, <3>4, <3>5 DEF ObjectsInv
  <2> QED  BY <2>2, <2>3
<1>2. ASSUME NEW k \in 1 .. Len(outside), NEW o \in {"clean", "dirty"}, GiveBack(k, o) PROVE ObjectsInv'
  <2>1. UNCHANGED fixedPool /\ Objects' = Objects
    BY <1>2 DEF GiveBack, Objects
  <2>2. outside' \in Seq(Objects)
    BY <1>2, Without DEF GiveBack, ObjectsInv
  <2>3. Reset(o) \in Objects
    BY DEF Reset, Objects
  <2>4. pooled' \in Seq(Objects) /\ Len(pooled') <= PoolLimit
    <3>1. CASE Len(pooled) < PoolLimit
      <4>1. pooled' = Append(pooled, Reset(o))
        BY <1>2, <3>1 DEF GiveBack
      <4>2. pooled' \in Seq(Objects) /\ Len(pooled') = Len(pooled) + 1 /\ Len(pooled) \in Nat
        BY <2>3, <4>1, AppendProperties DEF ObjectsInv
      <4> QED  BY <3>1, <4>2, MemoryAssumption
    <3>2. CASE ~(Len(pooled) < PoolLimit)
      BY <1>2, <3>2 DEF GiveBack, ObjectsInv
    <3> QED  BY <3>1, <3>2
  <2> QED  BY <2>1, <2>2, <2>4 DEF ObjectsInv
<1>3. CASE UNCHANGED objectVars
  BY <1>3 DEF ObjectsInv, Objects, objectVars
<1> QED  BY <1>1, <1>2, <1>3 DEF ObjectNext

(* BuffersAlwaysSound: for buffers, blocks, chunks and pools of any size,   *)
(* the ring buffer of zero_copy.rs stays a queue, and no allocator of       *)
(* memory_pool.rs hands out what somebody still has.                        *)
THEOREM BuffersAlwaysSound == MCSpec => []BuffersSound
<1> DEFINE Inv == RingInv /\ SlabsInv /\ ArenaInv /\ ObjectsInv
<1>1. MCInit => Inv
  BY RingStart, SlabsStart, ArenaStart, ObjectsStart DEF MCInit
<1>2. Inv /\ [MCNext]_mcVars => Inv'
  <2> SUFFICES ASSUME Inv, [MCNext]_mcVars PROVE Inv'
    OBVIOUS
  <2>1. [RingNext]_ringVars
    BY DEF MCNext, mcVars, ringVars
  <2>2. [SlabNext]_slabVars
    <3>1. ArenaNext \/ ObjectNext => UNCHANGED slabVars
      BY DEF ArenaNext, ArenaAllocate, ArenaGrow, ArenaClearOld, ArenaClearCurrent, StatsBegin, StatsEnd,
             ObjectNext, Acquire, GiveBack, slabVars
    <3> QED  BY <3>1 DEF MCNext, mcVars, memVars
  <2>3. [ArenaNext]_arenaVars
    <3>1. SlabNext \/ ObjectNext => UNCHANGED arenaVars
      BY DEF SlabNext, SlabAllocate, SlabDeallocate, ObjectNext, Acquire, GiveBack, arenaVars
    <3> QED  BY <3>1 DEF MCNext, mcVars, memVars
  <2>4. [ObjectNext]_objectVars
    <3>1. SlabNext \/ ArenaNext => UNCHANGED objectVars
      BY DEF SlabNext, SlabAllocate, SlabDeallocate, objectVars,
             ArenaNext, ArenaAllocate, ArenaGrow, ArenaClearOld, ArenaClearCurrent, StatsBegin, StatsEnd
    <3> QED  BY <3>1 DEF MCNext, mcVars, memVars
  <2> QED  BY <2>1, <2>2, <2>3, <2>4, RingStep, SlabStep, ArenaStep, ObjectsStep
<1>3. Inv => BuffersSound
  <2> SUFFICES ASSUME Inv PROVE BuffersSound
    OBVIOUS
  <2>1. ~fixedPool => \A k \in 1 .. Len(outside) : outside[k] = "clean"
    BY DEF ObjectsInv, Objects
  <2>2. Len(pooled) <= PoolLimit
    BY DEF ObjectsInv
  <2> QED  BY <2>1, <2>2, RingGives, SlabsGive, ArenaGives DEF BuffersSound, MemorySound
<1> QED  BY <1>1, <1>2, <1>3, PTL DEF MCSpec
-----------------------------------------------------------------------------
(* The batch processor, for any items, sizes and number of tasks at once *)

ItemsIn(s) == {s[k] : k \in 1 .. Len(s)}

NoneTwice(s) == \A j, k \in 1 .. Len(s) : s[j] = s[k] => j = k

LEMMA ItemsAppend ==
    ASSUME NEW q \in Seq(Items), NEW i \in Items
    PROVE  /\ Append(q, i) \in Seq(Items)
           /\ ItemsIn(Append(q, i)) = ItemsIn(q) \cup {i}
           /\ NoneTwice(q) /\ i \notin ItemsIn(q) => NoneTwice(Append(q, i))
<1> DEFINE n == Len(q)
           r == Append(q, i)
<1>1. n \in Nat /\ r \in Seq(Items) /\ Len(r) = n + 1 /\ r[n + 1] = i /\ \A k \in 1 .. n : r[k] = q[k]
  BY AppendProperties
<1>2. n + 1 \in 1 .. n + 1 /\ \A k \in 1 .. n + 1 : k = n + 1 \/ k \in 1 .. n
  BY <1>1
<1>3. \A k \in 1 .. n : k \in 1 .. n + 1 /\ k # n + 1
  BY <1>1
<1>4. ItemsIn(r) = {r[k] : k \in 1 .. n + 1} /\ ItemsIn(q) = {q[k] : k \in 1 .. n}
  BY <1>1 DEF ItemsIn
<1> HIDE DEF n, r
<1>5. ItemsIn(r) = ItemsIn(q) \cup {i}
  BY <1>1, <1>2, <1>3, <1>4
<1>6. ASSUME NoneTwice(q), i \notin ItemsIn(q) PROVE NoneTwice(r)
  <2>1. \A j, k \in 1 .. n : q[j] = q[k] => j = k
    BY <1>6 DEF NoneTwice, n
  <2>2. \A k \in 1 .. n : q[k] # i
    BY <1>4, <1>6
  <2>3. \A j, k \in 1 .. n + 1 : r[j] = r[k] => j = k
    BY <1>1, <1>2, <2>1, <2>2
  <2> QED  BY <1>1, <2>3 DEF NoneTwice
<1> QED  BY <1>1, <1>5, <1>6 DEF r

LEMMA ItemsSplit ==
    ASSUME NEW q \in Seq(Items), NEW m \in 0 .. Len(q)
    PROVE  LET a == SubSeq(q, 1, m)
               b == SubSeq(q, m + 1, Len(q))
           IN  /\ a \in Seq(Items) /\ b \in Seq(Items) /\ Len(a) = m
               /\ ItemsIn(a) \cup ItemsIn(b) = ItemsIn(q)
               /\ NoneTwice(q) => NoneTwice(a) /\ NoneTwice(b) /\ ItemsIn(a) \cap ItemsIn(b) = {}
<1> DEFINE n == Len(q)
           a == SubSeq(q, 1, m)
           b == SubSeq(q, m + 1, n)
<1>1. n \in Nat /\ m \in Nat /\ m <= n /\ \A k \in 1 .. n : q[k] \in Items
  OBVIOUS
<1>2. ItemsIn(q) = {q[k] : k \in 1 .. n} /\ (NoneTwice(q) <=> \A j, k \in 1 .. n : q[j] = q[k] => j = k)
  BY DEF ItemsIn, NoneTwice
<1> HIDE DEF n
<1>3. /\ a \in Seq(Items) /\ Len(a) = m /\ \A k \in 1 .. m : a[k] = q[k]
  <2>1. 1 \in Int /\ m \in Int /\ \A k \in 1 .. m : q[k] \in Items
    BY <1>1
  <2>2. a \in Seq(Items) /\ Len(a) = (IF 1 <= m THEN m - 1 + 1 ELSE 0)
        /\ \A k \in 1 .. m - 1 + 1 : a[k] = q[1 + k - 1]
    BY <2>1, SubSeqProperties
  <2> QED  BY <1>1, <2>2
<1>4. /\ b \in Seq(Items) /\ Len(b) = n - m /\ \A k \in 1 .. n - m : b[k] = q[m + k]
  <2>1. m + 1 \in Int /\ n \in Int /\ \A k \in m + 1 .. n : q[k] \in Items
    BY <1>1
  <2>2. b \in Seq(Items) /\ Len(b) = (IF m + 1 <= n THEN n - (m + 1) + 1 ELSE 0)
        /\ \A k \in 1 .. n - (m + 1) + 1 : b[k] = q[m + 1 + k - 1]
    BY <2>1, SubSeqProperties
  <2>3. Len(b) = n - m /\ n - (m + 1) + 1 = n - m /\ \A k \in 1 .. n - m : m + 1 + k - 1 = m + k
    BY <1>1, <2>2
  <2> QED  BY <2>2, <2>3
<1> HIDE DEF a, b
<1>5. ItemsIn(a) = {q[k] : k \in 1 .. m}
  BY <1>3 DEF ItemsIn
<1>6. ItemsIn(b) = {q[k] : k \in m + 1 .. n}
  <2>1. \A k \in 1 .. n - m : m + k \in m + 1 .. n
    BY <1>1
  <2>2. \A k \in m + 1 .. n : k - m \in 1 .. n - m /\ m + (k - m) = k
    BY <1>1
  <2>3. ItemsIn(b) = {b[k] : k \in 1 .. n - m}
    BY <1>4 DEF ItemsIn
  <2>4. ASSUME NEW k \in m + 1 .. n PROVE b[k - m] = q[k]
    BY <1>4, <2>2
  <2> QED  BY <1>4, <2>1, <2>2, <2>3, <2>4
<1>7. ItemsIn(a) \cup ItemsIn(b) = ItemsIn(q)
  <2>1. \A k \in 1 .. n : k \in 1 .. m \/ k \in m + 1 .. n
    BY <1>1
  <2>2. (\A k \in 1 .. m : k \in 1 .. n) /\ \A k \in m + 1 .. n : k \in 1 .. n
    BY <1>1
  <2> QED  BY <1>2, <1>5, <1>6, <2>1, <2>2
<1>8. ASSUME NoneTwice(q) PROVE NoneTwice(a) /\ NoneTwice(b) /\ ItemsIn(a) \cap ItemsIn(b) = {}
  <2>1. \A j, k \in 1 .. n : q[j] = q[k] => j = k
    BY <1>2, <1>8
  <2>2. NoneTwice(a)
    BY <1>1, <1>3, <2>1 DEF NoneTwice
  <2>3. NoneTwice(b)
    <3> SUFFICES ASSUME NEW j \in 1 .. n - m, NEW k \in 1 .. n - m, b[j] = b[k] PROVE j = k
      BY <1>4 DEF NoneTwice
    <3>1. m + j \in 1 .. n /\ m + k \in 1 .. n
      BY <1>1
    <3>2. m + j = m + k
      BY <1>4, <2>1, <3>1
    <3> QED  BY <1>1, <3>2
  <2>4. ASSUME NEW j \in 1 .. m, NEW k \in m + 1 .. n PROVE q[j] # q[k]
    <3>1. j \in 1 .. n /\ k \in 1 .. n /\ j # k
      BY <1>1
    <3> QED  BY <2>1, <3>1
  <2> QED  BY <1>5, <1>6, <2>2, <2>3, <2>4
<1> QED  BY <1>3, <1>4, <1>7, <1>8 DEF a, b, n

LEMMA ItemsCount ==
    ASSUME NEW q \in Seq(Items), NoneTwice(q) PROVE Cardinality(ItemsIn(q)) = Len(q)
<1> DEFINE n == Len(q)
           g == [k \in 1 .. n |-> q[k]]
<1>1. n \in Nat /\ \A j, k \in 1 .. n : q[j] = q[k] => j = k
  BY DEF NoneTwice
<1>2. g \in Bijection(1 .. n, ItemsIn(q))
  <2>1. g \in [1 .. n -> ItemsIn(q)] /\ (\A x \in ItemsIn(q) : \E k \in 1 .. n : g[k] = x)
        /\ \A j, k \in 1 .. n : g[j] = g[k] => j = k
    <3>1. \A k \in 1 .. n : q[k] \in ItemsIn(q)
      BY DEF ItemsIn
    <3>2. \A x \in ItemsIn(q) : \E k \in 1 .. n : q[k] = x
      BY DEF ItemsIn
    <3> HIDE DEF n
    <3> QED  BY <1>1, <3>1, <3>2
  <2> HIDE DEF g, n
  <2>2. g \in Injection(1 .. n, ItemsIn(q)) /\ g \in Surjection(1 .. n, ItemsIn(q))
    BY <2>1 DEF Injection, IsInjective, Surjection
  <2> QED  BY <2>2 DEF Bijection
<1> HIDE DEF g, n
<1>3. IsFiniteSet(1 .. n) /\ Cardinality(1 .. n) = n
  <2>1. 1 \in Int /\ n \in Int
    BY <1>1
  <2>2. IsFiniteSet(1 .. n) /\ Cardinality(1 .. n) = IF 1 > n THEN 0 ELSE n - 1 + 1
    BY <2>1, FS_Interval
  <2> QED  BY <1>1, <2>2
<1>4. Cardinality(ItemsIn(q)) = n
  BY <1>2, <1>3, FS_Bijection DEF ExistsBijection
<1> QED  BY <1>4 DEF n

TaskEntry == [at : {"run", "load", "store"}, batch : Seq(Items), seen : Nat]

(* What the average of sizes up to FirstMaxBatch stays below.              *)
AvgLimit == IF FirstMaxBatch >= 9 THEN FirstMaxBatch - 9 ELSE 0

(* A task has its permit and a batch of its own.                           *)
TasksInv ==
    /\ bpTasks \subseteq TaskEntry /\ IsFiniteSet(bpTasks)
    /\ permits \in Nat /\ permits + Cardinality(bpTasks) = ParallelBatches
    /\ \A t \in bpTasks : Len(t.batch) \in 1 .. bpMax /\ NoneTwice(t.batch)
    /\ \A t, u \in bpTasks : t # u => ItemsIn(t.batch) \cap ItemsIn(u.batch) = {}

(* An item is in at most one place from when it was submitted, and waits as *)
(* long as nobody answered.                                                *)
PlacesInv ==
    /\ bpOutcome \in [Items -> {"new", "waiting", "answered", "failed"}]
    /\ bpQueue \in Seq(Items) /\ NoneTwice(bpQueue)
    /\ bpLoop \in [at : {"look", "take", "permit"}, batch : Seq(Items)] /\ NoneTwice(bpLoop.batch)
    /\ bpLoop.at = "take" => bpQueue # <<>>
    /\ IF bpLoop.at = "permit" THEN Len(bpLoop.batch) \in 1 .. bpMax ELSE bpLoop.batch = <<>>
    /\ ItemsIn(bpQueue) \cap ItemsIn(bpLoop.batch) = {}
    /\ \A t \in bpTasks : ItemsIn(t.batch) \cap (ItemsIn(bpQueue) \cup ItemsIn(bpLoop.batch)) = {}
    /\ \A i \in Items :
          bpOutcome[i] = "waiting" <=>
             i \in ItemsIn(bpQueue) \cup ItemsIn(bpLoop.batch) \/ \E t \in bpTasks : t.at = "run" /\ i \in ItemsIn(t.batch)
    /\ \A t \in bpTasks : \A i \in ItemsIn(t.batch) : bpOutcome[i] # "new"

AverageInv ==
    /\ bpMax \in 1 .. 1000 /\ bpAvg \in Nat
    /\ FirstMaxBatch <= 90 =>
          bpMax = FirstMaxBatch /\ bpAvg <= AvgLimit /\ \A t \in bpTasks : t.seen <= AvgLimit

BpInv == TasksInv /\ PlacesInv /\ AverageInv

LEMMA NoItems == ItemsIn(<<>>) = {} /\ NoneTwice(<<>>) /\ <<>> \in Seq(Items) /\ Len(<<>>) = 0
BY EmptySeq DEF ItemsIn, NoneTwice

LEMMA SomeItem ==
    ASSUME NEW q, Len(q) \in Nat, Len(q) >= 1 PROVE ItemsIn(q) # {}
<1>1. q[1] \in ItemsIn(q)
  BY DEF ItemsIn
<1> QED  BY <1>1

(* A task that only goes on keeps its batch and its permit. *)
LEMMA TaskGoesOn ==
    ASSUME TasksInv, bpMax \in Nat, NEW t \in bpTasks, NEW u \in TaskEntry, u.batch = t.batch,
           bpTasks' = (bpTasks \ {t}) \cup {u}, UNCHANGED <<permits, bpMax>>
    PROVE  TasksInv'
<1>1. /\ IsFiniteSet(bpTasks) /\ Cardinality(bpTasks) \in Nat
      /\ IsFiniteSet(bpTasks \ {t}) /\ Cardinality(bpTasks \ {t}) = Cardinality(bpTasks) - 1
  BY FS_RemoveElement, FS_CardinalityType DEF TasksInv
<1>2. u \notin bpTasks \ {t}
  <2>1. ItemsIn(t.batch) # {}
    <3>1. Len(t.batch) \in 1 .. bpMax
      BY DEF TasksInv
    <3> QED  BY <3>1, SomeItem
  <2> QED  BY <2>1 DEF TasksInv
<1>3. IsFiniteSet(bpTasks') /\ Cardinality(bpTasks') = Cardinality(bpTasks)
  <2>1. IsFiniteSet(bpTasks') /\ Cardinality(bpTasks') = Cardinality(bpTasks \ {t}) + 1
    BY <1>1, <1>2, FS_AddElement
  <2> QED  BY <1>1, <2>1
<1>4. \A v \in bpTasks' : Len(v.batch) \in 1 .. bpMax /\ NoneTwice(v.batch)
  BY DEF TasksInv
<1>5. \A v, w \in bpTasks' : v # w => ItemsIn(v.batch) \cap ItemsIn(w.batch) = {}
  BY DEF TasksInv
<1>6. bpTasks' \subseteq TaskEntry
  BY DEF TasksInv
<1> QED  BY <1>3, <1>4, <1>5, <1>6 DEF TasksInv

LEMMA TaskEnds ==
    ASSUME TasksInv, NEW t \in bpTasks, bpTasks' = bpTasks \ {t}, permits' = permits + 1, UNCHANGED bpMax
    PROVE  TasksInv'
<1>1. /\ IsFiniteSet(bpTasks') /\ Cardinality(bpTasks') = Cardinality(bpTasks) - 1
      /\ Cardinality(bpTasks) \in Nat
  BY FS_RemoveElement, FS_CardinalityType DEF TasksInv
<1>2. permits' \in Nat /\ permits' + Cardinality(bpTasks') = ParallelBatches
  BY <1>1 DEF TasksInv
<1>3. /\ \A v \in bpTasks' : Len(v.batch) \in 1 .. bpMax /\ NoneTwice(v.batch)
      /\ \A v, w \in bpTasks' : v # w => ItemsIn(v.batch) \cap ItemsIn(w.batch) = {}
      /\ bpTasks' \subseteq TaskEntry
  BY DEF TasksInv
<1> QED  BY <1>1, <1>2, <1>3 DEF TasksInv

(* The average of averages below the limit and sizes up to the maximum.    *)
LEMMA AverageStays ==
    ASSUME NEW seen \in Nat, NEW cut \in Nat, FirstMaxBatch <= 90,
           seen <= AvgLimit, cut <= FirstMaxBatch
    PROVE  NewAvg(seen, cut) <= AvgLimit
BY BatchAssumption, Z3 DEF NewAvg, AvgLimit

LEMMA AdaptsUp ==
    ASSUME AverageInv
    PROVE  /\ Adapted(bpMax) \in 1 .. 1000 /\ bpMax <= Adapted(bpMax)
           /\ FirstMaxBatch <= 90 => Adapted(bpMax) = FirstMaxBatch
<1>1. bpMax \in 1 .. 1000 /\ bpAvg \in Nat
  BY DEF AverageInv
<1>2. (bpMax * 3) \div 2 \in Nat /\ (bpMax * 3) \div 2 >= bpMax
  BY <1>1, Z3
<1>3. Adapted(bpMax) \in 1 .. 1000 /\ bpMax <= Adapted(bpMax)
  BY <1>1, <1>2 DEF Adapted
<1>4. ASSUME FirstMaxBatch <= 90 PROVE Adapted(bpMax) = FirstMaxBatch
  <2>1. bpMax = FirstMaxBatch /\ bpAvg <= AvgLimit
    BY <1>4 DEF AverageInv
  <2>2. AvgLimit <= (bpMax * 9) \div 10
    BY <1>1, <1>4, <2>1, Z3 DEF AvgLimit
  <2>3. (bpMax * 9) \div 10 \in Int /\ AvgLimit \in Int
    BY <1>1, BatchAssumption, Z3 DEF AvgLimit
  <2> QED  BY <1>1, <2>1, <2>2, <2>3 DEF Adapted
<1> QED  BY <1>3, <1>4

LEMMA BpStart == BpInit => BpInv
<1> SUFFICES ASSUME BpInit PROVE BpInv
  OBVIOUS
<1>1. bpTasks = {} /\ IsFiniteSet(bpTasks) /\ Cardinality(bpTasks) = 0 /\ permits = ParallelBatches
  BY FS_EmptySet DEF BpInit
<1>2. TasksInv
  BY <1>1, BatchAssumption DEF TasksInv
<1>3. /\ bpQueue = <<>> /\ bpLoop = [at |-> "look", batch |-> <<>>]
      /\ bpOutcome = [i \in Items |-> "new"]
  BY DEF BpInit
<1>4. PlacesInv
  BY <1>1, <1>3, NoItems DEF PlacesInv
<1>5. AverageInv
  BY <1>1, BatchAssumption DEF AverageInv, AvgLimit, BpInit
<1> QED  BY <1>2, <1>4, <1>5 DEF BpInv

LEMMA BpStep == ASSUME BpInv, [BpNext]_bpVars PROVE BpInv'
<1> USE DEF BpInv
<1>0. bpMax \in Nat /\ bpMax >= 1 /\ bpTasks \subseteq TaskEntry
  BY DEF AverageInv, TasksInv
<1>1. ASSUME NEW i \in Items, Submit(i) PROVE BpInv'
  <2>1. /\ UNCHANGED <<bpLoop, bpTasks, permits, bpAvg, bpMax>>
        /\ bpQueue' = Append(bpQueue, i) /\ bpOutcome[i] = "new"
        /\ bpOutcome' = [bpOutcome EXCEPT ![i] = "waiting"]
    BY <1>1 DEF Submit
  <2>2. TasksInv' /\ AverageInv'
    BY <2>1 DEF TasksInv, AverageInv
  <2>3. /\ i \notin ItemsIn(bpQueue) /\ i \notin ItemsIn(bpLoop.batch)
        /\ \A t \in bpTasks : i \notin ItemsIn(t.batch)
    BY <2>1 DEF PlacesInv
  <2>4. bpQueue' \in Seq(Items) /\ ItemsIn(bpQueue') = ItemsIn(bpQueue) \cup {i} /\ NoneTwice(bpQueue')
    BY <2>1, <2>3, ItemsAppend DEF PlacesInv
  <2>5. bpQueue' # <<>>
    BY <2>4, NoItems
  <2>6. /\ bpOutcome' \in [Items -> {"new", "waiting", "answered", "failed"}]
        /\ bpOutcome'[i] = "waiting" /\ \A j \in Items : j # i => bpOutcome'[j] = bpOutcome[j]
    BY <2>1 DEF PlacesInv
  <2>7. PlacesInv'
    BY <2>1, <2>3, <2>4, <2>5, <2>6 DEF PlacesInv
  <2> QED  BY <2>2, <2>7
<1>2. CASE TimePasses
  BY <1>2, ZenonT(30) DEF TimePasses, TasksInv, PlacesInv, AverageInv
<1>3. CASE LoopLooks
  <2>1. /\ UNCHANGED <<bpQueue, bpTasks, permits, bpAvg, bpMax, bpOutcome>>
        /\ bpLoop.at = "look" /\ bpLoop' = [bpLoop EXCEPT !.at = "take"] /\ bpQueue # <<>>
    BY <1>3 DEF LoopLooks, ShouldProcess
  <2>2. bpLoop' = [at |-> "take", batch |-> bpLoop.batch]
    BY <2>1 DEF PlacesInv
  <2>3. bpLoop' \in [at : {"look", "take", "permit"}, batch : Seq(Items)]
        /\ bpLoop'.batch = bpLoop.batch /\ bpLoop'.at = "take"
    BY <2>2 DEF PlacesInv
  <2>4. TasksInv' /\ AverageInv'
    BY <2>1 DEF TasksInv, AverageInv
  <2>5. PlacesInv'
    BY <2>1, <2>3 DEF PlacesInv
  <2> QED  BY <2>4, <2>5
<1>4. CASE LoopTakes
  <2> DEFINE a == SubSeq(bpQueue, 1, BatchLen)
             b == SubSeq(bpQueue, BatchLen + 1, Len(bpQueue))
  <2>1. /\ UNCHANGED <<bpTasks, permits, bpAvg, bpMax, bpOutcome>>
        /\ bpLoop.at = "take" /\ bpLoop' = [at |-> "permit", batch |-> a] /\ bpQueue' = b
    BY <1>4 DEF LoopTakes
  <2>2. BatchLen \in 0 .. Len(bpQueue) /\ BatchLen \in 1 .. bpMax
    <3>1. bpQueue # <<>> /\ bpQueue \in Seq(Items)
      BY <2>1 DEF PlacesInv
    <3>2. Len(bpQueue) \in Nat /\ Len(bpQueue) >= 1
      BY <3>1
    <3> QED  BY <1>0, <3>2 DEF BatchLen
  <2>3. /\ a \in Seq(Items) /\ b \in Seq(Items) /\ Len(a) = BatchLen
        /\ ItemsIn(a) \cup ItemsIn(b) = ItemsIn(bpQueue)
        /\ NoneTwice(a) /\ NoneTwice(b) /\ ItemsIn(a) \cap ItemsIn(b) = {}
    BY <2>2, ItemsSplit DEF PlacesInv
  <2> HIDE DEF a, b
  <2>4. /\ bpLoop' \in [at : {"look", "take", "permit"}, batch : Seq(Items)]
        /\ bpLoop'.at = "permit" /\ bpLoop'.batch = a
    BY <2>1, <2>3
  <2>5. ItemsIn(bpLoop.batch) = {}
    BY <2>1, NoItems DEF PlacesInv
  <2>6. TasksInv' /\ AverageInv'
    BY <2>1 DEF TasksInv, AverageInv
  <2>7. PlacesInv'
    BY <2>1, <2>2, <2>3, <2>4, <2>5 DEF PlacesInv
  <2> QED  BY <2>6, <2>7
<1>5. CASE LoopSpawns
  <2> DEFINE t == [at |-> "run", batch |-> bpLoop.batch, seen |-> 0]
  <2>1. /\ bpLoop.at = "permit" /\ permits > 0 /\ permits' = permits - 1
        /\ bpTasks' = bpTasks \cup {t} /\ bpMax' = Adapted(bpMax)
        /\ bpLoop' = [at |-> "look", batch |-> <<>>]
        /\ UNCHANGED <<bpQueue, bpAvg, bpOutcome>>
    BY <1>5 DEF LoopSpawns
  <2>2. /\ t \in TaskEntry /\ t.batch = bpLoop.batch /\ t.at = "run" /\ t.seen = 0
    BY DEF PlacesInv, TaskEntry
  <2> HIDE DEF t
  <2>3. /\ Len(bpLoop.batch) \in 1 .. bpMax /\ NoneTwice(bpLoop.batch) /\ ItemsIn(bpLoop.batch) # {}
    <3>1. Len(bpLoop.batch) \in 1 .. bpMax /\ NoneTwice(bpLoop.batch)
      BY <2>1 DEF PlacesInv
    <3> QED  BY <3>1, SomeItem
  <2>4. \A u \in bpTasks : ItemsIn(u.batch) \cap ItemsIn(t.batch) = {}
    BY <2>2 DEF PlacesInv
  <2>5. t \notin bpTasks
    BY <2>2, <2>3, <2>4
  <2>6. /\ bpMax' \in 1 .. 1000 /\ bpMax <= bpMax' /\ (FirstMaxBatch <= 90 => bpMax' = FirstMaxBatch)
    BY <2>1, AdaptsUp
  <2>7. TasksInv'
    <3>1. IsFiniteSet(bpTasks') /\ Cardinality(bpTasks') = Cardinality(bpTasks) + 1 /\ Cardinality(bpTasks) \in Nat
      BY <2>1, <2>5, FS_AddElement, FS_CardinalityType DEF TasksInv
    <3>2. permits' \in Nat /\ permits' + Cardinality(bpTasks') = ParallelBatches
      BY <2>1, <3>1 DEF TasksInv
    <3>3. \A u \in bpTasks' : Len(u.batch) \in 1 .. bpMax' /\ NoneTwice(u.batch)
      <4>1. \A n \in 1 .. bpMax : n \in 1 .. bpMax'
        BY <1>0, <2>6
      <4> QED  BY <2>1, <2>2, <2>3, <4>1 DEF TasksInv
    <3>4. \A u, v \in bpTasks' : u # v => ItemsIn(u.batch) \cap ItemsIn(v.batch) = {}
      BY <2>1, <2>4 DEF TasksInv
    <3>5. bpTasks' \subseteq TaskEntry
      BY <1>0, <2>1, <2>2
    <3> QED  BY <3>1, <3>2, <3>3, <3>4, <3>5 DEF TasksInv
  <2>8. AverageInv'
    <3>1. AvgLimit >= 0
      BY BatchAssumption DEF AvgLimit
    <3> QED  BY <2>1, <2>2, <2>6, <3>1 DEF AverageInv
  <2>9. /\ bpLoop' \in [at : {"look", "take", "permit"}, batch : Seq(Items)]
        /\ bpLoop'.at = "look" /\ bpLoop'.batch = <<>> /\ ItemsIn(bpLoop'.batch) = {} /\ NoneTwice(bpLoop'.batch)
    BY <2>1, NoItems
  <2>10. ItemsIn(t.batch) = ItemsIn(bpLoop.batch) /\ ItemsIn(t.batch) \subseteq Items
    <3>1. \A k \in 1 .. Len(bpLoop.batch) : bpLoop.batch[k] \in Items
      BY DEF PlacesInv
    <3> QED  BY <2>2, <3>1 DEF ItemsIn
  <2>11. \A i \in ItemsIn(t.batch) : bpOutcome[i] # "new"
    BY <2>10 DEF PlacesInv
  <2>12. \A i \in Items :
            bpOutcome'[i] = "waiting" <=>
               \/ i \in ItemsIn(bpQueue') \cup ItemsIn(bpLoop'.batch)
               \/ \E u \in bpTasks' : u.at = "run" /\ i \in ItemsIn(u.batch)
    BY <2>1, <2>2, <2>9, <2>10 DEF PlacesInv
  <2>13. \A u \in bpTasks' : ItemsIn(u.batch) \cap (ItemsIn(bpQueue') \cup ItemsIn(bpLoop'.batch)) = {}
    BY <2>1, <2>9, <2>10 DEF PlacesInv
  <2>14. PlacesInv'
    BY <2>1, <2>9, <2>11, <2>12, <2>13 DEF PlacesInv
  <2> QED  BY <2>7, <2>8, <2>14
<1>6. ASSUME NEW t \in bpTasks, TaskAnswers(t) \/ TaskPanics(t) PROVE BpInv'
  <2>0. /\ t \in TaskEntry /\ Len(t.batch) \in Nat /\ t.at = "run"
        /\ UNCHANGED <<bpQueue, bpLoop, bpAvg, bpMax>>
    BY <1>0, <1>6 DEF TaskEntry, TaskAnswers, TaskPanics
  <2>1. \A i \in Items :
           /\ i \in ItemsIn(t.batch) => bpOutcome'[i] \in {"answered", "failed"}
           /\ i \notin ItemsIn(t.batch) => bpOutcome'[i] = bpOutcome[i]
    <3>1. CASE TaskAnswers(t)
      <4>1. PICK n \in 0 .. Len(t.batch) :
               bpOutcome' = [i \in Items |->
                   IF \E k \in 1 .. n : t.batch[k] = i THEN "answered"
                   ELSE IF \E k \in n + 1 .. Len(t.batch) : t.batch[k] = i THEN "failed"
                   ELSE bpOutcome[i]]
        BY <3>1 DEF TaskAnswers
      <4>2. /\ \A k \in 1 .. Len(t.batch) : k \in 1 .. n \/ k \in n + 1 .. Len(t.batch)
            /\ \A k \in 1 .. n : k \in 1 .. Len(t.batch)
            /\ \A k \in n + 1 .. Len(t.batch) : k \in 1 .. Len(t.batch)
        BY <2>0
      <4> QED  BY <4>1, <4>2 DEF ItemsIn
    <3>2. CASE TaskPanics(t)
      BY <3>2 DEF TaskPanics, ItemsIn
    <3> QED  BY <1>6, <3>1, <3>2
  <2>2. bpOutcome' \in [Items -> {"new", "waiting", "answered", "failed"}]
    <3>1. \E f : bpOutcome' = [i \in Items |-> f[i]]
      <4>1. bpOutcome' = [i \in Items |-> bpOutcome'[i]]
        BY <1>6 DEF TaskAnswers, TaskPanics
      <4> QED  BY <4>1
    <3> QED  BY <2>1, <3>1 DEF PlacesInv
  <2>3. /\ \A u \in bpTasks' : \E v \in bpTasks : u.batch = v.batch /\ u.seen = v.seen
        /\ \A u \in bpTasks' : u.at = "run" => u \in bpTasks /\ u # t
        /\ \A u \in bpTasks : u # t => u \in bpTasks'
        /\ TasksInv'
    <3>1. CASE TaskAnswers(t)
      <4> DEFINE u == [t EXCEPT !.at = "load"]
      <4>1. u \in TaskEntry /\ u.batch = t.batch /\ u.seen = t.seen /\ u.at = "load"
        BY <2>0 DEF TaskEntry
      <4>2. bpTasks' = (bpTasks \ {t}) \cup {u} /\ UNCHANGED <<permits, bpMax>>
        BY <3>1 DEF TaskAnswers
      <4> HIDE DEF u
      <4> QED  BY <1>0, <4>1, <4>2, TaskGoesOn
    <3>2. CASE TaskPanics(t)
      BY <3>2, TaskEnds DEF TaskPanics
    <3> QED  BY <1>6, <3>1, <3>2
  <2>4. AverageInv'
    BY <2>0, <2>3 DEF AverageInv
  <2>5. \A u \in bpTasks : u # t => ItemsIn(u.batch) \cap ItemsIn(t.batch) = {}
    BY DEF TasksInv
  <2>6. ItemsIn(t.batch) \cap (ItemsIn(bpQueue) \cup ItemsIn(bpLoop.batch)) = {}
    BY DEF PlacesInv
  <2>7. \A u \in bpTasks' : ItemsIn(u.batch) \cap (ItemsIn(bpQueue') \cup ItemsIn(bpLoop'.batch)) = {}
    BY <2>0, <2>3 DEF PlacesInv
  <2>8. ASSUME NEW i \in Items
        PROVE  bpOutcome'[i] = "waiting" <=>
                  \/ i \in ItemsIn(bpQueue') \cup ItemsIn(bpLoop'.batch)
                  \/ \E u \in bpTasks' : u.at = "run" /\ i \in ItemsIn(u.batch)
    <3>1. CASE i \in ItemsIn(t.batch)
      <4>1. bpOutcome'[i] # "waiting"
        BY <2>1, <3>1
      <4>2. ~\E u \in bpTasks' : u.at = "run" /\ i \in ItemsIn(u.batch)
        BY <2>3, <2>5, <3>1
      <4> QED  BY <2>0, <2>6, <3>1, <4>1, <4>2
    <3>2. CASE i \notin ItemsIn(t.batch)
      <4>1. bpOutcome'[i] = bpOutcome[i]
        BY <2>1, <3>2
      <4>2. (\E u \in bpTasks' : u.at = "run" /\ i \in ItemsIn(u.batch))
            <=> \E u \in bpTasks : u.at = "run" /\ i \in ItemsIn(u.batch)
        BY <2>3, <3>2
      <4> QED  BY <2>0, <4>1, <4>2 DEF PlacesInv
    <3> QED  BY <3>1, <3>2
  <2>9. ASSUME NEW u \in bpTasks', NEW i \in ItemsIn(u.batch) PROVE bpOutcome'[i] # "new"
    <3>1. PICK v \in bpTasks : u.batch = v.batch
      BY <2>3
    <3>2. i \in Items
      <4>1. \A k \in 1 .. Len(v.batch) : v.batch[k] \in Items
        BY <1>0 DEF TaskEntry
      <4> QED  BY <3>1, <4>1 DEF ItemsIn
    <3>3. bpOutcome[i] # "new"
      BY <3>1 DEF PlacesInv
    <3> QED  BY <2>1, <3>2, <3>3
  <2>10. PlacesInv'
    BY <2>0, <2>2, <2>7, <2>8, <2>9 DEF PlacesInv
  <2> QED  BY <2>3, <2>4, <2>10
<1>7. ASSUME NEW t \in bpTasks, TaskLoads(t) PROVE BpInv'
  <2> DEFINE u == [t EXCEPT !.at = "store", !.seen = bpAvg]
  <2>1. /\ t \in TaskEntry /\ t.at = "load" /\ bpTasks' = (bpTasks \ {t}) \cup {u}
        /\ UNCHANGED <<bpQueue, bpLoop, permits, bpAvg, bpMax, bpOutcome>>
    BY <1>0, <1>7 DEF TaskLoads
  <2>2. u \in TaskEntry /\ u.batch = t.batch /\ u.seen = bpAvg /\ u.at = "store"
    BY <2>1 DEF TaskEntry, AverageInv
  <2> HIDE DEF u
  <2>3. TasksInv'
    BY <1>0, <2>1, <2>2, TaskGoesOn
  <2>4. AverageInv'
    BY <2>1, <2>2 DEF AverageInv
  <2>5. PlacesInv'
    BY <2>1, <2>2 DEF PlacesInv
  <2> QED  BY <2>3, <2>4, <2>5
<1>8. ASSUME NEW t \in bpTasks, TaskStores(t) PROVE BpInv'
  <2>1. /\ t \in TaskEntry /\ t.at = "store" /\ bpTasks' = bpTasks \ {t} /\ permits' = permits + 1
        /\ bpAvg' = NewAvg(t.seen, Len(t.batch))
        /\ UNCHANGED <<bpQueue, bpLoop, bpMax, bpOutcome>>
    BY <1>0, <1>8 DEF TaskStores
  <2>2. TasksInv'
    BY <2>1, TaskEnds
  <2>3. t.seen \in Nat /\ Len(t.batch) \in Nat /\ Len(t.batch) <= bpMax
    BY <1>0, <2>1 DEF TaskEntry, TasksInv
  <2>4. bpAvg' \in Nat
    BY <2>1, <2>3, Z3 DEF NewAvg
  <2>5. FirstMaxBatch <= 90 => bpAvg' <= AvgLimit
    BY <2>1, <2>3, AverageStays DEF AverageInv
  <2>6. AverageInv'
    BY <2>1, <2>4, <2>5 DEF AverageInv
  <2>7. PlacesInv'
    BY <2>1 DEF PlacesInv
  <2> QED  BY <2>2, <2>6, <2>7
<1>9. CASE UNCHANGED bpVars
  BY <1>9, ZenonT(30) DEF bpVars, TasksInv, PlacesInv, AverageInv
<1> QED  BY <1>1, <1>2, <1>3, <1>4, <1>5, <1>6, <1>7, <1>8, <1>9 DEF BpNext, BpLoopStep, BpTaskStep

LEMMA BpGives == ASSUME BpInv PROVE BatchesAccounted
<1> DEFINE runs == {t.batch : t \in {u \in bpTasks : u.at = "run"}}
           held == {bpQueue, bpLoop.batch} \cup runs
           In(s) == {s[k] : k \in 1 .. Len(s)}
<1>1. \A s : In(s) = ItemsIn(s)
  BY DEF ItemsIn
<1>2. \A s \in held : \/ s = bpQueue \/ s = bpLoop.batch
                      \/ \E t \in bpTasks : t.at = "run" /\ s = t.batch
  OBVIOUS
<1>3. \A t \in bpTasks : t.at = "run" => t.batch \in held
  OBVIOUS
<1>4. bpQueue \in held /\ bpLoop.batch \in held
  OBVIOUS
<1>5. \A s \in held : s \in Seq(Items) /\ NoneTwice(s)
  BY <1>2 DEF BpInv, TasksInv, PlacesInv, TaskEntry
<1>6. \A s \in held : ItemsIn(s) \subseteq Items
  <2> HIDE DEF held
  <2>1. \A s \in held : \A k \in 1 .. Len(s) : s[k] \in Items
    BY <1>5
  <2> QED  BY <2>1 DEF ItemsIn
<1> HIDE DEF held, In
<1>7. {i \in Items : bpOutcome[i] = "waiting"} = UNION {In(s) : s \in held}
  <2>1. ASSUME NEW i \in Items, bpOutcome[i] = "waiting" PROVE \E s \in held : i \in ItemsIn(s)
    BY <1>3, <1>4, <2>1 DEF BpInv, PlacesInv
  <2>2. ASSUME NEW s \in held, NEW i \in ItemsIn(s) PROVE i \in Items /\ bpOutcome[i] = "waiting"
    BY <1>2, <1>6, <2>2 DEF BpInv, PlacesInv
  <2> QED  BY <1>1, <2>1, <2>2
<1>8. \A s, t \in held : s # t => In(s) \cap In(t) = {}
  <2>1. \A t, u \in bpTasks : t # u => ItemsIn(t.batch) \cap ItemsIn(u.batch) = {}
    BY DEF BpInv, TasksInv
  <2>2. /\ ItemsIn(bpQueue) \cap ItemsIn(bpLoop.batch) = {}
        /\ \A t \in bpTasks : ItemsIn(t.batch) \cap (ItemsIn(bpQueue) \cup ItemsIn(bpLoop.batch)) = {}
    BY DEF BpInv, PlacesInv
  <2>3. ASSUME NEW s \in held, NEW t \in held, s # t PROVE ItemsIn(s) \cap ItemsIn(t) = {}
    <3>1. CASE s \in {bpQueue, bpLoop.batch} /\ t \in {bpQueue, bpLoop.batch}
      BY <2>2, <2>3, <3>1
    <3>2. ASSUME NEW u \in bpTasks, s = u.batch PROVE ItemsIn(s) \cap ItemsIn(t) = {}
      BY <1>2, <2>1, <2>2, <2>3, <3>2
    <3>3. ASSUME NEW u \in bpTasks, t = u.batch PROVE ItemsIn(s) \cap ItemsIn(t) = {}
      BY <1>2, <2>1, <2>2, <2>3, <3>3
    <3> QED  BY <1>2, <3>1, <3>2, <3>3
  <2> QED  BY <1>1, <2>3
<1>9. \A s \in held : Cardinality(In(s)) = Len(s)
  BY <1>1, <1>5, ItemsCount
<1>10. /\ \A t \in bpTasks : Len(t.batch) \in 1 .. bpMax
       /\ permits + Cardinality(bpTasks) = ParallelBatches
       /\ FirstMaxBatch <= 90 => bpMax = FirstMaxBatch
  BY DEF BpInv, TasksInv, AverageInv
<1> QED  BY <1>7, <1>8, <1>9, <1>10 DEF BatchesAccounted, held, In

(* BatchesAlwaysAccounted: for any items, batch sizes and number of tasks,  *)
(* batch_processor.rs loses and doubles no submission and no permit, and    *)
(* never adapts from a maximum of up to 90.                                 *)
THEOREM BatchesAlwaysAccounted == BpSpec => []BatchesAccounted
BY BpStart, BpStep, BpGives, PTL DEF BpSpec
-----------------------------------------------------------------------------
(* MemoryCache, for any threads, keys, values and lengths *)

(* One thread at a time, or no clear: a clear beside a put may reset the    *)
(* size while an entry survives.                                            *)
ClearsApart == "clear" \notin Ops \/ \A t, u \in Threads : t = u

(* A thread inside clear has left no entry, which a quiet cache's size and  *)
(* counts follow when it is done; one in put has the key and value of it.   *)
CacheInv ==
    /\ TypeOK
    /\ IsFiniteSet(Cached)
    /\ \A t \in Threads : arg[t] # None <=> pc[t] = "put"
    /\ \A t \in Threads : pc[t] = "put" => Size[arg[t].val] <= MaxSize /\ arg[t].key \notin Cached
    /\ ~Quiet => Cached = {} /\ "clear" \in Ops
    /\ \A t \in Threads : pc[t] = "clear_size" => counted = {}
    /\ SizeIsWeight /\ Evictable

LEMMA WeightFact ==
    ASSUME TypeOK, IsFiniteSet(Cached), NEW S \in SUBSET Cached
    PROVE  /\ WeightOf(Cached) = WeightOf(S) + WeightOf(Cached \ S)
           /\ WeightOf(S) \in Nat /\ WeightOf(Cached \ S) \in Nat
<1> DEFINE f == [k \in Cached |-> SizeOf(k)]
<1>1. \A k \in Cached : f[k] \in Nat
  BY CacheAssumption DEF TypeOK, Cached, SizeOf
<1>2. \A V \in SUBSET Cached : IsFiniteSet(V) /\ WeightOf(V) = SumFunctionOnSet(f, V)
  <2> SUFFICES ASSUME NEW V \in SUBSET Cached
               PROVE  IsFiniteSet(V) /\ WeightOf(V) = SumFunctionOnSet(f, V)
    OBVIOUS
  <2>1. \A k \in V : [x \in V |-> SizeOf(x)][k] = f[k]
    OBVIOUS
  <2>2. IsFiniteSet(V)
    BY FS_Subset
  <2> HIDE DEF f
  <2> QED  BY <2>1, <2>2, SumSame DEF WeightOf
<1> HIDE DEF f
<1>3. \A V \in SUBSET Cached : SumFunctionOnSet(f, V) \in Nat
  BY <1>1, <1>2, SumNat
<1>4. SumFunctionOnSet(f, Cached) = SumFunctionOnSet(f, S) + SumFunctionOnSet(f, Cached \ S)
  BY <1>1, SumSplit
<1>5. Cached \ S \in SUBSET Cached /\ Cached \in SUBSET Cached
  OBVIOUS
<1> QED  BY <1>2, <1>3, <1>4, <1>5

(* The entries outside S weigh what they did. *)
LEMMA WeightSame ==
    ASSUME NEW S, \A k \in S : data'[k] = data[k]
    PROVE  WeightOf(S)' = WeightOf(S)
<1>1. \A k \in S : [x \in S |-> SizeOf(x)'][k] = [x \in S |-> SizeOf(x)][k]
  BY DEF SizeOf
<1>2. SumFunctionOnSet([x \in S |-> SizeOf(x)'], S) = SumFunctionOnSet([x \in S |-> SizeOf(x)], S)
  BY <1>1, SumSame
<1> QED  BY <1>2 DEF WeightOf

(* What of a queue is retained: the same keys but those of S. *)
LEMMA RetainKeeps ==
    ASSUME NEW q \in Seq(Keys), NEW S
    PROVE  /\ Retain(q, S) \in Seq(Keys)
           /\ \A i \in DOMAIN q : q[i] \notin S => \E j \in DOMAIN Retain(q, S) : Retain(q, S)[j] = q[i]
<1> DEFINE K == {i \in DOMAIN q : q[i] \notin S}
           r == Retained(q, K)
<1>1. r \in Seq(Keys) /\ \E at : PickedAt(at, r, q, K, Len(q))
  BY RetainedIs
<1>2. PICK at : PickedAt(at, r, q, K, Len(q))
  BY <1>1
<1>3. DOMAIN q = 1 .. Len(q) /\ DOMAIN r = 1 .. Len(r)
  BY <1>1
<1>4. ASSUME NEW i \in DOMAIN q, q[i] \notin S PROVE \E j \in DOMAIN r : r[j] = q[i]
  <2>1. PICK j \in 1 .. Len(r) : at[j] = i
    BY <1>2, <1>3, <1>4 DEF PickedAt
  <2>2. r[j] = q[i]
    BY <1>2, <2>1 DEF PickedAt
  <2> QED  BY <1>3, <2>1, <2>2
<1>5. Retain(q, S) = r
  BY DEF Retain
<1> HIDE DEF r
<1> QED  BY <1>1, <1>4, <1>5

LEMMA Small == ASSUME NEW n \in Nat, n < Word PROVE n % Word = n
<1>1. Word \in Nat /\ Word > 0
  BY CacheAssumption
<1> QED  BY <1>1, Z3

LEMMA InWord == \A n \in Int : n % Word \in 0 .. (Word - 1)
<1>1. Word \in Nat /\ Word > 0
  BY CacheAssumption
<1> QED  BY <1>1, Z3

(* A thread outside clear is alone in the cache, or there is no clear. *)
LEMMA OnlyQuiet ==
    ASSUME CacheInv, ClearsApart, NEW t \in Threads, pc[t] \in {"idle", "put"}
    PROVE  Quiet
<1>1. CASE "clear" \notin Ops
  BY <1>1 DEF CacheInv
<1>2. CASE \A u, w \in Threads : u = w
  BY <1>2 DEF Quiet
<1> QED  BY <1>1, <1>2 DEF ClearsApart

(* The entries of S go and take their weight with them. *)
LEMMA Lighter ==
    ASSUME CacheInv, Quiet, NEW S \in SUBSET Cached,
           data' = [k \in Keys |-> IF k \in S THEN None ELSE data[k]],
           size' = Minus(size, WeightOf(S))
    PROVE  /\ data' \in [Keys -> Values \cup {None}] /\ Cached' = Cached \ S /\ IsFiniteSet(Cached')
           /\ size' = WeightOf(Cached)' /\ size' <= MaxSize /\ size' \in 0 .. (Word - 1)
<1>1. /\ TypeOK /\ IsFiniteSet(Cached) /\ size = WeightOf(Cached) /\ size <= MaxSize
      /\ MaxSize \in Nat /\ Word \in Nat /\ 2 * MaxSize < Word
  BY CacheAssumption DEF CacheInv, SizeIsWeight
<1>2. data' \in [Keys -> Values \cup {None}] /\ Cached' = Cached \ S
  BY <1>1 DEF TypeOK, Cached
<1>3. IsFiniteSet(Cached')
  BY <1>1, <1>2, FS_Subset
<1>4. PICK R : R = Cached \ S
  OBVIOUS
<1>5. WeightOf(Cached) = WeightOf(S) + WeightOf(R) /\ WeightOf(S) \in Nat /\ WeightOf(R) \in Nat
  BY <1>1, <1>4, WeightFact
<1>6. WeightOf(R)' = WeightOf(R)
  <2>1. \A k \in R : data'[k] = data[k]
    BY <1>4 DEF Cached
  <2> QED  BY <2>1, WeightSame
<1>7. WeightOf(Cached)' = WeightOf(R)'
  BY <1>2, <1>4 DEF WeightOf
<1>8. size' = WeightOf(R) /\ WeightOf(R) <= MaxSize
  <2>1. size - WeightOf(S) = WeightOf(R) /\ WeightOf(R) <= MaxSize /\ WeightOf(R) < Word
    BY <1>1, <1>5
  <2> QED  BY <1>5, <2>1, Small DEF Minus
<1> QED  BY <1>1, <1>2, <1>3, <1>5, <1>6, <1>7, <1>8

LEMMA LighterOne ==
    ASSUME CacheInv, Quiet, NEW k \in Keys, data' = [data EXCEPT ![k] = None],
           size' = IF k \in Cached THEN Minus(size, SizeOf(k)) ELSE size
    PROVE  /\ data' \in [Keys -> Values \cup {None}] /\ Cached' = Cached \ {k} /\ IsFiniteSet(Cached')
           /\ size' = WeightOf(Cached)' /\ size' <= MaxSize /\ size' \in 0 .. (Word - 1)
<1>0. TypeOK /\ size \in Nat /\ size < Word
  BY CacheAssumption DEF CacheInv, TypeOK
<1>1. WeightOf({}) = 0
  BY SumNone DEF WeightOf
<1>2. ASSUME k \in Cached PROVE WeightOf({k}) = SizeOf(k)
  <2> DEFINE f == [x \in {k} |-> SizeOf(x)]
  <2>1. SizeOf(k) \in Nat
    BY <1>0, <1>2, CacheAssumption DEF TypeOK, SizeOf, Cached
  <2>2. {k} = {} \cup {k} /\ IsFiniteSet({}) /\ f[k] = SizeOf(k)
    BY FS_EmptySet
  <2>3. \A x \in {} \cup {k} : f[x] \in Int
    BY <2>1, <2>2
  <2> HIDE DEF f
  <2>4. SumFunctionOnSet(f, {} \cup {k}) = f[k] + SumFunctionOnSet(f, {})
    BY <2>2, <2>3, SumAdd
  <2>5. SumFunctionOnSet(f, {k}) = f[k] + 0
    BY <2>2, <2>4, SumNone
  <2> QED  BY <2>1, <2>2, <2>5 DEF WeightOf, f
<1>3. CASE k \in Cached
  <2>1. data' = [x \in Keys |-> IF x \in {k} THEN None ELSE data[x]]
    BY <1>0 DEF TypeOK
  <2>2. size' = Minus(size, WeightOf({k}))
    BY <1>2, <1>3
  <2> QED  BY <1>3, <2>1, <2>2, Lighter
<1>4. CASE k \notin Cached
  <2>1. PICK S : S = {}
    OBVIOUS
  <2>2. data' = [x \in Keys |-> IF x \in S THEN None ELSE data[x]]
    BY <1>0, <1>4, <2>1 DEF TypeOK, Cached
  <2>3. size' = Minus(size, WeightOf(S))
    <3>1. size - 0 = size
      BY <1>0
    <3> QED  BY <1>0, <1>1, <1>4, <2>1, <3>1, Small DEF Minus
  <2>4. S \in SUBSET Cached /\ Cached \ S = Cached \ {k}
    BY <1>4, <2>1
  <2> QED  BY <2>2, <2>3, <2>4, Lighter
<1> QED  BY <1>3, <1>4

(* The new entry adds its weight. *)
LEMMA Heavier ==
    ASSUME CacheInv, Quiet, NEW k \in Keys, k \notin Cached, NEW v \in Values,
           data' = [data EXCEPT ![k] = v], size' = Plus(size, Size[v]),
           Size[v] <= MaxSize, Plus(size, Size[v]) <= MaxSize
    PROVE  /\ data' \in [Keys -> Values \cup {None}] /\ Cached' = Cached \cup {k} /\ IsFiniteSet(Cached')
           /\ size' = WeightOf(Cached)' /\ size' <= MaxSize /\ size' \in 0 .. (Word - 1)
<1>1. /\ TypeOK /\ IsFiniteSet(Cached) /\ size = WeightOf(Cached) /\ size <= MaxSize /\ size \in Nat
      /\ MaxSize \in Nat /\ Word \in Nat /\ 2 * MaxSize < Word /\ Size[v] \in Nat /\ v # None
  BY CacheAssumption DEF CacheInv, SizeIsWeight, TypeOK
<1>2. data' \in [Keys -> Values \cup {None}] /\ Cached' = Cached \cup {k}
  BY <1>1 DEF TypeOK, Cached
<1>3. IsFiniteSet(Cached')
  BY <1>1, <1>2, FS_AddElement
<1>4. PICK R : R = Cached
  OBVIOUS
<1>5. WeightOf(R)' = WeightOf(R) /\ WeightOf(R) = size
  <2>1. \A x \in R : data'[x] = data[x]
    BY <1>1, <1>4 DEF Cached, TypeOK
  <2> QED  BY <1>1, <1>4, <2>1, WeightSame
<1>6. WeightOf(Cached)' = Size[v] + WeightOf(R)'
  <2> DEFINE f == [x \in R \cup {k} |-> SizeOf(x)']
             g == [x \in R |-> SizeOf(x)']
  <2>1. f[k] = Size[v] /\ \A x \in R : g[x] = f[x]
    BY <1>1 DEF TypeOK, SizeOf
  <2>2. \A x \in R \cup {k} : f[x] \in Int
    <3>1. \A x \in R \cup {k} : SizeOf(x)' \in Nat
      BY <1>1, <1>2, <1>4, CacheAssumption DEF TypeOK, SizeOf, Cached
    <3> QED  BY <3>1
  <2>3. IsFiniteSet(R) /\ k \notin R
    BY <1>1, <1>4
  <2>4. WeightOf(Cached)' = SumFunctionOnSet(f, R \cup {k}) /\ WeightOf(R)' = SumFunctionOnSet(g, R)
    BY <1>2, <1>4 DEF WeightOf
  <2> HIDE DEF f, g
  <2>5. SumFunctionOnSet(f, R \cup {k}) = f[k] + SumFunctionOnSet(g, R)
    BY <2>1, <2>2, <2>3, SumAdd
  <2> QED  BY <2>1, <2>4, <2>5
<1>7. size' = size + Size[v]
  <2>1. size + Size[v] < Word /\ size + Size[v] \in Nat
    BY <1>1
  <2> QED  BY <2>1, Small DEF Plus
<1> QED  BY <1>1, <1>2, <1>3, <1>5, <1>6, <1>7

LEMMA GetStep ==
    ASSUME CacheInv, ClearsApart, NEW t \in Threads, NEW k \in Keys, Get(t, k) PROVE CacheInv'
<1>1. Quiet /\ TypeOK /\ k \in Cached
  BY OnlyQuiet DEF Get, CacheInv
<1>2. UNCHANGED <<data, size, holder, pc, arg>> /\ Cached' = Cached
  BY DEF Get, Cached
<1>3. /\ Retain(queue, {k}) \in Seq(Keys) /\ Retain(used, {k}) \in Seq(Keys)
      /\ \A i \in DOMAIN queue : queue[i] # k =>
            \E j \in DOMAIN Retain(queue, {k}) : Retain(queue, {k})[j] = queue[i]
  BY <1>1, RetainKeeps DEF TypeOK
<1>4. queue' = Append(Retain(queue, {k}), k) /\ used' = Append(Retain(used, {k}), k)
      /\ counted' = counted \cup {k}
  BY DEF Get, MoveBack
<1>5. TypeOK'
  BY <1>1, <1>2, <1>3, <1>4 DEF TypeOK
<1>6. \A c \in Cached' : \E i \in DOMAIN queue' : queue'[i] = c
  <2> DEFINE r == Retain(queue, {k})
  <2> HIDE DEF r
  <2>1. r \in Seq(Keys) /\ queue' = Append(r, k)
    BY <1>3, <1>4 DEF r
  <2>2. DOMAIN r \subseteq DOMAIN queue' /\ Len(r) + 1 \in DOMAIN queue' /\ queue'[Len(r) + 1] = k
        /\ \A j \in DOMAIN r : queue'[j] = r[j]
    BY <2>1
  <2>3. \A i \in DOMAIN queue : queue[i] # k => \E j \in DOMAIN r : r[j] = queue[i]
    BY <1>3 DEF r
  <2>4. \A c \in Cached : \E i \in DOMAIN queue : queue[i] = c
    BY <1>1 DEF CacheInv, Evictable
  <2> QED  BY <1>2, <2>2, <2>3, <2>4
<1>7. counted' \subseteq Cached' \cup {arg'[u].key : u \in {w \in Threads : arg'[w] # None}}
  BY <1>1, <1>2, <1>4 DEF CacheInv, Evictable
<1>8. SizeIsWeight' /\ Quiet'
  <2>1. PICK R : R = Cached
    OBVIOUS
  <2>2. WeightOf(R)' = WeightOf(R)
    BY <1>2, WeightSame
  <2>3. size' = WeightOf(Cached)' /\ size' <= MaxSize
    BY <1>1, <1>2, <2>1, <2>2 DEF CacheInv, SizeIsWeight, WeightOf
  <2>4. Quiet'
    BY <1>1, <1>2 DEF Quiet
  <2> QED  BY <2>3, <2>4 DEF SizeIsWeight
<1> QED  BY <1>1, <1>2, <1>5, <1>6, <1>7, <1>8 DEF CacheInv, Evictable, Quiet

LEMMA PutStartStep ==
    ASSUME CacheInv, ClearsApart, NEW t \in Threads, NEW k \in Keys, NEW v \in Values, PutStart(t, k, v)
    PROVE  CacheInv'
<1>1. Quiet /\ TypeOK /\ pc[t] = "idle" /\ holder = None /\ Size[v] <= MaxSize
  BY OnlyQuiet DEF PutStart, CacheInv
<1>2. /\ data' = [data EXCEPT ![k] = None]
      /\ size' = IF k \in Cached THEN Minus(size, SizeOf(k)) ELSE size
      /\ holder' = t /\ arg' = [arg EXCEPT ![t] = [key |-> k, val |-> v]]
      /\ pc' = [pc EXCEPT ![t] = "put"] /\ UNCHANGED <<used, queue, counted>>
  BY DEF PutStart, Goto
<1>3. /\ data' \in [Keys -> Values \cup {None}] /\ Cached' = Cached \ {k} /\ IsFiniteSet(Cached')
      /\ size' = WeightOf(Cached)' /\ size' <= MaxSize /\ size' \in 0 .. (Word - 1)
  BY <1>1, <1>2, LighterOne
<1>4. \A u \in Threads : pc[u] # "put"
  BY <1>1, CacheAssumption DEF TypeOK
<1>5. Quiet'
  BY <1>1, <1>2 DEF Quiet, TypeOK
<1>6. arg'[t] = [key |-> k, val |-> v] /\ arg'[t] # None /\ pc'[t] = "put"
      /\ \A u \in Threads : u # t => arg'[u] = arg[u] /\ pc'[u] = pc[u]
  <2>1. arg'[t] = [key |-> k, val |-> v] /\ pc'[t] = "put"
        /\ \A u \in Threads : u # t => arg'[u] = arg[u] /\ pc'[u] = pc[u]
    BY <1>1, <1>2 DEF TypeOK
  <2>2. [key |-> k, val |-> v] \in [key : Keys, val : Values]
    OBVIOUS
  <2> QED  BY <2>1, <2>2, CacheAssumption
<1>7. TypeOK'
  BY <1>1, <1>2, <1>3, <1>4, <1>6 DEF TypeOK
<1>8. /\ \A u \in Threads : arg'[u] # None <=> pc'[u] = "put"
      /\ \A u \in Threads : pc'[u] = "put" => Size[arg'[u].val] <= MaxSize /\ arg'[u].key \notin Cached'
  BY <1>1, <1>3, <1>4, <1>6 DEF CacheInv
<1>9. /\ \A c \in Cached' : \E i \in DOMAIN queue' : queue'[i] = c
      /\ counted' \subseteq Cached' \cup {arg'[u].key : u \in {w \in Threads : arg'[w] # None}}
  <2>1. \A c \in Cached : \E i \in DOMAIN queue : queue[i] = c
    BY <1>1 DEF CacheInv, Evictable
  <2>2. counted \subseteq Cached
    BY <1>1, <1>4 DEF CacheInv, Evictable
  <2>3. k \in {arg'[u].key : u \in {w \in Threads : arg'[w] # None}}
    BY <1>6
  <2> QED  BY <1>2, <1>3, <2>1, <2>2, <2>3
<1>10. \A u \in Threads : pc'[u] = "clear_size" => counted' = {}
  BY <1>5 DEF Quiet
<1> QED  BY <1>3, <1>5, <1>7, <1>8, <1>9, <1>10 DEF CacheInv, SizeIsWeight, Evictable

LEMMA PutEvictStep ==
    ASSUME CacheInv, ClearsApart, NEW t \in Threads, PutEvict(t) PROVE CacheInv'
<1> DEFINE k == Head(queue)
<1>1. Quiet /\ TypeOK /\ pc[t] = "put" /\ queue # <<>>
  BY OnlyQuiet DEF PutEvict, CacheInv
<1>2. /\ data' = [data EXCEPT ![k] = None]
      /\ size' = IF k \in Cached THEN Minus(size, SizeOf(k)) ELSE size
      /\ counted' = IF k \in Cached THEN counted \ {k} ELSE counted
      /\ queue' = Tail(queue) /\ UNCHANGED <<used, holder, pc, arg>>
  BY DEF PutEvict
<1>3. /\ k \in Keys /\ queue' \in Seq(Keys) /\ k = queue[1]
      /\ \A i \in DOMAIN queue : i = 1 \/ (i - 1 \in DOMAIN queue' /\ queue'[i - 1] = queue[i])
  BY <1>1, <1>2 DEF TypeOK
<1> HIDE DEF k
<1>4. /\ data' \in [Keys -> Values \cup {None}] /\ Cached' = Cached \ {k} /\ IsFiniteSet(Cached')
      /\ size' = WeightOf(Cached)' /\ size' <= MaxSize /\ size' \in 0 .. (Word - 1)
  BY <1>1, <1>2, <1>3, LighterOne
<1>5. TypeOK'
  BY <1>1, <1>2, <1>3, <1>4 DEF TypeOK
<1>6. Quiet'
  BY <1>1, <1>2 DEF Quiet
<1>7. \A c \in Cached' : \E i \in DOMAIN queue' : queue'[i] = c
  <2>1. \A c \in Cached : \E i \in DOMAIN queue : queue[i] = c
    BY <1>1 DEF CacheInv, Evictable
  <2> QED  BY <1>3, <1>4, <2>1
<1>8. counted' \subseteq Cached' \cup {arg'[u].key : u \in {w \in Threads : arg'[w] # None}}
  <2>1. counted \subseteq Cached \cup {arg[u].key : u \in {w \in Threads : arg[w] # None}}
    BY <1>1 DEF CacheInv, Evictable
  <2> QED  BY <1>2, <1>4, <2>1
<1>9. \A u \in Threads : /\ arg'[u] # None <=> pc'[u] = "put"
                         /\ pc'[u] = "put" => Size[arg'[u].val] <= MaxSize /\ arg'[u].key \notin Cached'
                         /\ pc'[u] = "clear_size" => counted' = {}
  BY <1>2, <1>4 DEF CacheInv
<1> QED  BY <1>4, <1>5, <1>6, <1>7, <1>8, <1>9 DEF CacheInv, SizeIsWeight, Evictable

LEMMA PutInsertStep ==
    ASSUME CacheInv, ClearsApart, NEW t \in Threads, PutInsert(t) PROVE CacheInv'
<1> DEFINE k == arg[t].key
           v == arg[t].val
<1>1. Quiet /\ TypeOK /\ pc[t] = "put" /\ holder = t /\ Plus(size, Size[v]) <= MaxSize
  BY OnlyQuiet DEF PutInsert, CacheInv, TypeOK, HasRoom
<1>2. /\ data' = [data EXCEPT ![k] = v] /\ size' = Plus(size, Size[v])
      /\ used' = Append(Retain(used, {k}), k) /\ queue' = Append(queue, k)
      /\ holder' = None /\ arg' = [arg EXCEPT ![t] = None]
      /\ pc' = [pc EXCEPT ![t] = "idle"] /\ UNCHANGED counted
  BY DEF PutInsert, Goto, MoveBack
<1>3. k \in Keys /\ v \in Values /\ k \notin Cached /\ Size[v] <= MaxSize
  BY <1>1 DEF TypeOK, CacheInv
<1> HIDE DEF k, v
<1>4. /\ data' \in [Keys -> Values \cup {None}] /\ Cached' = Cached \cup {k} /\ IsFiniteSet(Cached')
      /\ size' = WeightOf(Cached)' /\ size' <= MaxSize /\ size' \in 0 .. (Word - 1)
  BY <1>1, <1>2, <1>3, Heavier
<1>5. Retain(used, {k}) \in Seq(Keys)
  BY <1>1, RetainKeeps DEF TypeOK
<1>6. /\ arg'[t] = None /\ pc'[t] = "idle"
      /\ \A u \in Threads : u # t => /\ arg'[u] = arg[u] /\ pc'[u] = pc[u]
                                     /\ pc[u] # "put" /\ arg[u] = None
  BY <1>1, <1>2 DEF TypeOK, CacheInv
<1>7. TypeOK'
  BY <1>1, <1>2, <1>3, <1>4, <1>5, <1>6, CacheAssumption DEF TypeOK
<1>8. Quiet'
  BY <1>1, <1>6 DEF Quiet
<1>9. \A c \in Cached' : \E i \in DOMAIN queue' : queue'[i] = c
  <2>1. \A c \in Cached : \E i \in DOMAIN queue : queue[i] = c
    BY <1>1 DEF CacheInv, Evictable
  <2>2. /\ Len(queue) + 1 \in DOMAIN queue' /\ queue'[Len(queue) + 1] = k
        /\ \A i \in DOMAIN queue : i \in DOMAIN queue' /\ queue'[i] = queue[i]
    BY <1>1, <1>2, <1>3 DEF TypeOK
  <2> QED  BY <1>4, <2>1, <2>2
<1>10. counted' \subseteq Cached'
  <2>1. counted \subseteq Cached \cup {arg[u].key : u \in {w \in Threads : arg[w] # None}}
    BY <1>1 DEF CacheInv, Evictable
  <2>2. \A u \in Threads : arg[u] # None => arg[u].key = k
    BY <1>6 DEF k
  <2> QED  BY <1>2, <1>4, <2>1, <2>2
<1>11. \A u \in Threads : /\ arg'[u] # None <=> pc'[u] = "put"
                          /\ pc'[u] = "put" => Size[arg'[u].val] <= MaxSize /\ arg'[u].key \notin Cached'
                          /\ pc'[u] = "clear_size" => counted' = {}
  BY <1>6, <1>8 DEF Quiet
<1> QED  BY <1>4, <1>7, <1>8, <1>9, <1>10, <1>11 DEF CacheInv, SizeIsWeight, Evictable

LEMMA DropStep ==
    ASSUME CacheInv, ClearsApart, NEW t \in Threads, pc[t] = "idle", holder = None,
           NEW S \in SUBSET Cached, DropAll(S)
    PROVE  CacheInv'
<1>1. Quiet /\ TypeOK
  BY OnlyQuiet DEF CacheInv
<1>2. /\ data' = [k \in Keys |-> IF k \in S THEN None ELSE data[k]]
      /\ size' = Minus(size, WeightOf(S)) /\ queue' = Retain(queue, S)
      /\ counted' = counted \ S /\ UNCHANGED <<used, holder, pc, arg>>
  BY DEF DropAll
<1>3. /\ data' \in [Keys -> Values \cup {None}] /\ Cached' = Cached \ S /\ IsFiniteSet(Cached')
      /\ size' = WeightOf(Cached)' /\ size' <= MaxSize /\ size' \in 0 .. (Word - 1)
  BY <1>1, <1>2, Lighter
<1>4. /\ queue' \in Seq(Keys)
      /\ \A i \in DOMAIN queue : queue[i] \notin S => \E j \in DOMAIN queue' : queue'[j] = queue[i]
  BY <1>1, <1>2, RetainKeeps DEF TypeOK
<1>5. TypeOK'
  BY <1>1, <1>2, <1>3, <1>4 DEF TypeOK
<1>6. Quiet'
  BY <1>1, <1>2 DEF Quiet
<1>7. \A c \in Cached' : \E i \in DOMAIN queue' : queue'[i] = c
  <2>1. \A c \in Cached : \E i \in DOMAIN queue : queue[i] = c
    BY <1>1 DEF CacheInv, Evictable
  <2> QED  BY <1>3, <1>4, <2>1
<1>8. counted' \subseteq Cached' \cup {arg'[u].key : u \in {w \in Threads : arg'[w] # None}}
  <2>1. counted \subseteq Cached \cup {arg[u].key : u \in {w \in Threads : arg[w] # None}}
    BY <1>1 DEF CacheInv, Evictable
  <2> QED  BY <1>2, <1>3, <2>1
<1>9. \A u \in Threads : /\ arg'[u] # None <=> pc'[u] = "put"
                         /\ pc'[u] = "put" => Size[arg'[u].val] <= MaxSize /\ arg'[u].key \notin Cached'
                         /\ pc'[u] = "clear_size" => counted' = {}
  BY <1>2, <1>3 DEF CacheInv
<1> QED  BY <1>3, <1>5, <1>6, <1>7, <1>8, <1>9 DEF CacheInv, SizeIsWeight, Evictable

(* clear runs alone: the locks it gives back meanwhile are taken by nobody. *)
LEMMA ClearDataStep ==
    ASSUME CacheInv, ClearsApart, NEW t \in Threads, ClearData(t) PROVE CacheInv'
<1>1. /\ TypeOK /\ Threads = {t} /\ holder = None /\ pc[t] = "idle" /\ "clear" \in Ops
      /\ data' = [k \in Keys |-> None] /\ pc' = [pc EXCEPT ![t] = "clear_queue"]
      /\ UNCHANGED <<used, queue, counted, size, holder, arg>>
  BY DEF ClearData, Goto, ClearsApart, CacheInv
<1>2. pc'[t] = "clear_queue" /\ Cached' = {} /\ arg'[t] = None
  BY <1>1 DEF TypeOK, Cached, CacheInv
<1>3. TypeOK'
  BY <1>1, <1>2, CacheAssumption DEF TypeOK
<1>4. ~Quiet'
  BY <1>1, <1>2 DEF Quiet
<1>5. IsFiniteSet(Cached')
  BY <1>2, FS_EmptySet
<1> QED  BY <1>1, <1>2, <1>3, <1>4, <1>5 DEF CacheInv, SizeIsWeight, Evictable

LEMMA ClearQueueStep ==
    ASSUME CacheInv, ClearsApart, NEW t \in Threads, ClearQueue(t) PROVE CacheInv'
<1>1. ~Quiet
  BY DEF ClearQueue, Quiet
<1>2. /\ TypeOK /\ Threads = {t} /\ Cached = {} /\ "clear" \in Ops /\ pc[t] = "clear_queue"
      /\ queue' = <<>> /\ pc' = [pc EXCEPT ![t] = "clear_access"]
      /\ UNCHANGED <<data, used, counted, size, holder, arg>>
  BY <1>1 DEF ClearQueue, Goto, ClearsApart, CacheInv
<1>3. pc'[t] = "clear_access" /\ Cached' = Cached /\ arg'[t] = None
  BY <1>2 DEF TypeOK, Cached, CacheInv
<1>4. TypeOK'
  BY <1>2, <1>3 DEF TypeOK
<1>5. ~Quiet'
  BY <1>2, <1>3 DEF Quiet
<1>6. IsFiniteSet(Cached')
  BY <1>3 DEF CacheInv
<1> QED  BY <1>2, <1>3, <1>4, <1>5, <1>6 DEF CacheInv, SizeIsWeight, Evictable

LEMMA ClearAccessStep ==
    ASSUME CacheInv, ClearsApart, NEW t \in Threads, ClearAccess(t) PROVE CacheInv'
<1>1. ~Quiet
  BY DEF ClearAccess, Quiet
<1>2. /\ TypeOK /\ Threads = {t} /\ Cached = {} /\ "clear" \in Ops /\ pc[t] = "clear_access"
      /\ counted' = {} /\ pc' = [pc EXCEPT ![t] = "clear_size"]
      /\ UNCHANGED <<data, used, queue, size, holder, arg>>
  BY <1>1 DEF ClearAccess, Goto, ClearsApart, CacheInv
<1>3. pc'[t] = "clear_size" /\ Cached' = Cached /\ arg'[t] = None
  BY <1>2 DEF TypeOK, Cached, CacheInv
<1>4. TypeOK'
  BY <1>2, <1>3 DEF TypeOK
<1>5. ~Quiet'
  BY <1>2, <1>3 DEF Quiet
<1>6. IsFiniteSet(Cached')
  BY <1>3 DEF CacheInv
<1> QED  BY <1>2, <1>3, <1>4, <1>5, <1>6 DEF CacheInv, SizeIsWeight, Evictable

LEMMA ClearSizeStep ==
    ASSUME CacheInv, ClearsApart, NEW t \in Threads, ClearSize(t) PROVE CacheInv'
<1>1. ~Quiet
  BY DEF ClearSize, Quiet
<1>2. /\ TypeOK /\ Threads = {t} /\ Cached = {} /\ counted = {} /\ pc[t] = "clear_size"
      /\ size' = 0 /\ pc' = [pc EXCEPT ![t] = "idle"]
      /\ UNCHANGED <<data, used, queue, counted, holder, arg>>
  BY <1>1 DEF ClearSize, Goto, ClearsApart, CacheInv
<1>3. pc'[t] = "idle" /\ Cached' = {} /\ arg'[t] = None
  BY <1>2 DEF TypeOK, Cached, CacheInv
<1>4. size' \in 0 .. (Word - 1) /\ 0 <= MaxSize
  BY <1>2, CacheAssumption
<1>5. TypeOK'
  BY <1>2, <1>3, <1>4 DEF TypeOK
<1>6. SizeIsWeight'
  <2>1. WeightOf(Cached)' = 0
    BY <1>3, SumNone DEF WeightOf
  <2> QED  BY <1>2, <1>4, <2>1 DEF SizeIsWeight
<1>7. Quiet' /\ Evictable'
  BY <1>2, <1>3 DEF Quiet, Evictable
<1>8. IsFiniteSet(Cached')
  BY <1>3, FS_EmptySet
<1> QED  BY <1>2, <1>3, <1>5, <1>6, <1>7, <1>8 DEF CacheInv

LEMMA CacheInit == Init => CacheInv
<1> SUFFICES ASSUME Init PROVE CacheInv
  OBVIOUS
<1>1. /\ Cached = {} /\ queue = <<>> /\ used = <<>> /\ counted = {} /\ size = 0 /\ holder = None
      /\ \A t \in Threads : pc[t] = "idle" /\ arg[t] = None
  BY DEF Init, Cached
<1>2. IsFiniteSet(Cached) /\ WeightOf(Cached) = 0
  BY <1>1, FS_EmptySet, SumNone DEF WeightOf
<1>3. TypeOK
  BY <1>1, CacheAssumption DEF Init, TypeOK
<1>4. Quiet /\ SizeIsWeight /\ Evictable
  BY <1>1, <1>2, CacheAssumption DEF Quiet, SizeIsWeight, Evictable
<1> QED  BY <1>1, <1>2, <1>3, <1>4 DEF CacheInv

LEMMA CacheStep == ASSUME CacheInv, ClearsApart, [Next]_vars PROVE CacheInv'
<1>1. CASE UNCHANGED vars
  <2>1. UNCHANGED <<data, used, queue, counted, size, holder, pc, arg>>
    BY <1>1 DEF vars
  <2>2. Cached' = Cached /\ Quiet' = Quiet
    BY <2>1 DEF Cached, Quiet
  <2>3. WeightOf(Cached)' = WeightOf(Cached)
    BY <2>1, <2>2 DEF WeightOf, SizeOf
  <2> QED  BY <2>1, <2>2, <2>3 DEF CacheInv, TypeOK, SizeIsWeight, Evictable
<1>2. ASSUME NEW t \in Threads, NEW k \in Keys, RemoveEntry(t, k) PROVE CacheInv'
  <2>1. pc[t] = "idle" /\ holder = None /\ {k} \in SUBSET Cached /\ DropAll({k})
    BY <1>2 DEF RemoveEntry
  <2> QED  BY <2>1, DropStep
<1>3. ASSUME NEW t \in Threads, EvictColdEntries(t) PROVE CacheInv'
  <2>1. PICK S \in SUBSET Cached : DropAll(S)
    BY <1>3 DEF EvictColdEntries
  <2>2. pc[t] = "idle" /\ holder = None
    BY <1>3 DEF EvictColdEntries
  <2> QED  BY <2>1, <2>2, DropStep
<1>4. CASE \E t \in Threads : Start(t)
  BY <1>2, <1>3, <1>4, GetStep, PutStartStep, ClearDataStep DEF Start
<1>5. CASE \E t \in Threads : Continue(t)
  BY <1>5, PutEvictStep, PutInsertStep, ClearQueueStep, ClearAccessStep, ClearSizeStep DEF Continue
<1> QED  BY <1>1, <1>4, <1>5 DEF Next

(* CacheAlwaysSound: however gets, puts, removals and evictions interleave, *)
(* the size is the weight of the entries and fits, and every entry can be   *)
(* evicted; clear keeps this when it runs alone.                            *)
THEOREM CacheAlwaysSound == ASSUME ClearsApart PROVE Spec => []CacheSound
<1>1. CacheInv => CacheSound
  BY DEF CacheInv, CacheSound
<1> QED  BY <1>1, CacheInit, CacheStep, PTL DEF Spec

LEMMA LossyWeight == Lossy!Weight(data) = WeightOf(Cached)
<1>1. Lossy!SumFunctionOnSet([x \in Cached |-> Size[data[x]]], Cached)
      = SumFunctionOnSet([x \in Cached |-> Size[data[x]]], Cached)
  BY DEF SumFunctionOnSet, Lossy!SumFunctionOnSet, FoldFunctionOnSet, Lossy!FoldFunctionOnSet,
         MapThenFoldSet, Lossy!MapThenFoldSet
<1> QED  BY <1>1 DEF Lossy!Weight, WeightOf, Cached, SizeOf

LEMMA LossyWeightAfter == (Lossy!Weight(data) = WeightOf(Cached))'
BY LossyWeight, PTL

(* Every step of the cache drops entries or inserts one that fits. *)
LEMMA LossyStep == ASSUME CacheInv, CacheInv', [Next]_vars, ClearsApart PROVE [Lossy!Next]_data
<1>0. TypeOK
  BY DEF CacheInv
<1>1. ASSUME NEW S \in SUBSET Keys, data' = [k \in Keys |-> IF k \in S THEN None ELSE data[k]]
      PROVE  Lossy!Next
  BY <1>1 DEF Lossy!Next, Lossy!Drop
<1>2. ASSUME NEW k \in Keys, data' = [data EXCEPT ![k] = None] PROVE Lossy!Next
  <2>1. data' = [x \in Keys |-> IF x \in {k} THEN None ELSE data[x]]
    BY <1>0, <1>2 DEF TypeOK
  <2> QED  BY <1>1, <2>1
<1>3. ASSUME NEW t \in Threads, PutInsert(t) PROVE Lossy!Next
  <2>1. /\ arg[t].key \in Keys /\ arg[t].val \in Values
        /\ data' = [data EXCEPT ![arg[t].key] = arg[t].val]
    BY <1>0, <1>3 DEF PutInsert, CacheInv, TypeOK
  <2>2. pc[t] = "put" /\ pc' = [pc EXCEPT ![t] = "idle"]
    BY <1>3 DEF PutInsert, Goto
  <2>3. Quiet'
    BY <1>0, <2>2, OnlyQuiet DEF Quiet, TypeOK
  <2>4. WeightOf(Cached)' <= MaxSize
    BY <2>3 DEF CacheInv, SizeIsWeight
  <2>5. Lossy!Weight(data)' = WeightOf(Cached)'
    BY LossyWeightAfter
  <2>6. Lossy!Insert(arg[t].key, arg[t].val)
    BY <2>1, <2>4, <2>5 DEF Lossy!Insert
  <2> QED  BY <2>1, <2>6 DEF Lossy!Next
<1>4. ASSUME NEW t \in Threads, PutEvict(t) PROVE Lossy!Next
  <2>1. Head(queue) \in Keys
    BY <1>0, <1>4 DEF PutEvict, TypeOK
  <2> QED  BY <1>2, <1>4, <2>1 DEF PutEvict
<1>5. ASSUME NEW S \in SUBSET Cached, DropAll(S) PROVE Lossy!Next
  BY <1>1, <1>5 DEF DropAll, Cached
<1>6. ASSUME NEW t \in Threads, ClearData(t) PROVE Lossy!Next
  <2>1. data' = [k \in Keys |-> IF k \in Keys THEN None ELSE data[k]]
    BY <1>6 DEF ClearData
  <2> QED  BY <1>1, <2>1
<1>7. CASE \E t \in Threads : Start(t)
  <2>1. PICK t \in Threads : Start(t)
    BY <1>7
  <2>2. ASSUME NEW k \in Keys, Get(t, k) PROVE UNCHANGED data
    BY <2>2 DEF Get
  <2>3. ASSUME NEW k \in Keys, RemoveEntry(t, k) PROVE Lossy!Next
    <3>1. {k} \in SUBSET Cached /\ DropAll({k})
      BY <2>3 DEF RemoveEntry
    <3> QED  BY <1>5, <3>1
  <2>4. ASSUME NEW k \in Keys, NEW v \in Values, PutStart(t, k, v) PROVE Lossy!Next
    BY <1>2, <2>4 DEF PutStart
  <2>5. ASSUME EvictColdEntries(t) PROVE Lossy!Next
    <3>1. PICK S \in SUBSET Cached : DropAll(S)
      BY <2>5 DEF EvictColdEntries
    <3> QED  BY <1>5, <3>1
  <2> QED  BY <1>6, <2>1, <2>2, <2>3, <2>4, <2>5 DEF Start
<1>8. CASE \E t \in Threads : Continue(t)
  <2>1. ASSUME NEW t \in Threads, ClearQueue(t) \/ ClearAccess(t) \/ ClearSize(t) PROVE UNCHANGED data
    BY <2>1 DEF ClearQueue, ClearAccess, ClearSize
  <2> QED  BY <1>3, <1>4, <1>8, <2>1 DEF Continue
<1>9. CASE UNCHANGED vars
  BY <1>9 DEF vars
<1> QED  BY <1>7, <1>8, <1>9 DEF Next

(* CacheIsLossyCache: the cache implements LossyCache: an entry changes     *)
(* only to a value that is put, and what is inserted fits max_size.         *)
THEOREM CacheIsLossyCache == ASSUME ClearsApart PROVE Spec => KeepsPromise
<1>1. Init => Lossy!Init
  BY DEF Init, Lossy!Init
<1> QED  BY <1>1, CacheInit, CacheStep, LossyStep, PTL DEF Spec, KeepsPromise, Lossy!Spec
-----------------------------------------------------------------------------
(* ParallelEvm, for any calls, batches, contracts and size of the cache *)

IndicesOf(s, k) == {i \in DOMAIN s : ContractOf[s[i]] = k}

JoinsOf(s, t, k) == OfContract(s \o t, k) = OfContract(s, k) \o OfContract(t, k)

LEMMA OfContractJoins ==
    ASSUME NEW S, NEW s \in Seq(S), NEW t \in Seq(S), NEW k
    PROVE  JoinsOf(s, t, k)
<1>1. PICK u : u = s \o t
  OBVIOUS
<1>2. /\ u \in Seq(S) /\ Len(u) = Len(s) + Len(t) /\ Len(s) \in Nat /\ Len(t) \in Nat
      /\ \A i \in 1 .. Len(s) + Len(t) : u[i] = IF i <= Len(s) THEN s[i] ELSE t[i - Len(s)]
      /\ DOMAIN u = 1 .. Len(u) /\ DOMAIN s = 1 .. Len(s) /\ DOMAIN t = 1 .. Len(t)
  BY <1>1, ConcatProperties, LenProperties
<1>3. PICK K, L : K = IndicesOf(u, k) /\ L = IndicesOf(t, k)
  OBVIOUS
<1>4. \A i \in 1 .. Len(s) : i \in K <=> i \in IndicesOf(s, k)
  BY <1>2, <1>3 DEF IndicesOf
<1>5. ASSUME NEW j \in 1 .. Len(t) PROVE j \in L <=> Len(s) + j \in K
  <2>1. Len(s) + j \in 1 .. Len(s) + Len(t) /\ ~(Len(s) + j <= Len(s)) /\ (Len(s) + j) - Len(s) = j
    BY <1>2
  <2>2. u[Len(s) + j] = t[j]
    BY <1>2, <2>1
  <2> QED  BY <1>2, <1>3, <2>1, <2>2 DEF IndicesOf
<1>6. Retained(s, K) = Retained(s, IndicesOf(s, k))
  BY <1>4, RetainedSame
<1>7. Retained(u, K) = Retained(s, K) \o Retained(t, L)
  BY <1>1, <1>5, RetainedJoins
<1> QED  BY <1>1, <1>3, <1>6, <1>7 DEF JoinsOf, OfContract, IndicesOf

LEMMA OfContractAppend ==
    ASSUME NEW S, NEW s \in Seq(S), NEW x \in S, NEW k
    PROVE  OfContract(Append(s, x), k) =
              IF ContractOf[x] = k THEN Append(OfContract(s, k), x) ELSE OfContract(s, k)
<1>1. PICK u, K : u = Append(s, x) /\ K = IndicesOf(u, k)
  OBVIOUS
<1>2. /\ u \in Seq(S) /\ Len(u) = Len(s) + 1 /\ Len(s) \in Nat /\ u[Len(s) + 1] = x
      /\ \A i \in 1 .. Len(s) : u[i] = s[i]
      /\ DOMAIN u = 1 .. Len(u) /\ DOMAIN s = 1 .. Len(s)
  BY <1>1, AppendProperties, LenProperties
<1>3. \A i \in 1 .. Len(s) : i \in K <=> i \in IndicesOf(s, k)
  BY <1>1, <1>2 DEF IndicesOf
<1>4. Len(s) + 1 \in K <=> ContractOf[x] = k
  BY <1>1, <1>2 DEF IndicesOf
<1>5. Retained(s, K) = Retained(s, IndicesOf(s, k))
  BY <1>3, RetainedSame
<1>6. Retained(u, K) = IF Len(s) + 1 \in K THEN Append(Retained(s, K), x) ELSE Retained(s, K)
  BY <1>1, RetainedAppend
<1> QED  BY <1>1, <1>4, <1>5, <1>6 DEF OfContract, IndicesOf

LEMMA OfContractRetained ==
    ASSUME NEW S, NEW s \in Seq(S), NEW M, NEW k
    PROVE  OfContract(Retained(s, M), k) = Retained(s, M \cap IndicesOf(s, k))
<1>1. PICK a : RetainedBy(a, S, s, M)
  BY RetainedSteps
<1>2. PICK b : RetainedBy(b, S, s, M \cap IndicesOf(s, k))
  BY RetainedSteps
<1> DEFINE T == {n \in Nat : OfContract(a[n], k) = b[n]}
<1>3. Len(s) \in Nat /\ T \in SUBSET Nat /\ DOMAIN s = 1 .. Len(s)
  BY LenProperties
<1>4. 0 \in T
  <2>1. a[0] = <<>> /\ b[0] = <<>>
    BY <1>1, <1>2 DEF RetainedBy
  <2>2. << >> \in Seq(S) /\ Len(<< >>) = 0 /\ 1 .. 0 = {}
    BY EmptySeq
  <2>3. Retained(<< >>, IndicesOf(<< >>, k)) = << >>
    BY <2>2, RetainedAll
  <2> QED  BY <2>1, <2>3 DEF OfContract, IndicesOf
<1>5. ASSUME NEW n \in T, n < Len(s) PROVE n + 1 \in T
  <2>1. n \in 0 .. Len(s) - 1 /\ n \in 0 .. Len(s) /\ n + 1 \in 1 .. Len(s)
    BY <1>3, <1>5
  <2>2. PICK x : x = s[n + 1]
    OBVIOUS
  <2>3. x \in S /\ a[n] \in Seq(S) /\ a[n + 1] = IF n + 1 \in M THEN Append(a[n], x) ELSE a[n]
    BY <1>1, <2>1, <2>2 DEF RetainedBy
  <2>4. b[n + 1] = IF n + 1 \in M \cap IndicesOf(s, k) THEN Append(b[n], x) ELSE b[n]
    BY <1>2, <2>1, <2>2 DEF RetainedBy
  <2>5. n + 1 \in IndicesOf(s, k) <=> ContractOf[x] = k
    BY <1>3, <2>1, <2>2 DEF IndicesOf
  <2>6. OfContract(Append(a[n], x), k) =
          IF ContractOf[x] = k THEN Append(OfContract(a[n], k), x) ELSE OfContract(a[n], k)
    BY <2>3, OfContractAppend
  <2>7. OfContract(a[n], k) = b[n]
    OBVIOUS
  <2>8. OfContract(a[n + 1], k) = b[n + 1]
    BY <2>3, <2>4, <2>5, <2>6, <2>7
  <2> QED  BY <2>1, <2>8
<1> HIDE DEF T
<1>6. Len(s) \in T
  BY <1>3, <1>4, <1>5, PrefixSteps
<1> QED  BY <1>1, <1>2, <1>6 DEF RetainedBy, T

(* The positions of txs in the groups of the first k.                       *)
Taken(txs, k) ==
    {j \in 1 .. Len(txs) : \E h \in 1 .. k : Leads(txs, h) /\ (j = h \/ j \in InGroup(txs, h))}

(* A group takes positions that no earlier one has, and those of a contract *)
(* come after the earlier ones.                                             *)
LEMMA GroupIsNew ==
    ASSUME NEW S, NEW txs \in Seq(S), NEW i \in Nat, i + 1 <= Len(txs)
    PROVE  LET k == i + 1  new == {k} \cup InGroup(txs, k)
           IN  /\ new \subseteq 1 .. Len(txs) /\ \A j \in new : k <= j
               /\ ~Leads(txs, k) => Taken(txs, k) = Taken(txs, i)
               /\ Leads(txs, k) => /\ Taken(txs, k) = Taken(txs, i) \cup new
                                   /\ Taken(txs, i) \cap new = {}
                                   /\ \A c : \A x \in Taken(txs, i) \cap IndicesOf(txs, c),
                                             y \in new \cap IndicesOf(txs, c) : x < y
<1> DEFINE k == i + 1
           new == {k} \cup InGroup(txs, k)
<1>1. Len(txs) \in Nat /\ DOMAIN txs = 1 .. Len(txs) /\ k \in 1 .. Len(txs) /\ i < k
      /\ 1 .. k = (1 .. i) \cup {k}
  BY LenProperties
<1>2. new \subseteq 1 .. Len(txs) /\ \A j \in new : k <= j
  BY <1>1 DEF InGroup
<1>3. ~Leads(txs, k) => Taken(txs, k) = Taken(txs, i)
  BY <1>1 DEF Taken
<1>4. ASSUME Leads(txs, k) PROVE Taken(txs, k) = Taken(txs, i) \cup new
  BY <1>1, <1>2, <1>4 DEF Taken
<1>5. ASSUME Leads(txs, k), NEW j \in Taken(txs, i) \cap new PROVE FALSE
  <2>1. PICK h \in 1 .. i : Leads(txs, h) /\ (j = h \/ j \in InGroup(txs, h))
    BY <1>5 DEF Taken
  <2>2. k <= j /\ j \in Int
    BY <1>1, <1>2, <1>5 DEF Taken
  <2>3. j # h
    BY <1>1, <2>1, <2>2
  <2>4. HasConflict(txs[h], txs[j]) /\ (j = k \/ HasConflict(txs[k], txs[j]))
    BY <1>5, <2>1, <2>3 DEF InGroup
  <2>5. HasConflict(txs[h], txs[k])
    BY <2>4 DEF HasConflict
  <2>6. k \in InGroup(txs, h) /\ h \in 1 .. k - 1
    BY <1>1, <2>1, <2>5 DEF InGroup
  <2> QED  BY <1>5, <2>6 DEF Leads
<1>6. ASSUME Leads(txs, k), NEW c, NEW x \in Taken(txs, i) \cap IndicesOf(txs, c),
             NEW y \in new \cap IndicesOf(txs, c)
      PROVE  x < y
  <2>1. PICK h \in 1 .. i : Leads(txs, h) /\ (x = h \/ x \in InGroup(txs, h))
    BY <1>6 DEF Taken
  <2>2. k <= y /\ y \in Int /\ h < k /\ h \in 1 .. k - 1 /\ k \in h + 1 .. Len(txs)
    BY <1>1, <1>2, <1>6, <2>1
  <2>3. ContractOf[txs[x]] = c /\ ContractOf[txs[y]] = c
    BY <1>6 DEF IndicesOf
  <2>4. ContractOf[txs[k]] = c
    <3>1. y = k \/ HasConflict(txs[k], txs[y])
      BY <1>6 DEF InGroup
    <3> QED  BY <2>3, <3>1 DEF HasConflict
  <2>5. CASE x \in InGroup(txs, h)
    <3>1. HasConflict(txs[h], txs[x])
      BY <2>5 DEF InGroup
    <3>2. HasConflict(txs[h], txs[k])
      BY <2>3, <2>4, <3>1 DEF HasConflict
    <3>3. k \in InGroup(txs, h)
      BY <2>2, <3>2 DEF InGroup
    <3> QED  BY <1>6, <2>2, <3>3 DEF Leads
  <2>6. CASE x = h
    BY <1>1, <2>1, <2>2, <2>6
  <2> QED  BY <2>1, <2>5, <2>6
<1> HIDE DEF k, new
<1>7. /\ new \subseteq 1 .. Len(txs) /\ \A j \in new : k <= j
      /\ ~Leads(txs, k) => Taken(txs, k) = Taken(txs, i)
      /\ Leads(txs, k) => /\ Taken(txs, k) = Taken(txs, i) \cup new
                          /\ Taken(txs, i) \cap new = {}
                          /\ \A c : \A x \in Taken(txs, i) \cap IndicesOf(txs, c),
                                    y \in new \cap IndicesOf(txs, c) : x < y
  BY <1>2, <1>3, <1>4, <1>5, <1>6
<1> QED  BY <1>7 DEF k, new

(* Every position is in a group. *)
LEMMA AllTaken ==
    ASSUME NEW S, NEW txs \in Seq(S)
    PROVE  Taken(txs, Len(txs)) = 1 .. Len(txs) /\ Taken(txs, 0) = {}
<1>1. Len(txs) \in Nat
  BY LenProperties
<1>2. ASSUME NEW j \in 1 .. Len(txs) PROVE j \in Taken(txs, Len(txs))
  <2>1. CASE Leads(txs, j)
    BY <1>2, <2>1 DEF Taken
  <2>2. CASE ~Leads(txs, j)
    <3> DEFINE H == {h \in 1 .. j - 1 : j \in InGroup(txs, h)}
    <3>1. H \in SUBSET Int /\ H # {} /\ H \subseteq 1 .. j - 1
      BY <2>2 DEF Leads
    <3>2. IsFiniteSet(H)
      <4>1. IsFiniteSet(1 .. j - 1)
        BY FS_Interval
      <4> QED  BY <3>1, <4>1, FS_Subset
    <3>3. PICK h \in H : \A g \in H : h <= g
      <4> HIDE DEF H
      <4> QED  BY <3>1, <3>2, Extremes
    <3>4. h \in 1 .. j - 1 /\ j \in InGroup(txs, h) /\ h \in 1 .. Len(txs)
      BY <1>1
    <3>5. ASSUME NEW g \in 1 .. h - 1, h \in InGroup(txs, g) PROVE FALSE
      <4>1. HasConflict(txs[g], txs[h]) /\ HasConflict(txs[h], txs[j])
        BY <3>4, <3>5 DEF InGroup
      <4>2. HasConflict(txs[g], txs[j])
        BY <4>1 DEF HasConflict
      <4>3. j \in InGroup(txs, g) /\ g \in 1 .. j - 1
        BY <1>1, <3>4, <3>5, <4>2 DEF InGroup
      <4>4. h <= g
        BY <3>3, <4>3
      <4> QED  BY <3>4, <3>5, <4>4
    <3>6. Leads(txs, h)
      BY <3>5 DEF Leads
    <3> QED  BY <1>2, <3>4, <3>6 DEF Taken
  <2> QED  BY <2>1, <2>2
<1>3. Taken(txs, 0) = {}
  BY DEF Taken
<1>4. Taken(txs, Len(txs)) \subseteq 1 .. Len(txs)
  BY DEF Taken
<1> QED  BY <1>2, <1>3, <1>4

(* r, what the groups of the first n positions hold, has their transactions *)
(* and those of each contract in order.                                     *)
InOrder(txs, r, n) ==
    /\ Len(r) = Cardinality(Taken(txs, n))
    /\ \A c : OfContract(r, c) = Retained(txs, Taken(txs, n) \cap IndicesOf(txs, c))

LEMMA GroupsInOrder ==
    ASSUME NEW S, NEW txs \in Seq(S), NEW i \in Nat, i + 1 <= Len(txs), NEW r \in Seq(S),
           InOrder(txs, r, i), NEW t \in Seq(S), t = Groups(txs)[i + 1]
    PROVE  InOrder(txs, r \o t, i + 1)
<1>1. PICK k, new : k = i + 1 /\ new = {k} \cup InGroup(txs, k)
  OBVIOUS
<1>2. Len(txs) \in Nat /\ k \in 1 .. Len(txs)
  BY <1>1, LenProperties
<1>3. t = IF Leads(txs, k) THEN Retained(txs, new) ELSE <<>>
  BY <1>1, <1>2 DEF Groups
<1>4. /\ new \subseteq 1 .. Len(txs)
      /\ ~Leads(txs, k) => Taken(txs, k) = Taken(txs, i)
      /\ Leads(txs, k) => /\ Taken(txs, k) = Taken(txs, i) \cup new
                          /\ Taken(txs, i) \cap new = {}
                          /\ \A c : \A x \in Taken(txs, i) \cap IndicesOf(txs, c),
                                    y \in new \cap IndicesOf(txs, c) : x < y
  BY <1>1, GroupIsNew
<1>5. CASE ~Leads(txs, k)
  <2>1. r \o t = r
    BY <1>3, <1>5, ConcatEmptySeq
  <2>2. Taken(txs, i + 1) = Taken(txs, i)
    BY <1>1, <1>4, <1>5
  <2> QED  BY <2>1, <2>2 DEF InOrder
<1>6. CASE Leads(txs, k)
  <2>1. IsFiniteSet(1 .. Len(txs)) /\ Taken(txs, i) \subseteq 1 .. Len(txs)
    <3>1. IsFiniteSet(1 .. Len(txs))
      BY <1>2, FS_Interval
    <3> QED  BY <3>1 DEF Taken
  <2>2. IsFiniteSet(Taken(txs, i)) /\ IsFiniteSet(new)
    BY <1>4, <2>1, FS_Subset
  <2>3. Len(r \o t) = Cardinality(Taken(txs, k))
    <3>1. Len(r \o t) = Len(r) + Len(t) /\ Len(r) \in Nat /\ Len(t) \in Nat
      BY ConcatProperties, LenProperties
    <3>2. Len(t) = Cardinality(new)
      <4>1. Len(Retained(txs, new)) = Cardinality(new \cap (1 .. Len(txs)))
        BY RetainedLength
      <4>2. new \cap (1 .. Len(txs)) = new
        BY <1>4
      <4> QED  BY <1>3, <1>6, <4>1, <4>2
    <3>3. Cardinality(Taken(txs, i) \cup new)
            = Cardinality(Taken(txs, i)) + Cardinality(new) - Cardinality(Taken(txs, i) \cap new)
      BY <2>2, FS_Union
    <3>4. Cardinality(Taken(txs, i) \cap new) = 0
      BY <1>4, <1>6, FS_EmptySet
    <3>5. Len(r) = Cardinality(Taken(txs, i))
      BY DEF InOrder
    <3>6. Cardinality(Taken(txs, k)) = Cardinality(Taken(txs, i) \cup new)
      BY <1>4, <1>6
    <3> QED  BY <3>1, <3>2, <3>3, <3>4, <3>5, <3>6
  <2>4. ASSUME NEW c PROVE OfContract(r \o t, c) = Retained(txs, Taken(txs, k) \cap IndicesOf(txs, c))
    <3>1. PICK A, B : A = Taken(txs, i) \cap IndicesOf(txs, c) /\ B = new \cap IndicesOf(txs, c)
      OBVIOUS
    <3>2. OfContract(r \o t, c) = OfContract(r, c) \o OfContract(t, c)
      <4>1. JoinsOf(r, t, c)
        BY OfContractJoins
      <4> QED  BY <4>1 DEF JoinsOf
    <3>3. OfContract(r, c) = Retained(txs, A)
      BY <3>1 DEF InOrder
    <3>4. OfContract(t, c) = Retained(txs, B)
      BY <1>3, <1>6, <3>1, OfContractRetained
    <3>5. \A x \in A \cap (1 .. Len(txs)), y \in B \cap (1 .. Len(txs)) : x < y
      BY <1>4, <1>6, <3>1
    <3>6. Retained(txs, A \cup B) = Retained(txs, A) \o Retained(txs, B)
      BY <3>5, RetainedSplits
    <3>7. Taken(txs, k) \cap IndicesOf(txs, c) = A \cup B
      BY <1>4, <1>6, <3>1
    <3> QED  BY <3>2, <3>3, <3>4, <3>6, <3>7
  <2> QED  BY <1>1, <2>3, <2>4 DEF InOrder
<1> QED  BY <1>5, <1>6

(* Each batch is executed in an order that keeps that of every contract. *)
LEMMA AnalysisKeepsOrder ==
    ASSUME NEW S, NEW txs \in Seq(S)
    PROVE  /\ AnalyzeTransactions(txs) \in Seq(S) /\ Len(AnalyzeTransactions(txs)) = Len(txs)
           /\ \A c : OfContract(AnalyzeTransactions(txs), c) = OfContract(txs, c)
<1>1. PICK m \in Nat : m = Len(txs)
  BY LenProperties
<1>2. PICK q : q = Groups(txs)
  OBVIOUS
<1>3. ASSUME NEW i \in 1 .. m PROVE q[i] \in Seq(S)
  <2>1. q[i] = IF Leads(txs, i) THEN Retained(txs, {i} \cup InGroup(txs, i)) ELSE <<>>
    BY <1>1, <1>2 DEF Groups
  <2>2. Retained(txs, {i} \cup InGroup(txs, i)) \in Seq(S)
    BY RetainedIs
  <2>3. << >> \in Seq(S)
    OBVIOUS
  <2> QED  BY <2>1, <2>2, <2>3
<1>4. q \in Seq(Seq(S)) /\ Len(q) = m
  <2>1. q = [i \in 1 .. m |-> q[i]]
    BY <1>1, <1>2 DEF Groups
  <2>2. q \in [1 .. m -> Seq(S)]
    BY <1>3, <2>1
  <2> QED  BY <2>2
<1>5. PICK g : FlattenedBy(g, S, q)
  BY <1>4, FlattenSteps
<1>6. /\ g \in [0 .. m -> Seq(S)] /\ g[0] = <<>> /\ AnalyzeTransactions(txs) = g[m]
      /\ \A i \in 0 .. m - 1 : q[i + 1] \in Seq(S) /\ g[i + 1] = g[i] \o q[i + 1]
  BY <1>2, <1>4, <1>5 DEF FlattenedBy, AnalyzeTransactions
<1> DEFINE T == {n \in Nat : n <= m => InOrder(txs, g[n], n)}
<1>7. 0 \in T
  <2>1. Len(g[0]) = Cardinality(Taken(txs, 0))
    BY <1>6, AllTaken, FS_EmptySet, EmptySeq
  <2>2. ASSUME NEW c PROVE OfContract(g[0], c) = Retained(txs, Taken(txs, 0) \cap IndicesOf(txs, c))
    <3>1. Taken(txs, 0) \cap IndicesOf(txs, c) \cap (1 .. Len(txs)) = {}
      BY AllTaken
    <3>2. Retained(txs, Taken(txs, 0) \cap IndicesOf(txs, c)) = << >>
      BY <3>1, RetainedAll
    <3>3. << >> \in Seq(S) /\ Len(<< >>) = 0 /\ 1 .. 0 = {}
      BY EmptySeq
    <3>4. Retained(<< >>, IndicesOf(<< >>, c)) = << >>
      BY <3>3, RetainedAll
    <3> QED  BY <1>6, <3>2, <3>4 DEF OfContract, IndicesOf
  <2> QED  BY <2>1, <2>2 DEF InOrder
<1>8. ASSUME NEW n \in T, n < m PROVE n + 1 \in T
  <2>1. n \in 0 .. m - 1 /\ n \in 0 .. m /\ n + 1 \in Nat /\ n + 1 <= Len(txs)
    BY <1>1, <1>8
  <2>2. g[n] \in Seq(S) /\ q[n + 1] \in Seq(S) /\ g[n + 1] = g[n] \o q[n + 1]
    BY <1>6, <2>1
  <2>5. InOrder(txs, g[n], n)
    BY <2>1
  <2>3. InOrder(txs, g[n] \o q[n + 1], n + 1)
    BY <1>2, <2>1, <2>2, <2>5, GroupsInOrder
  <2>4. InOrder(txs, g[n + 1], n + 1)
    BY <2>2, <2>3
  <2> QED  BY <2>1, <2>4
<1>9. T \in SUBSET Nat
  OBVIOUS
<1>10. InOrder(txs, g[m], m) /\ g[m] \in Seq(S)
  <2> HIDE DEF T
  <2>1. m \in T
    BY <1>7, <1>8, <1>9, PrefixSteps
  <2>2. m <= m
    OBVIOUS
  <2> QED  BY <1>6, <2>1, <2>2 DEF T
<1>11. Len(g[m]) = m
  <2>1. Cardinality(1 .. m) = m
    BY FS_Interval
  <2> QED  BY <1>1, <1>10, <2>1, AllTaken DEF InOrder
<1>12. ASSUME NEW c PROVE OfContract(g[m], c) = OfContract(txs, c)
  <2>1. OfContract(g[m], c) = Retained(txs, Taken(txs, m) \cap IndicesOf(txs, c))
    BY <1>10 DEF InOrder
  <2>2. Taken(txs, m) \cap IndicesOf(txs, c) = IndicesOf(txs, c)
    <3>1. Taken(txs, m) = 1 .. Len(txs) /\ DOMAIN txs = 1 .. Len(txs)
      BY <1>1, AllTaken, LenProperties
    <3> QED  BY <3>1 DEF IndicesOf
  <2> QED  BY <2>1, <2>2 DEF OfContract, IndicesOf
<1> QED  BY <1>1, <1>6, <1>10, <1>11, <1>12

Txs == DOMAIN GasOf
Answers == {<<t, GasOf[t]>> : t \in Txs}
Firsts(res) == [k \in 1 .. Len(res) |-> res[k][1]]
Calls(c) == IF evmCall[c].at = "idle" THEN 0 ELSE Calling(BatchOf[c])

EvmShape ==
    /\ IsFiniteSet(DOMAIN evmCache) /\ Cardinality(DOMAIN evmCache) <= EvmCacheSize
    /\ \A t \in DOMAIN evmCache : evmCache[t] = GasOf[t]
    /\ evmCall \in [EvmCalls -> [at : {"idle", "next", "put"}, todo : Seq(Txs), results : Seq(Answers)]]
    /\ \A c \in EvmCalls : evmCall[c].at = "put" => evmCall[c].todo # <<>>
    /\ \A c \in EvmCalls : evmCall[c].at = "idle" => evmCall[c].results = <<>>

EvmInv ==
    /\ EvmShape
    /\ prefetched = SumFunctionOnSet([c \in EvmCalls |-> Calls(c)], EvmCalls)
    /\ \A c \in EvmCalls : evmCall[c].at # "idle" => Executing(c) = AnalyzeTransactions(BatchOf[c])

(* A call that has answered the head of what it has to do. *)
MovedOver(u, v) == Append(u, Head(v)) \o Tail(v) = u \o v

LEMMA MovesOver ==
    ASSUME NEW S, NEW u \in Seq(S), NEW v \in Seq(S), v # <<>>
    PROVE  MovedOver(u, v)
BY DEF MovedOver

LEMMA FirstsOfMore ==
    ASSUME NEW res \in Seq(Answers), NEW t \in Txs
    PROVE  /\ Firsts(res) \in Seq(Txs)
           /\ Firsts(Append(res, <<t, GasOf[t]>>)) = Append(Firsts(res), t)
<1>1. PICK a : a = <<t, GasOf[t]>>
  OBVIOUS
<1>2. a \in Answers /\ a[1] = t
  BY <1>1 DEF Answers
<1>3. PICK n \in Nat : n = Len(res)
  BY LenProperties
<1>4. /\ Append(res, a) \in Seq(Answers) /\ Len(Append(res, a)) = n + 1
      /\ \A i \in 1 .. n : Append(res, a)[i] = res[i]
      /\ Append(res, a)[n + 1] = a
  BY <1>2, <1>3, AppendProperties
<1>5. ASSUME NEW i \in 1 .. n PROVE res[i][1] \in Txs
  <2>1. res[i] \in Answers
    BY <1>3, ElementOfSeq
  <2> QED  BY <2>1 DEF Answers
<1>6. Firsts(res) = [k \in 1 .. n |-> res[k][1]]
  BY <1>3 DEF Firsts
<1>7. Firsts(res) \in Seq(Txs) /\ Len(Firsts(res)) = n
  BY <1>5, <1>6
<1>8. /\ Append(Firsts(res), t) \in Seq(Txs) /\ Len(Append(Firsts(res), t)) = n + 1
      /\ \A i \in 1 .. n : Append(Firsts(res), t)[i] = Firsts(res)[i]
      /\ Append(Firsts(res), t)[n + 1] = t
  BY <1>7, AppendProperties
<1>9. Firsts(Append(res, a)) = [k \in 1 .. n + 1 |-> Append(res, a)[k][1]]
  BY <1>4 DEF Firsts
<1>10. ASSUME NEW i \in 1 .. n + 1 PROVE Append(res, a)[i][1] = Append(Firsts(res), t)[i]
  <2>1. CASE i = n + 1
    BY <1>2, <1>4, <1>8, <2>1
  <2>2. CASE i # n + 1
    <3>1. i \in 1 .. n
      BY <2>2
    <3> QED  BY <1>4, <1>6, <1>8, <3>1
  <2> QED  BY <2>1, <2>2
<1>11. Append(Firsts(res), t) = [k \in 1 .. n + 1 |-> Append(Firsts(res), t)[k]]
  <2>1. PICK u : u = Append(Firsts(res), t)
    OBVIOUS
  <2>2. u \in Seq(Txs) /\ Len(u) = n + 1
    BY <1>8, <2>1
  <2>3. u \in [1 .. n + 1 -> Txs]
    BY <2>2, LenProperties
  <2>4. u = [k \in 1 .. n + 1 |-> u[k]]
    BY <2>3
  <2> QED  BY <2>1, <2>4
<1>12. Firsts(Append(res, a)) = Append(Firsts(res), t)
  BY <1>9, <1>10, <1>11
<1> QED  BY <1>1, <1>7, <1>12

LEMMA CallingFew == \A c \in EvmCalls : Calling(BatchOf[c]) \in Nat
<1> SUFFICES ASSUME NEW c \in EvmCalls PROVE Calling(BatchOf[c]) \in Nat
  OBVIOUS
<1>1. BatchOf[c] \in Seq(Txs)
  BY EvmAssumption DEF Txs
<1>2. PICK n \in Nat : DOMAIN BatchOf[c] = 1 .. n
  BY <1>1, LenProperties
<1>3. PICK K : K = {i \in DOMAIN BatchOf[c] : ContractOf[BatchOf[c][i]] # NoContract}
  OBVIOUS
<1>4. IsFiniteSet(1 .. n) /\ K \subseteq 1 .. n
  BY <1>2, <1>3, FS_Interval
<1>5. Cardinality(K) \in Nat
  BY <1>4, FS_Subset, FS_CardinalityType
<1> QED  BY <1>3, <1>5 DEF Calling

LEMMA StartKeeps == ASSUME EvmInv, NEW c \in EvmCalls, StartBatch(c) PROVE EvmInv'
<1>1. PICK txs, order : txs = BatchOf[c] /\ order = AnalyzeTransactions(txs)
  OBVIOUS
<1>2. txs \in Seq(Txs) /\ order \in Seq(Txs)
  BY <1>1, AnalysisKeepsOrder, EvmAssumption DEF Txs
<1>3. PICK new : new = [at |-> "next", todo |-> order, results |-> <<>>]
  OBVIOUS
<1>4. /\ evmCall[c].at = "idle" /\ evmCall' = [evmCall EXCEPT ![c] = new]
      /\ prefetched' = prefetched + Calling(txs) /\ evmCache' = evmCache
  BY <1>1, <1>3 DEF StartBatch
<1>5. /\ evmCall'[c] = new /\ \A d \in EvmCalls \ {c} : evmCall'[d] = evmCall[d]
      /\ new \in [at : {"idle", "next", "put"}, todo : Seq(Txs), results : Seq(Answers)]
      /\ new.at = "next" /\ new.todo = order /\ new.results = <<>>
      /\ evmCall' \in [EvmCalls -> [at : {"idle", "next", "put"}, todo : Seq(Txs), results : Seq(Answers)]]
  BY <1>2, <1>3, <1>4 DEF EvmInv, EvmShape
<1>6. EvmShape'
  BY <1>4, <1>5 DEF EvmInv, EvmShape
<1>7. prefetched' = SumFunctionOnSet([d \in EvmCalls |-> Calls(d)'], EvmCalls)
  <2> DEFINE f == [d \in EvmCalls |-> Calls(d)]
             g == [d \in EvmCalls |-> Calls(d)']
  <2>1. \A d \in EvmCalls : f[d] \in Int /\ g[d] \in Int
    BY CallingFew DEF Calls
  <2>2. \A d \in EvmCalls \ {c} : g[d] = f[d]
    BY <1>5 DEF Calls
  <2>3. f[c] = 0 /\ g[c] = Calling(txs)
    BY <1>1, <1>4, <1>5 DEF Calls
  <2>4. prefetched = SumFunctionOnSet(f, EvmCalls)
    BY DEF EvmInv
  <2>5. IsFiniteSet(EvmCalls)
    BY EvmAssumption
  <2> HIDE DEF f, g
  <2>6. SumFunctionOnSet(g, EvmCalls) = SumFunctionOnSet(f, EvmCalls) - f[c] + g[c]
    BY <2>1, <2>2, <2>5, SumChange
  <2>7. SumFunctionOnSet(f, EvmCalls) \in Int
    <3>1. \A d \in EvmCalls : f[d] \in Nat
      BY CallingFew DEF Calls, f
    <3> QED  BY <2>5, <3>1, SumNat
  <2>8. prefetched' = SumFunctionOnSet(g, EvmCalls)
    BY <1>4, <2>1, <2>3, <2>4, <2>6, <2>7
  <2> QED  BY <2>8 DEF g
<1>8. ASSUME NEW d \in EvmCalls, evmCall'[d].at # "idle" PROVE Executing(d)' = AnalyzeTransactions(BatchOf[d])
  <2>1. CASE d = c
    <3>1. Executing(c)' = [k \in 1 .. Len(new.results) |-> new.results[k][1]] \o new.todo
      BY <1>5 DEF Executing
    <3>2. [k \in 1 .. Len(new.results) |-> new.results[k][1]] = << >>
      BY <1>5
    <3>3. << >> \o order = order
      BY <1>2, ConcatEmptySeq
    <3> QED  BY <1>1, <1>5, <2>1, <3>1, <3>2, <3>3
  <2>2. CASE d # c
    <3>1. evmCall'[d] = evmCall[d]
      BY <1>5, <2>2
    <3> QED  BY <1>8, <3>1 DEF EvmInv, Executing
  <2> QED  BY <2>1, <2>2
<1> QED  BY <1>6, <1>7, <1>8 DEF EvmInv

LEMMA AnswerKeeps ==
    ASSUME EvmInv, NEW c \in EvmCalls, evmCall[c].at # "idle", evmCall[c].todo # <<>>,
           NEW gas, gas = GasOf[Head(evmCall[c].todo)], evmCall' = Answered(c, gas),
           prefetched' = prefetched, IsFiniteSet(DOMAIN evmCache'),
           Cardinality(DOMAIN evmCache') <= EvmCacheSize,
           \A t \in DOMAIN evmCache' : evmCache'[t] = GasOf[t]
    PROVE  EvmInv'
<1>1. PICK t, todo, res : t = Head(evmCall[c].todo) /\ todo = evmCall[c].todo /\ res = evmCall[c].results
  OBVIOUS
<1>2. todo \in Seq(Txs) /\ todo # <<>> /\ res \in Seq(Answers) /\ t = Head(todo)
  BY <1>1 DEF EvmInv, EvmShape
<1>3. t \in Txs /\ Tail(todo) \in Seq(Txs)
  BY <1>2, HeadTailProperties
<1>4. <<t, gas>> \in Answers /\ Append(res, <<t, gas>>) \in Seq(Answers)
  <2>1. <<t, gas>> \in Answers
    BY <1>1, <1>3 DEF Answers
  <2> QED  BY <1>2, <2>1, AppendProperties
<1>5. PICK new : new = [at |-> "next", todo |-> Tail(todo), results |-> Append(res, <<t, gas>>)]
  OBVIOUS
<1>6. evmCall' = [evmCall EXCEPT ![c] = new]
  BY <1>1, <1>5 DEF Answered
<1>7. /\ evmCall'[c] = new /\ \A d \in EvmCalls \ {c} : evmCall'[d] = evmCall[d]
      /\ new.at = "next" /\ new.todo = Tail(todo) /\ new.results = Append(res, <<t, gas>>)
      /\ evmCall' \in [EvmCalls -> [at : {"idle", "next", "put"}, todo : Seq(Txs), results : Seq(Answers)]]
  <2>1. new \in [at : {"idle", "next", "put"}, todo : Seq(Txs), results : Seq(Answers)]
    BY <1>3, <1>4, <1>5
  <2> QED  BY <1>5, <1>6, <2>1 DEF EvmInv, EvmShape
<1>8. EvmShape'
  <2>1. \A d \in EvmCalls : (evmCall[d].at = "put" => evmCall[d].todo # <<>>)
                           /\ (evmCall[d].at = "idle" => evmCall[d].results = <<>>)
    BY DEF EvmInv, EvmShape
  <2>2. \A d \in EvmCalls : evmCall'[d].at = "put" => evmCall'[d].todo # <<>>
    BY <1>7, <2>1
  <2>3. \A d \in EvmCalls : evmCall'[d].at = "idle" => evmCall'[d].results = <<>>
    BY <1>7, <2>1
  <2>4. evmCall' \in [EvmCalls -> [at : {"idle", "next", "put"}, todo : Seq(Txs), results : Seq(Answers)]]
    BY <1>7
  <2> QED  BY <2>2, <2>3, <2>4 DEF EvmShape
<1>9. \A d \in EvmCalls : Calls(d)' = Calls(d)
  BY <1>7 DEF Calls
<1>10. prefetched' = SumFunctionOnSet([d \in EvmCalls |-> Calls(d)'], EvmCalls)
  <2>1. [d \in EvmCalls |-> Calls(d)'] = [d \in EvmCalls |-> Calls(d)]
    BY <1>9
  <2> QED  BY <2>1 DEF EvmInv
<1>11. ASSUME NEW d \in EvmCalls, evmCall'[d].at # "idle" PROVE Executing(d)' = AnalyzeTransactions(BatchOf[d])
  <2>1. CASE d = c
    <3>1. Executing(c)' = Firsts(Append(res, <<t, gas>>)) \o Tail(todo)
      BY <1>7 DEF Executing, Firsts
    <3>2. Firsts(res) \in Seq(Txs) /\ Firsts(Append(res, <<t, gas>>)) = Append(Firsts(res), t)
      BY <1>1, <1>2, <1>3, FirstsOfMore
    <3>3. MovedOver(Firsts(res), todo)
      BY <1>2, <3>2, MovesOver
    <3>4. Append(Firsts(res), t) \o Tail(todo) = Firsts(res) \o todo
      BY <1>2, <3>3 DEF MovedOver
    <3>5. Executing(c) = Firsts(res) \o todo
      BY <1>1 DEF Executing, Firsts
    <3>6. Executing(c) = AnalyzeTransactions(BatchOf[c])
      BY DEF EvmInv
    <3> QED  BY <2>1, <3>1, <3>2, <3>4, <3>5, <3>6
  <2>2. CASE d # c
    <3>1. evmCall'[d] = evmCall[d]
      BY <1>7, <2>2
    <3> QED  BY <1>11, <3>1 DEF EvmInv, Executing
  <2> QED  BY <2>1, <2>2
<1> QED  BY <1>8, <1>10, <1>11 DEF EvmInv

LEMMA PutFits ==
    ASSUME EvmInv, NEW c \in EvmCalls, PutResult(c)
    PROVE  /\ IsFiniteSet(DOMAIN evmCache') /\ Cardinality(DOMAIN evmCache') <= EvmCacheSize
           /\ \A t \in DOMAIN evmCache' : evmCache'[t] = GasOf[t]
<1>1. PICK t : t = Head(evmCall[c].todo)
  OBVIOUS
<1>2. PICK n \in Nat : n = Cardinality(DOMAIN evmCache)
  BY FS_CardinalityType DEF EvmInv, EvmShape
<1>3. PICK kept : /\ IF n >= EvmCacheSize THEN \E k \in DOMAIN evmCache : kept = Drop(evmCache, k)
                                        ELSE kept = evmCache
                  /\ evmCache' = Put(kept, t, GasOf[t])
  BY <1>1, <1>2 DEF PutResult
<1>4. n <= EvmCacheSize /\ EvmCacheSize \in Nat /\ IsFiniteSet(DOMAIN evmCache)
      /\ \A u \in DOMAIN evmCache : evmCache[u] = GasOf[u]
  BY <1>2, EvmAssumption DEF EvmInv, EvmShape
<1>5. /\ IsFiniteSet(DOMAIN kept) /\ Cardinality(DOMAIN kept) \in Nat /\ Cardinality(DOMAIN kept) + 1 <= EvmCacheSize
      /\ \A u \in DOMAIN kept : kept[u] = GasOf[u]
  <2>1. CASE n >= EvmCacheSize
    <3>1. PICK k \in DOMAIN evmCache : kept = Drop(evmCache, k)
      BY <1>3, <2>1
    <3>2. DOMAIN kept = DOMAIN evmCache \ {k} /\ \A u \in DOMAIN kept : kept[u] = evmCache[u]
      BY <3>1 DEF Drop
    <3>3. IsFiniteSet(DOMAIN kept) /\ Cardinality(DOMAIN kept) = n - 1
      BY <1>2, <1>4, <3>2, FS_RemoveElement
    <3>4. Cardinality(DOMAIN kept) \in Nat
      BY <3>3, FS_CardinalityType
    <3> QED  BY <1>4, <3>2, <3>3, <3>4
  <2>2. CASE ~(n >= EvmCacheSize)
    BY <1>2, <1>3, <1>4, <2>2
  <2> QED  BY <2>1, <2>2
<1>6. DOMAIN evmCache' = DOMAIN kept \cup {t} /\ \A u \in DOMAIN evmCache' :
         evmCache'[u] = IF u = t THEN GasOf[t] ELSE kept[u]
  BY <1>3 DEF Put
<1>7. IsFiniteSet(DOMAIN kept \cup {t}) /\ Cardinality(DOMAIN kept \cup {t}) <= EvmCacheSize
  <2>1. CASE t \in DOMAIN kept
    <3>1. DOMAIN kept \cup {t} = DOMAIN kept
      BY <2>1
    <3> QED  BY <1>4, <1>5, <3>1
  <2>2. CASE t \notin DOMAIN kept
    <3>1. IsFiniteSet(DOMAIN kept \cup {t}) /\ Cardinality(DOMAIN kept \cup {t}) = Cardinality(DOMAIN kept) + 1
      BY <1>5, <2>2, FS_AddElement
    <3> QED  BY <1>5, <3>1
  <2> QED  BY <2>1, <2>2
<1> QED  BY <1>5, <1>6, <1>7

LEMMA EvmStep == ASSUME EvmInv, [EvmNext]_evmVars PROVE EvmInv'
<1>1. CASE UNCHANGED evmVars
  BY <1>1 DEF evmVars, EvmInv, EvmShape, Calls, Executing
<1>2. ASSUME NEW c \in EvmCalls, StartBatch(c) PROVE EvmInv'
  BY <1>2, StartKeeps
<1>3. ASSUME NEW c \in EvmCalls, CacheHit(c) PROVE EvmInv'
  <2>1. PICK gas : gas = evmCache[Head(evmCall[c].todo)]
    OBVIOUS
  <2>2. gas = GasOf[Head(evmCall[c].todo)]
    BY <1>3, <2>1 DEF CacheHit, EvmInv, EvmShape
  <2>3. evmCall[c].at # "idle" /\ evmCall[c].todo # <<>> /\ evmCall' = Answered(c, gas)
        /\ evmCache' = evmCache /\ prefetched' = prefetched
    BY <1>3, <2>1 DEF CacheHit
  <2>4. /\ IsFiniteSet(DOMAIN evmCache') /\ Cardinality(DOMAIN evmCache') <= EvmCacheSize
        /\ \A t \in DOMAIN evmCache' : evmCache'[t] = GasOf[t]
    BY <2>3 DEF EvmInv, EvmShape
  <2> QED  BY <2>2, <2>3, <2>4, AnswerKeeps
<1>4. ASSUME NEW c \in EvmCalls, CacheMiss(c) PROVE EvmInv'
  <2>1. evmCall[c].at = "next" /\ evmCall[c].todo # <<>> /\ evmCall' = [evmCall EXCEPT ![c].at = "put"]
        /\ UNCHANGED <<evmCache, prefetched>>
    BY <1>4 DEF CacheMiss
  <2>2. /\ evmCall'[c].at = "put" /\ evmCall'[c].todo = evmCall[c].todo /\ evmCall'[c].results = evmCall[c].results
        /\ \A d \in EvmCalls \ {c} : evmCall'[d] = evmCall[d]
        /\ evmCall' \in [EvmCalls -> [at : {"idle", "next", "put"}, todo : Seq(Txs), results : Seq(Answers)]]
    BY <2>1 DEF EvmInv, EvmShape
  <2>3. EvmShape'
    BY <2>1, <2>2 DEF EvmInv, EvmShape
  <2>4. \A d \in EvmCalls : Calls(d)' = Calls(d)
    BY <2>1, <2>2 DEF Calls
  <2>5. [d \in EvmCalls |-> Calls(d)'] = [d \in EvmCalls |-> Calls(d)]
    BY <2>4
  <2>6. \A d \in EvmCalls : Executing(d)' = Executing(d)
    BY <2>2 DEF Executing
  <2>7. \A d \in EvmCalls : evmCall'[d].at # "idle" => evmCall[d].at # "idle"
    BY <2>1, <2>2
  <2> QED  BY <2>1, <2>3, <2>5, <2>6, <2>7 DEF EvmInv
<1>5. ASSUME NEW c \in EvmCalls, PutResult(c) PROVE EvmInv'
  <2>1. PICK gas : gas = GasOf[Head(evmCall[c].todo)]
    OBVIOUS
  <2>2. evmCall[c].at # "idle" /\ evmCall[c].todo # <<>> /\ evmCall' = Answered(c, gas) /\ prefetched' = prefetched
    BY <1>5, <2>1 DEF PutResult, EvmInv, EvmShape
  <2> QED  BY <1>5, <2>1, <2>2, PutFits, AnswerKeeps
<1> QED  BY <1>1, <1>2, <1>3, <1>4, <1>5 DEF EvmNext

LEMMA EvmStarts == EvmInit => EvmInv
<1> SUFFICES ASSUME EvmInit PROVE EvmInv
  OBVIOUS
<1>1. DOMAIN evmCache = {} /\ prefetched = 0
  BY DEF EvmInit
<1>2. \A c \in EvmCalls : evmCall[c] = [at |-> "idle", todo |-> <<>>, results |-> <<>>]
  BY DEF EvmInit
<1>3. evmCall \in [EvmCalls -> [at : {"idle", "next", "put"}, todo : Seq(Txs), results : Seq(Answers)]]
  BY DEF EvmInit
<1>4. IsFiniteSet(DOMAIN evmCache) /\ Cardinality(DOMAIN evmCache) <= EvmCacheSize
  <2>1. IsFiniteSet({}) /\ Cardinality({}) = 0
    BY FS_EmptySet
  <2> QED  BY <1>1, <2>1, EvmAssumption
<1>5. EvmShape
  BY <1>1, <1>2, <1>3, <1>4 DEF EvmShape
<1>6. SumFunctionOnSet([c \in EvmCalls |-> Calls(c)], EvmCalls) = 0
  <2> DEFINE f == [c \in EvmCalls |-> Calls(c)]
  <2>1. IsFiniteSet(EvmCalls) /\ \A c \in EvmCalls : f[c] = 0 /\ f[c] \in Int
    BY <1>2, EvmAssumption DEF Calls
  <2> HIDE DEF f
  <2>2. SumFunctionOnSet(f, EvmCalls) = 0
    BY <2>1, SumZero
  <2> QED  BY <2>2 DEF f
<1> QED  BY <1>1, <1>2, <1>5, <1>6 DEF EvmInv

LEMMA EvmGives == EvmInv => ResultsFollowGroups
<1> SUFFICES ASSUME EvmInv PROVE ResultsFollowGroups
  OBVIOUS
<1>1. ASSUME NEW c \in EvmCalls, evmCall[c].at # "idle"
      PROVE  /\ Len(Executing(c)) = Len(BatchOf[c])
             /\ \A k \in 1 .. Len(evmCall[c].results) :
                   evmCall[c].results[k][2] = GasOf[evmCall[c].results[k][1]]
             /\ \A t \in Range(BatchOf[c]) :
                   OfContract(Executing(c), ContractOf[t]) = OfContract(BatchOf[c], ContractOf[t])
  <2>1. Executing(c) = AnalyzeTransactions(BatchOf[c]) /\ BatchOf[c] \in Seq(Txs)
    BY <1>1, EvmAssumption DEF EvmInv, Txs
  <2>2. /\ Len(Executing(c)) = Len(BatchOf[c])
        /\ \A k : OfContract(Executing(c), k) = OfContract(BatchOf[c], k)
    BY <2>1, AnalysisKeepsOrder
  <2>3. ASSUME NEW k \in 1 .. Len(evmCall[c].results)
        PROVE  evmCall[c].results[k][2] = GasOf[evmCall[c].results[k][1]]
    <3>1. evmCall[c].results \in Seq(Answers)
      BY DEF EvmInv, EvmShape
    <3>2. evmCall[c].results[k] \in Answers
      BY <3>1, ElementOfSeq
    <3> QED  BY <3>2 DEF Answers
  <2> QED  BY <2>2, <2>3
<1>2. prefetched = SumFunctionOnSet(
           [c \in EvmCalls |-> IF evmCall[c].at = "idle" THEN 0 ELSE Calling(BatchOf[c])], EvmCalls)
  BY DEF EvmInv, Calls
<1> QED  BY <1>1, <1>2 DEF EvmInv, EvmShape, ResultsFollowGroups

EvmSpec == EvmInit /\ [][EvmNext]_evmVars

(* ResultsAlwaysFollowGroups: for any calls, batches, contracts and size of *)
(* the cache, execute_batch (parallel_evm.rs:301-339) gives each            *)
(* transaction one result, in an order that keeps that of every contract    *)
(* (analyze_transactions, parallel_evm.rs:105-138), and the cache           *)
(* (parallel_evm.rs:254-268) keeps its limit and holds only true results.   *)
THEOREM ResultsAlwaysFollowGroups == EvmSpec => []ResultsFollowGroups
<1>1. EvmInv /\ [EvmNext]_evmVars => EvmInv'
  BY EvmStep
<1> QED  BY <1>1, EvmStarts, EvmGives, PTL DEF EvmSpec
=============================================================================
