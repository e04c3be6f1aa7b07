--------------------------- MODULE PlatformProofs ---------------------------
(***************************************************************************)
(* Proofs about three parts under the kernel object that share no state.   *)
(*                                                                         *)
(* The IPC manager implements Channels, for every number of partitions,    *)
(* channel slots and messages and every capacity of a queue.  The          *)
(* invariant ties the three accounts the manager keeps of a channel, its   *)
(* slot, the count of slots and the positions of its ring, to each other;  *)
(* the hash index appears in no invariant but its type, because a lookup   *)
(* checks what it finds.                                                   *)
(*                                                                         *)
(* The boot sequence attests what ran: the invariant ties the accumulator, *)
(* the recorded stages, the hardware and the times to each other, through  *)
(* failed and repeated runs.                                               *)
(*                                                                         *)
(* A run queue stays a heap of its entries, so it serves the most urgent,  *)
(* and a processor that is free can be found.                              *)
(***************************************************************************)
EXTENDS IpcManager, Boot, RunQueues, FiniteSetTheorems, SequenceTheorems, WellFoundedInduction,
        TLAPS

-----------------------------------------------------------------------------
(* Types. *)

Optional(S) == {<<>>} \cup {<<x>> : x \in S}

Position == 0 .. QUEUE_SIZE - 1

Message == EdgeId \X Nat

MessageQueue ==
  [buffer : [Position -> Optional(Message)], head : Position, tail : Position,
   count : 0 .. QUEUE_SIZE]

Channel ==
  [edge_id : EdgeId, source : Partition, dest : Partition, queue : MessageQueue, weight : Nat]

TypeOK ==
  /\ queues \in [Slot -> Optional(Channel)]
  /\ edge_index \in [Slot -> Optional(Slot)]
  /\ edge_count \in Nat
  /\ next_edge_id \in 1 .. MaxEdgeId + 1
  /\ sent \in Nat

Used == {i \in Slot : queues[i] # <<>>}

\* The position b places after a.
Plus(a, b) == (a + b) % QUEUE_SIZE

\* The tail is count positions after the head, and exactly these hold messages.
RingOK(q) ==
  /\ q.tail = Plus(q.head, q.count)
  /\ \A k \in 0 .. QUEUE_SIZE - 1 : q.buffer[Plus(q.head, k)] # <<>> <=> k < q.count

\* No two slots of a table hold channels with the same edge id.
UniqueIn(qs) ==
  \A i, j \in Slot : qs[i] # <<>> /\ qs[j] # <<>> =>
    (qs[i][1].edge_id = qs[j][1].edge_id => i = j)

IInv ==
  /\ TypeOK
  /\ UniqueIn(queues)
  /\ edge_count = Cardinality(Used)
  /\ \A i \in Slot : queues[i] # <<>> =>
       queues[i][1].edge_id < next_edge_id /\ RingOK(queues[i][1].queue)

LEMMA OptionalValue ==
  ASSUME NEW S, NEW x \in Optional(S), x # <<>>
  PROVE  x[1] \in S /\ x = <<x[1]>>
BY DEF Optional

-----------------------------------------------------------------------------
(* Remainders. *)

\* The remainder of a sum of two positions, the second up to a whole turn.
LEMMA Wrap ==
  ASSUME NEW n \in Nat \ {0}, NEW a \in 0 .. n - 1, NEW b \in 0 .. n
  PROVE  (a + b) % n = IF a + b < n THEN a + b ELSE a + b - n
<1>1. CASE a + b < n
  BY <1>1, SMT
<1>2. CASE a + b >= n
  BY <1>2, SMT
<1> QED BY <1>1, <1>2

\* The remainder of a difference of two positions.
LEMMA Difference ==
  ASSUME NEW n \in Nat \ {0}, NEW a \in 0 .. n - 1, NEW p \in 0 .. n - 1
  PROVE  (p - a) % n = IF p >= a THEN p - a ELSE p - a + n
<1>1. CASE p >= a
  BY <1>1, SMT
<1>2. CASE p < a
  BY <1>2, SMT
<1> QED BY <1>1, <1>2

LEMMA Sizes ==
  /\ QUEUE_SIZE \in Nat \ {0} /\ MAX_EDGES \in Nat \ {0}
  /\ MaxEdgeId \in Nat /\ MaxSent \in Nat
BY SizeAssumption

USE Sizes

\* The same for the positions of a ring.
LEMMA Turn ==
  ASSUME NEW a \in Position, NEW b \in 0 .. QUEUE_SIZE
  PROVE  /\ Plus(a, b) = IF a + b < QUEUE_SIZE THEN a + b ELSE a + b - QUEUE_SIZE
         /\ Plus(a, b) \in Position
<1>1. a \in 0 .. QUEUE_SIZE - 1
  BY DEF Position
<1>2. Plus(a, b) = IF a + b < QUEUE_SIZE THEN a + b ELSE a + b - QUEUE_SIZE
  BY <1>1, Wrap DEF Plus
<1> HIDE DEF Plus
<1> QED BY <1>1, <1>2 DEF Position

\* Every position is some number of places after the head.
LEMMA Offset ==
  ASSUME NEW a \in Position, NEW p \in Position
  PROVE  /\ (p - a) % QUEUE_SIZE \in 0 .. QUEUE_SIZE - 1
         /\ p = Plus(a, (p - a) % QUEUE_SIZE)
<1>1. a \in 0 .. QUEUE_SIZE - 1 /\ p \in 0 .. QUEUE_SIZE - 1
  BY DEF Position
<1>2. PICK n \in Nat \ {0} : n = QUEUE_SIZE
  OBVIOUS
<1>3. (p - a) % n = IF p >= a THEN p - a ELSE p - a + n
  BY <1>1, <1>2, Difference
<1>4. (p - a) % n \in 0 .. n - 1
  BY <1>1, <1>2, <1>3
<1>5. PICK k \in 0 .. QUEUE_SIZE - 1 : k = (p - a) % QUEUE_SIZE
  BY <1>2, <1>4
<1>6. Plus(a, k) = IF a + k < QUEUE_SIZE THEN a + k ELSE a + k - QUEUE_SIZE
  <2>1. k \in 0 .. QUEUE_SIZE
    OBVIOUS
  <2> QED BY <2>1, Turn
<1>7. k = IF p >= a THEN p - a ELSE p - a + QUEUE_SIZE
  BY <1>2, <1>3, <1>5
<1>8. p = Plus(a, k)
  BY <1>1, <1>6, <1>7
<1> QED BY <1>5, <1>8, Zenon

-----------------------------------------------------------------------------
(* The ring buffer is a queue. *)

\* The messages between head and tail are a sequence of messages.
LEMMA ContentsType ==
  ASSUME NEW q \in MessageQueue, RingOK(q)
  PROVE  /\ Contents(q) \in Seq(Message)
         /\ Len(Contents(q)) = q.count
         /\ \A k \in 1 .. q.count : Contents(q)[k] = q.buffer[Plus(q.head, k - 1)][1]
<1>1. q.count \in 0 .. QUEUE_SIZE /\ q.head \in Position
  BY DEF MessageQueue
<1>2. ASSUME NEW k \in 1 .. q.count
      PROVE  /\ (q.head + k - 1) % QUEUE_SIZE = Plus(q.head, k - 1)
             /\ q.buffer[Plus(q.head, k - 1)][1] \in Message
  <2>1. q.head + k - 1 = q.head + (k - 1) /\ k - 1 \in 0 .. q.count - 1 /\ k - 1 \in 0 .. QUEUE_SIZE
    BY <1>1 DEF Position
  <2>2. Plus(q.head, k - 1) \in Position
    BY <1>1, <2>1, Turn
  <2>3. q.buffer[Plus(q.head, k - 1)] # <<>>
    BY <1>1, <2>1 DEF RingOK
  <2>4. q.buffer[Plus(q.head, k - 1)] \in Optional(Message)
    BY <2>2 DEF MessageQueue
  <2>5. (q.head + k - 1) % QUEUE_SIZE = Plus(q.head, k - 1)
    BY <2>1, Zenon DEF Plus
  <2> QED BY <2>3, <2>4, <2>5, OptionalValue
<1>3. Contents(q) = [k \in 1 .. q.count |-> q.buffer[Plus(q.head, k - 1)][1]]
  BY <1>2, Zenon DEF Contents
<1>4. Contents(q) \in [1 .. q.count -> Message]
  BY <1>2, <1>3
<1>5. Contents(q) \in Seq(Message)
  BY <1>1, <1>4, SeqDef
<1>6. DOMAIN Contents(q) = 1 .. q.count /\ Len(Contents(q)) = q.count
  BY <1>1, <1>4, <1>5, LenProperties
<1> QED BY <1>3, <1>5, <1>6

\* QueueSend appends, unless the queue is full.
LEMMA SendQueue ==
  ASSUME NEW q \in MessageQueue, RingOK(q), ~QueueFull(q), NEW m \in Message
  PROVE  /\ QueueSend(q, m) \in MessageQueue
         /\ RingOK(QueueSend(q, m))
         /\ Contents(QueueSend(q, m)) = Append(Contents(q), m)
<1> DEFINE r == QueueSend(q, m)
<1>1. /\ q.head \in Position /\ q.tail \in Position
      /\ q.count \in 0 .. QUEUE_SIZE - 1
      /\ q.buffer \in [Position -> Optional(Message)]
  BY DEF MessageQueue, QueueFull
<1>2. r = [buffer |-> [q.buffer EXCEPT ![q.tail] = <<m>>], head |-> q.head,
           tail |-> Plus(q.tail, 1), count |-> q.count + 1]
  <2>1. r = [q EXCEPT !.buffer[q.tail] = <<m>>, !.tail = Plus(@, 1), !.count = @ + 1]
    BY Zenon DEF QueueSend, Plus
  <2> QED BY <2>1 DEF MessageQueue
<1>3. /\ r.head = q.head
      /\ r.tail = Plus(q.tail, 1)
      /\ r.count = q.count + 1
      /\ r.buffer = [q.buffer EXCEPT ![q.tail] = <<m>>]
  BY <1>2
<1> HIDE DEF r
<1>4. 1 \in 0 .. QUEUE_SIZE /\ q.count + 1 \in 0 .. QUEUE_SIZE
  BY <1>1
<1>5. r \in MessageQueue
  <2>1. <<m>> \in Optional(Message)
    BY DEF Optional
  <2>2. Plus(q.tail, 1) \in Position
    BY <1>1, <1>4, Turn
  <2> QED BY <1>1, <1>2, <1>4, <2>1, <2>2 DEF MessageQueue
<1>6. q.tail = IF q.head + q.count < QUEUE_SIZE THEN q.head + q.count
               ELSE q.head + q.count - QUEUE_SIZE
  <2>1. q.count \in 0 .. QUEUE_SIZE /\ q.tail = Plus(q.head, q.count)
    BY <1>1 DEF RingOK
  <2> QED BY <1>1, <2>1, Turn
<1>7. r.tail = Plus(r.head, r.count)
  <2>1. Plus(q.tail, 1) = IF q.tail + 1 < QUEUE_SIZE THEN q.tail + 1
                          ELSE q.tail + 1 - QUEUE_SIZE
    BY <1>1, <1>4, Turn
  <2>2. Plus(q.head, q.count + 1) =
          IF q.head + (q.count + 1) < QUEUE_SIZE THEN q.head + (q.count + 1)
          ELSE q.head + (q.count + 1) - QUEUE_SIZE
    BY <1>1, <1>4, Turn
  <2>3. Plus(q.tail, 1) = Plus(q.head, q.count + 1)
    BY <1>1, <1>6, <2>1, <2>2 DEF Position
  <2> QED BY <1>3, <2>3
<1>8. ASSUME NEW k \in 0 .. QUEUE_SIZE - 1
      PROVE  r.buffer[Plus(q.head, k)] =
               IF k = q.count THEN <<m>> ELSE q.buffer[Plus(q.head, k)]
  <2>1. k \in 0 .. QUEUE_SIZE
    OBVIOUS
  <2>2. Plus(q.head, k) = IF q.head + k < QUEUE_SIZE THEN q.head + k
                          ELSE q.head + k - QUEUE_SIZE
    BY <1>1, <2>1, Turn
  <2>3. Plus(q.head, k) \in Position
    BY <1>1, <2>1, Turn
  <2>4. k # q.count => Plus(q.head, k) # q.tail
    BY <1>1, <1>6, <2>2 DEF Position
  <2>5. k = q.count => Plus(q.head, k) = q.tail
    BY DEF RingOK
  <2> QED BY <1>1, <1>3, <2>3, <2>4, <2>5
<1>9. RingOK(r)
  <2>1. ASSUME NEW k \in 0 .. QUEUE_SIZE - 1
        PROVE  r.buffer[Plus(r.head, k)] # <<>> <=> k < r.count
    <3>1. k < q.count + 1 <=> k = q.count \/ k < q.count
      BY <1>1
    <3>2. q.buffer[Plus(q.head, k)] # <<>> <=> k < q.count
      BY DEF RingOK
    <3>3. r.buffer[Plus(q.head, k)] =
            IF k = q.count THEN <<m>> ELSE q.buffer[Plus(q.head, k)]
      BY <1>8
    <3>4. <<m>> # <<>>
      OBVIOUS
    <3> QED BY <1>3, <3>1, <3>2, <3>3, <3>4
  <2> QED BY <1>7, <2>1 DEF RingOK
<1>10. Contents(r) = Append(Contents(q), m)
  <2>1. /\ Contents(r) \in Seq(Message) /\ Len(Contents(r)) = q.count + 1
        /\ \A k \in 1 .. q.count + 1 : Contents(r)[k] = r.buffer[Plus(q.head, k - 1)][1]
    BY <1>3, <1>5, <1>9, ContentsType
  <2>2. /\ Contents(q) \in Seq(Message) /\ Len(Contents(q)) = q.count
        /\ \A k \in 1 .. q.count : Contents(q)[k] = q.buffer[Plus(q.head, k - 1)][1]
    BY ContentsType
  <2>3. /\ Append(Contents(q), m) \in Seq(Message)
        /\ Len(Append(Contents(q), m)) = q.count + 1
        /\ \A k \in 1 .. q.count : Append(Contents(q), m)[k] = Contents(q)[k]
        /\ Append(Contents(q), m)[q.count + 1] = m
    BY <1>1, <2>2, AppendProperties
  <2>4. ASSUME NEW k \in 1 .. q.count + 1
        PROVE  Contents(r)[k] = Append(Contents(q), m)[k]
    <3>1. /\ k - 1 \in 0 .. QUEUE_SIZE - 1
          /\ k - 1 = q.count <=> k = q.count + 1
          /\ k # q.count + 1 => k \in 1 .. q.count
      BY <1>1
    <3>2. r.buffer[Plus(q.head, k - 1)] =
            IF k - 1 = q.count THEN <<m>> ELSE q.buffer[Plus(q.head, k - 1)]
      BY <1>8, <3>1
    <3>3. CASE k = q.count + 1
      <4>1. r.buffer[Plus(q.head, k - 1)] = <<m>>
        BY <3>1, <3>2, <3>3
      <4> QED BY <2>1, <2>3, <3>3, <4>1
    <3>4. CASE k # q.count + 1
      <4>1. k \in 1 .. q.count /\ k - 1 # q.count
        BY <3>1, <3>4
      <4> QED BY <2>1, <2>2, <2>3, <3>2, <4>1
    <3> QED BY <3>3, <3>4
  <2> QED BY <2>1, <2>3, <2>4, SeqEqual
<1> QED BY <1>5, <1>9, <1>10 DEF r

\* QueueReceive takes the first message, unless there is none.
LEMMA ReceiveQueue ==
  ASSUME NEW q \in MessageQueue, RingOK(q), q.count # 0
  PROVE  /\ QueueReceive(q) \in MessageQueue
         /\ RingOK(QueueReceive(q))
         /\ Contents(q) # <<>>
         /\ q.buffer[q.head] = <<Head(Contents(q))>>
         /\ Contents(QueueReceive(q)) = Tail(Contents(q))
<1> DEFINE r == QueueReceive(q)
<1>1. /\ q.head \in Position /\ q.tail \in Position
      /\ q.count \in 1 .. QUEUE_SIZE
      /\ q.buffer \in [Position -> Optional(Message)]
  BY DEF MessageQueue
<1>2. r = [buffer |-> [q.buffer EXCEPT ![q.head] = <<>>], head |-> Plus(q.head, 1),
           tail |-> q.tail, count |-> q.count - 1]
  <2>1. r = [q EXCEPT !.buffer[q.head] = <<>>, !.head = Plus(@, 1), !.count = @ - 1]
    BY Zenon DEF QueueReceive, Plus
  <2> QED BY <2>1 DEF MessageQueue
<1>3. /\ r.head = Plus(q.head, 1)
      /\ r.tail = q.tail
      /\ r.count = q.count - 1
      /\ r.buffer = [q.buffer EXCEPT ![q.head] = <<>>]
  BY <1>2
<1> HIDE DEF r
<1>4. 1 \in 0 .. QUEUE_SIZE /\ q.count - 1 \in 0 .. QUEUE_SIZE
  BY <1>1
<1>5. r.head = IF q.head + 1 < QUEUE_SIZE THEN q.head + 1 ELSE q.head + 1 - QUEUE_SIZE
  BY <1>1, <1>3, <1>4, Turn
<1>6. r.head \in Position
  BY <1>1, <1>3, <1>4, Turn
<1>7. r \in MessageQueue
  <2>1. <<>> \in Optional(Message)
    BY DEF Optional
  <2> QED BY <1>1, <1>2, <1>3, <1>4, <1>6, <2>1 DEF MessageQueue
\* The k-th place after the new head is the next one after the old head.
<1>8. ASSUME NEW k \in 0 .. QUEUE_SIZE - 1
      PROVE  Plus(r.head, k) = Plus(q.head, k + 1)
  <2>1. k \in 0 .. QUEUE_SIZE /\ k + 1 \in 0 .. QUEUE_SIZE
    OBVIOUS
  <2>2. Plus(q.head, k + 1) = IF q.head + (k + 1) < QUEUE_SIZE THEN q.head + (k + 1)
                              ELSE q.head + (k + 1) - QUEUE_SIZE
    BY <1>1, <2>1, Turn
  <2>3. Plus(r.head, k) = IF r.head + k < QUEUE_SIZE THEN r.head + k
                          ELSE r.head + k - QUEUE_SIZE
    BY <1>6, <2>1, Turn
  <2>4. q.head \in 0 .. QUEUE_SIZE - 1
    BY <1>1 DEF Position
  <2>5. CASE q.head + 1 < QUEUE_SIZE
    <3>1. r.head = q.head + 1
      BY <1>5, <2>5
    <3> QED BY <2>2, <2>3, <2>4, <3>1
  <2>6. CASE q.head + 1 >= QUEUE_SIZE
    <3>1. r.head = 0 /\ q.head = QUEUE_SIZE - 1
      BY <1>5, <2>4, <2>6
    <3> QED BY <2>2, <2>3, <3>1
  <2> QED BY <2>4, <2>5, <2>6
<1>9. ASSUME NEW k \in 1 .. QUEUE_SIZE
      PROVE  /\ k # QUEUE_SIZE => r.buffer[Plus(q.head, k)] = q.buffer[Plus(q.head, k)]
             /\ k = QUEUE_SIZE => r.buffer[Plus(q.head, k)] = <<>>
  <2>1. k \in 0 .. QUEUE_SIZE
    OBVIOUS
  <2>2. Plus(q.head, k) = IF q.head + k < QUEUE_SIZE THEN q.head + k
                          ELSE q.head + k - QUEUE_SIZE
    BY <1>1, <2>1, Turn
  <2>3. Plus(q.head, k) = q.head <=> k = QUEUE_SIZE
    BY <1>1, <2>2 DEF Position
  <2>4. Plus(q.head, k) \in Position
    BY <1>1, <2>1, Turn
  <2> QED BY <1>1, <1>3, <2>3, <2>4
<1>10. RingOK(r)
  <2>1. r.tail = Plus(r.head, r.count)
    <3>1. q.count - 1 \in 0 .. QUEUE_SIZE - 1 /\ q.count - 1 + 1 = q.count
      BY <1>1
    <3>2. Plus(r.head, q.count - 1) = Plus(q.head, q.count)
      BY <1>8, <3>1
    <3> QED BY <1>3, <3>2 DEF RingOK
  <2>2. ASSUME NEW k \in 0 .. QUEUE_SIZE - 1
        PROVE  r.buffer[Plus(r.head, k)] # <<>> <=> k < r.count
    <3>1. k + 1 \in 1 .. QUEUE_SIZE /\ Plus(r.head, k) = Plus(q.head, k + 1)
      BY <1>8
    <3>2. CASE k + 1 = QUEUE_SIZE
      BY <1>1, <1>3, <1>9, <3>1, <3>2
    <3>3. CASE k + 1 # QUEUE_SIZE
      <4>1. k + 1 \in 0 .. QUEUE_SIZE - 1
        BY <3>3
      <4>2. q.buffer[Plus(q.head, k + 1)] # <<>> <=> k + 1 < q.count
        BY <4>1 DEF RingOK
      <4>3. k + 1 < q.count <=> k < q.count - 1
        BY <1>1
      <4> QED BY <1>3, <1>9, <3>1, <3>3, <4>2, <4>3
    <3> QED BY <3>2, <3>3
  <2> QED BY <2>1, <2>2 DEF RingOK
<1>11. /\ Contents(q) \in Seq(Message) /\ Len(Contents(q)) = q.count
       /\ \A k \in 1 .. q.count : Contents(q)[k] = q.buffer[Plus(q.head, k - 1)][1]
  BY ContentsType
<1>12. Contents(q) # <<>>
  BY <1>1, <1>11, EmptySeq
<1>13. q.buffer[q.head] = <<Head(Contents(q))>>
  <2>1. Head(Contents(q)) = Contents(q)[1] /\ 1 \in 1 .. q.count /\ 1 - 1 = 0
    BY <1>1, <1>11, <1>12
  <2>2. Head(Contents(q)) = q.buffer[Plus(q.head, 0)][1]
    BY <1>11, <2>1
  <2>3. Plus(q.head, 0) = q.head
    <3>1. 0 \in 0 .. QUEUE_SIZE
      OBVIOUS
    <3>2. Plus(q.head, 0) = IF q.head + 0 < QUEUE_SIZE THEN q.head + 0
                            ELSE q.head + 0 - QUEUE_SIZE
      BY <1>1, <3>1, Turn
    <3> QED BY <1>1, <3>2 DEF Position
  <2>4. q.buffer[q.head] # <<>>
    <3>1. 0 \in 0 .. QUEUE_SIZE - 1 /\ 0 < q.count
      BY <1>1
    <3> QED BY <2>3, <3>1 DEF RingOK
  <2>5. q.buffer[q.head] \in Optional(Message)
    BY <1>1
  <2> QED BY <2>2, <2>3, <2>4, <2>5, OptionalValue
<1>14. Contents(r) = Tail(Contents(q))
  <2>1. /\ Contents(r) \in Seq(Message) /\ Len(Contents(r)) = q.count - 1
        /\ \A k \in 1 .. q.count - 1 : Contents(r)[k] = r.buffer[Plus(r.head, k - 1)][1]
    BY <1>3, <1>7, <1>10, ContentsType
  <2>2. /\ Tail(Contents(q)) \in Seq(Message)
        /\ Len(Tail(Contents(q))) = q.count - 1
        /\ \A k \in 1 .. q.count - 1 : Tail(Contents(q))[k] = Contents(q)[k + 1]
    BY <1>11, <1>12, HeadTailProperties
  <2>3. ASSUME NEW k \in 1 .. q.count - 1
        PROVE  Contents(r)[k] = Tail(Contents(q))[k]
    <3>1. /\ k - 1 \in 0 .. QUEUE_SIZE - 1 /\ k - 1 + 1 = k
          /\ k + 1 \in 1 .. q.count /\ k + 1 - 1 = k
          /\ k \in 1 .. QUEUE_SIZE /\ k # QUEUE_SIZE
      BY <1>1
    <3>2. r.buffer[Plus(r.head, k - 1)] = q.buffer[Plus(q.head, k)]
      BY <1>8, <1>9, <3>1
    <3>3. Contents(q)[k + 1] = q.buffer[Plus(q.head, k)][1]
      BY <1>11, <3>1
    <3> QED BY <2>1, <2>2, <3>2, <3>3
  <2> QED BY <1>1, <2>1, <2>2, <2>3, SeqEqual
<1> QED BY <1>7, <1>10, <1>12, <1>13, <1>14 DEF r

-----------------------------------------------------------------------------
(* A table of slots stands for a function from edge ids to channels. *)

LiveIn(qs) == {qs[i][1].edge_id : i \in {j \in Slot : qs[j] # <<>>}}

SlotIn(qs, e) == CHOOSE i \in Slot : qs[i] # <<>> /\ qs[i][1].edge_id = e

ChannelsOf(qs) == [e \in LiveIn(qs) |-> AbstractChannel(qs[SlotIn(qs, e)][1])]

LEMMA SlotFound ==
  ASSUME NEW qs, UniqueIn(qs), NEW i \in Slot, qs[i] # <<>>
  PROVE  /\ qs[i][1].edge_id \in LiveIn(qs)
         /\ SlotIn(qs, qs[i][1].edge_id) = i
         /\ ChannelsOf(qs)[qs[i][1].edge_id] = AbstractChannel(qs[i][1])
<1> DEFINE e == qs[i][1].edge_id
<1>1. e \in LiveIn(qs)
  BY DEF LiveIn
<1>2. \A j \in Slot : qs[j] # <<>> /\ qs[j][1].edge_id = e => j = i
  BY DEF UniqueIn
<1>3. SlotIn(qs, e) = i
  BY <1>2, Zenon DEF SlotIn
<1> QED BY <1>1, <1>3, Zenon DEF ChannelsOf

LEMMA ChannelsDomain ==
  ASSUME NEW qs
  PROVE  /\ DOMAIN ChannelsOf(qs) = LiveIn(qs)
         /\ ChannelsOf(qs) = [e \in LiveIn(qs) |-> ChannelsOf(qs)[e]]
BY DEF ChannelsOf

LEMMA LiveSlot ==
  ASSUME NEW qs, NEW e \in LiveIn(qs)
  PROVE  \E i \in Slot : qs[i] # <<>> /\ qs[i][1].edge_id = e
BY DEF LiveIn

\* A new channel in a free slot.
LEMMA PutChannel ==
  ASSUME NEW qs, UniqueIn(qs), NEW i \in Slot, qs[i] = <<>>,
         NEW c, c.edge_id \notin LiveIn(qs),
         NEW rs, rs[i] = <<c>>, \A j \in Slot : j # i => rs[j] = qs[j]
  PROVE  /\ UniqueIn(rs)
         /\ LiveIn(rs) = LiveIn(qs) \cup {c.edge_id}
         /\ \A e \in LiveIn(rs) : ChannelsOf(rs)[e] =
              IF e = c.edge_id THEN AbstractChannel(c) ELSE ChannelsOf(qs)[e]
<1>1. /\ rs[i] = <<c>> /\ rs[i][1] = c /\ rs[i] # <<>>
      /\ \A j \in Slot : j # i => rs[j] = qs[j]
  OBVIOUS
<1>2. \A j \in Slot : qs[j] # <<>> => j # i /\ qs[j][1].edge_id # c.edge_id
  BY DEF LiveIn
<1>3. UniqueIn(rs)
  BY <1>1, <1>2 DEF UniqueIn
<1>4. LiveIn(rs) = LiveIn(qs) \cup {c.edge_id}
  <2>1. ASSUME NEW e \in LiveIn(rs) PROVE e \in LiveIn(qs) \cup {c.edge_id}
    <3>1. PICK j \in Slot : rs[j] # <<>> /\ rs[j][1].edge_id = e
      BY LiveSlot
    <3> QED BY <1>1, <3>1 DEF LiveIn
  <2>2. LiveIn(qs) \subseteq LiveIn(rs)
    BY <1>1, <1>2 DEF LiveIn
  <2>3. c.edge_id \in LiveIn(rs)
    BY <1>1 DEF LiveIn
  <2> QED BY <2>1, <2>2, <2>3
<1>5. ASSUME NEW e \in LiveIn(rs)
      PROVE  ChannelsOf(rs)[e] =
               IF e = c.edge_id THEN AbstractChannel(c) ELSE ChannelsOf(qs)[e]
  <2>1. CASE e = c.edge_id
    BY <1>1, <1>3, <2>1, SlotFound
  <2>2. CASE e # c.edge_id
    <3>1. PICK j \in Slot : qs[j] # <<>> /\ qs[j][1].edge_id = e
      BY <1>4, <2>2, LiveSlot
    <3>2. rs[j] = qs[j]
      BY <1>1, <1>2, <3>1
    <3>3. ChannelsOf(rs)[e] = AbstractChannel(rs[j][1])
      BY <1>3, <3>1, <3>2, SlotFound
    <3>4. ChannelsOf(qs)[e] = AbstractChannel(qs[j][1])
      BY <3>1, SlotFound
    <3> QED BY <2>2, <3>2, <3>3, <3>4
  <2> QED BY <2>1, <2>2
<1> QED BY <1>3, <1>4, <1>5

\* A change to the channel in a slot.
LEMMA ChangeChannel ==
  ASSUME NEW qs, UniqueIn(qs), NEW i \in Slot, qs[i] # <<>>,
         NEW c, c.edge_id = qs[i][1].edge_id,
         NEW rs, rs[i] = <<c>>, \A j \in Slot : j # i => rs[j] = qs[j]
  PROVE  /\ UniqueIn(rs)
         /\ LiveIn(rs) = LiveIn(qs)
         /\ \A e \in LiveIn(qs) : ChannelsOf(rs)[e] =
              IF e = c.edge_id THEN AbstractChannel(c) ELSE ChannelsOf(qs)[e]
<1>1. /\ rs[i] = <<c>> /\ rs[i][1] = c /\ rs[i] # <<>>
      /\ \A j \in Slot : j # i => rs[j] = qs[j]
  OBVIOUS
<1>2. \A j \in Slot : /\ rs[j] # <<>> <=> qs[j] # <<>>
                      /\ rs[j][1].edge_id = qs[j][1].edge_id
  BY <1>1
<1>3. UniqueIn(rs)
  BY <1>2 DEF UniqueIn
<1>4. LiveIn(rs) = LiveIn(qs)
  BY <1>2 DEF LiveIn
<1>5. ASSUME NEW e \in LiveIn(qs)
      PROVE  ChannelsOf(rs)[e] =
               IF e = c.edge_id THEN AbstractChannel(c) ELSE ChannelsOf(qs)[e]
  <2>1. CASE e = c.edge_id
    BY <1>1, <1>3, <2>1, SlotFound
  <2>2. CASE e # c.edge_id
    <3>1. PICK j \in Slot : qs[j] # <<>> /\ qs[j][1].edge_id = e
      BY LiveSlot
    <3>2. rs[j] = qs[j]
      BY <1>1, <2>2, <3>1
    <3>3. ChannelsOf(rs)[e] = AbstractChannel(rs[j][1])
      BY <1>3, <3>1, <3>2, SlotFound
    <3>4. ChannelsOf(qs)[e] = AbstractChannel(qs[j][1])
      BY <3>1, SlotFound
    <3> QED BY <2>2, <3>2, <3>3, <3>4
  <2> QED BY <2>1, <2>2
<1> QED BY <1>3, <1>4, <1>5

\* A slot given up.
LEMMA DropChannel ==
  ASSUME NEW qs, UniqueIn(qs), NEW i \in Slot, qs[i] # <<>>,
         NEW e, e = qs[i][1].edge_id, NEW rs, rs[i] = <<>>, \A j \in Slot : j # i => rs[j] = qs[j]
  PROVE  /\ UniqueIn(rs)
         /\ LiveIn(rs) = LiveIn(qs) \ {e}
         /\ \A x \in LiveIn(rs) : ChannelsOf(rs)[x] = ChannelsOf(qs)[x]
<1>1. rs[i] = <<>> /\ \A j \in Slot : j # i => rs[j] = qs[j]
  OBVIOUS
<1>2. \A j \in Slot : rs[j] # <<>> => j # i /\ rs[j] = qs[j]
  BY <1>1
<1>3. UniqueIn(rs)
  BY <1>2 DEF UniqueIn
<1>4. LiveIn(rs) = LiveIn(qs) \ {e}
  <2>1. ASSUME NEW x \in LiveIn(rs) PROVE x \in LiveIn(qs) \ {e}
    <3>1. PICK j \in Slot : rs[j] # <<>> /\ rs[j][1].edge_id = x
      BY LiveSlot
    <3>2. j # i /\ rs[j] = qs[j]
      BY <1>2, <3>1
    <3>3. qs[j] # <<>> /\ qs[j][1].edge_id = x
      BY <3>1, <3>2
    <3> QED BY <3>2, <3>3 DEF LiveIn, UniqueIn
  <2>2. ASSUME NEW x \in LiveIn(qs) \ {e} PROVE x \in LiveIn(rs)
    <3>1. PICK j \in Slot : qs[j] # <<>> /\ qs[j][1].edge_id = x
      BY LiveSlot
    <3>2. rs[j] = qs[j]
      BY <1>1, <3>1
    <3> QED BY <3>1, <3>2 DEF LiveIn
  <2> QED BY <2>1, <2>2
<1>5. ASSUME NEW x \in LiveIn(qs) \ {e}
      PROVE  ChannelsOf(rs)[x] = ChannelsOf(qs)[x]
  <2>1. PICK j \in Slot : qs[j] # <<>> /\ qs[j][1].edge_id = x
    BY LiveSlot
  <2>2. rs[j] = qs[j]
    BY <1>1, <2>1
  <2>3. ChannelsOf(rs)[x] = AbstractChannel(rs[j][1])
    BY <1>3, <2>1, <2>2, SlotFound
  <2>4. ChannelsOf(qs)[x] = AbstractChannel(qs[j][1])
    BY <2>1, SlotFound
  <2> QED BY <2>2, <2>3, <2>4
<1> QED BY <1>3, <1>4, <1>5

-----------------------------------------------------------------------------
(* Lookups. *)

\* Some free slot is the first one.
LEMMA FirstFreeSlot ==
  ASSUME \E i \in Slot : queues[i] = <<>>
  PROVE  FirstFree \in Slot /\ queues[FirstFree] = <<>>
<1> DEFINE free == {i \in Slot : queues[i] = <<>>}
<1>1. free \subseteq Nat /\ free # {}
  BY DEF Slot
<1>2. PICK i \in free : \A j \in free : ~(<<j, i>> \in OpToRel(<, Nat))
  BY <1>1, WFMin, NatLessThanWellFounded
<1>3. \A j \in free : i <= j
  <2> TAKE j \in free
  <2>1. ~(j < i)
    BY <1>1, <1>2 DEF OpToRel
  <2> QED BY <1>1, <2>1
<1>4. \E k \in Slot : queues[k] = <<>> /\ \A j \in Slot : queues[j] = <<>> => k <= j
  BY <1>2, <1>3
<1> QED BY <1>4, Zenon DEF FirstFree

\* A lookup finds the slot of a live edge id, through the index or without it,
\* and nothing for any other id.
LEMMA FindIs ==
  ASSUME TypeOK, UniqueIn(queues), NEW e \in EdgeId
  PROVE  /\ Find(e) # <<>> =>
              /\ Find(e)[1] \in Slot
              /\ queues[Find(e)[1]] # <<>>
              /\ queues[Find(e)[1]][1].edge_id = e
         /\ e \in LiveIn(queues) => Find(e) # <<>>
<1> DEFINE indexed == edge_index[HashSlot(e)]
           hits == {i \in Slot : Holds(i, e)}
<1>1. HashSlot(e) \in Slot
  BY DEF HashSlot, Slot, EdgeId
<1>2. indexed \in Optional(Slot)
  BY <1>1 DEF TypeOK
<1>3. CASE indexed # <<>> /\ Holds(indexed[1], e)
  <2>1. Find(e) = indexed
    BY <1>3, Zenon DEF Find
  <2> QED BY <1>2, <1>3, <2>1, OptionalValue DEF Holds
<1>4. CASE ~(indexed # <<>> /\ Holds(indexed[1], e)) /\ hits = {}
  <2>1. Find(e) = <<>>
    BY <1>4, Zenon DEF Find
  <2>2. e \notin LiveIn(queues)
    BY <1>4 DEF LiveIn, Holds
  <2> QED BY <2>1, <2>2
<1>5. CASE ~(indexed # <<>> /\ Holds(indexed[1], e)) /\ hits # {}
  <2>1. PICK i \in Slot : Holds(i, e)
    BY <1>5
  <2>2. \A j \in hits : j = i
    BY <2>1 DEF Holds, UniqueIn
  <2>3. i \in hits /\ \A j \in hits : i <= j
    BY <2>1, <2>2 DEF Slot
  <2>4. (CHOOSE k \in hits : \A j \in hits : k <= j) \in hits
    BY <2>3, Zenon
  <2>5. Find(e) = <<CHOOSE k \in hits : \A j \in hits : k <= j>>
    BY <1>5, Zenon DEF Find
  <2>6. Find(e) = <<i>>
    BY <2>2, <2>4, <2>5
  <2> QED BY <2>1, <2>6 DEF Holds
<1> QED BY <1>3, <1>4, <1>5

\* The manager's own count of channels bounds the abstract one.
LEMMA CountBounds ==
  ASSUME NEW qs
  PROVE  /\ IsFiniteSet({i \in Slot : qs[i] # <<>>})
         /\ IsFiniteSet(LiveIn(qs))
         /\ Cardinality(LiveIn(qs)) <= Cardinality({i \in Slot : qs[i] # <<>>})
<1> DEFINE U == {i \in Slot : qs[i] # <<>>}
           f == [i \in U |-> qs[i][1].edge_id]
<1>1. IsFiniteSet(Slot)
  BY FS_Interval DEF Slot
<1>2. IsFiniteSet(U)
  BY <1>1, FS_Subset
<1>3. f \in Surjection(U, LiveIn(qs))
  <2>1. f \in [U -> LiveIn(qs)]
    BY DEF LiveIn
  <2>2. \A t \in LiveIn(qs) : \E i \in U : f[i] = t
    BY DEF LiveIn
  <2> QED BY <2>1, <2>2 DEF Surjection
<1> QED BY <1>2, <1>3, FS_Surjection

-----------------------------------------------------------------------------
(* Steps.  Each one keeps the invariant and is a step of Channels. *)

LEMMA Views ==
  /\ AbstractChannels = ChannelsOf(queues)
  /\ AbstractChannels' = ChannelsOf(queues')
<1>1. Live = LiveIn(queues) /\ Live' = LiveIn(queues')
  BY DEF Live, LiveIn
<1>2. \A e : SlotOf(e) = SlotIn(queues, e) /\ SlotOf(e)' = SlotIn(queues', e)
  BY DEF SlotOf, SlotIn, Holds
<1>3. AbstractChannels = ChannelsOf(queues)
  BY <1>1, <1>2, Zenon DEF AbstractChannels, ChannelsOf
<1>4. AbstractChannels' = [e \in Live' |-> AbstractChannel(queues'[SlotOf(e)'][1])]
  BY Zenon DEF AbstractChannels, AbstractChannel, Contents
<1>5. AbstractChannels' = ChannelsOf(queues')
  BY <1>1, <1>2, <1>4, Zenon DEF ChannelsOf
<1> QED BY <1>3, <1>5

LEMMA NewQueueIsEmpty ==
  NewQueue \in MessageQueue /\ RingOK(NewQueue) /\ Contents(NewQueue) = <<>>
<1>1. NewQueue \in MessageQueue
  BY DEF NewQueue, MessageQueue, Position, Optional
<1>2. 0 \in Position /\ 0 \in 0 .. QUEUE_SIZE
  BY DEF Position
<1>3. Plus(0, 0) = 0
  BY <1>2, Turn
<1>4. RingOK(NewQueue)
  <2>1. \A k \in 0 .. QUEUE_SIZE - 1 : NewQueue.buffer[Plus(NewQueue.head, k)] = <<>>
    <3> TAKE k \in 0 .. QUEUE_SIZE - 1
    <3>1. Plus(0, k) \in 0 .. QUEUE_SIZE - 1
      BY <1>2, Turn DEF Position
    <3> QED BY <3>1 DEF NewQueue
  <2>2. NewQueue.head = 0 /\ NewQueue.tail = 0 /\ NewQueue.count = 0
    BY DEF NewQueue
  <2> QED BY <1>3, <2>1, <2>2 DEF RingOK
<1>5. Contents(NewQueue) \in Seq(Message) /\ Len(Contents(NewQueue)) = 0
  BY <1>1, <1>4, ContentsType DEF NewQueue
<1> QED BY <1>1, <1>4, <1>5, EmptySeq

LEMMA Start == Init => IInv /\ Abstract!CInit
<1> SUFFICES ASSUME Init PROVE IInv /\ Abstract!CInit
  OBVIOUS
<1>1. \A i \in Slot : queues[i] = <<>>
  BY DEF Init
<1>2. TypeOK
  BY DEF Init, TypeOK, Optional
<1>3. Used = {} /\ LiveIn(queues) = {}
  BY <1>1 DEF Used, LiveIn
<1>4. IInv
  BY <1>1, <1>2, <1>3, FS_EmptySet DEF IInv, UniqueIn, Init
<1>5. ChannelsOf(queues) = <<>>
  BY <1>3 DEF ChannelsOf
<1> QED BY <1>4, <1>5, Views DEF Abstract!CInit, Init

\* Channels counts with the same operator.
LEMMA SameCardinality ==
  ASSUME NEW S
  PROVE  Abstract!Cardinality(S) = Cardinality(S)
BY Zenon DEF Abstract!Cardinality, Cardinality, Abstract!IsFiniteSet, IsFiniteSet

\* create_channel
\* The slots in use are counted, so fewer than MAX_EDGES leave one free.
LEMMA CountLeavesSlot ==
  ASSUME IInv, edge_count < MAX_EDGES
  PROVE  \E i \in Slot : queues[i] = <<>>
<1> SUFFICES ASSUME \A i \in Slot : queues[i] # <<>> PROVE FALSE
  OBVIOUS
<1>1. Used = Slot
  BY DEF Used
<1>2. Cardinality(0 .. MAX_EDGES - 1) = MAX_EDGES
  <2>1. MAX_EDGES \in Nat \ {0}
    BY SizeAssumption
  <2> QED BY <2>1, FS_Interval
<1> QED BY <1>1, <1>2, SizeAssumption DEF IInv, Slot

LEMMA CreateStep ==
  ASSUME IInv, NEW from \in Partition, NEW to \in Partition, CreateChannel(from, to)
  PROVE  IInv' /\ Abstract!CCreate(from, to)
<1> DEFINE c == [edge_id |-> next_edge_id, source |-> from, dest |-> to,
                 queue |-> NewQueue, weight |-> 0]
<1>1. FirstFree \in Slot /\ queues[FirstFree] = <<>>
  BY FirstFreeSlot, CountLeavesSlot DEF CreateChannel
<1>2. PICK i \in Slot : i = FirstFree /\ queues[i] = <<>>
  BY <1>1
<1>3. /\ queues' = [queues EXCEPT ![i] = <<c>>]
      /\ edge_index' = [edge_index EXCEPT ![HashSlot(next_edge_id)] = <<i>>]
      /\ edge_count < MAX_EDGES /\ next_edge_id <= MaxEdgeId
      /\ edge_count' = edge_count + 1 /\ next_edge_id' = next_edge_id + 1
      /\ sent' = sent /\ received' = received
  BY <1>2, Zenon DEF CreateChannel
<1>4. /\ queues \in [Slot -> Optional(Channel)] /\ DOMAIN queues = Slot
      /\ next_edge_id \in EdgeId /\ edge_count \in Nat
      /\ UniqueIn(queues)
  BY <1>3 DEF IInv, TypeOK, EdgeId
<1>5. c.edge_id = next_edge_id /\ c \in Channel /\ c.queue = NewQueue
  BY <1>4, NewQueueIsEmpty DEF Channel
<1>6. next_edge_id \notin LiveIn(queues)
  <2> SUFFICES ASSUME next_edge_id \in LiveIn(queues) PROVE FALSE
    OBVIOUS
  <2>1. PICK j \in Slot : queues[j] # <<>> /\ queues[j][1].edge_id = next_edge_id
    BY LiveSlot
  <2> QED BY <1>4, <2>1 DEF IInv, EdgeId
<1>7. /\ UniqueIn(queues')
      /\ LiveIn(queues') = LiveIn(queues) \cup {next_edge_id}
      /\ \A e \in LiveIn(queues') : ChannelsOf(queues')[e] =
           IF e = next_edge_id THEN AbstractChannel(c) ELSE ChannelsOf(queues)[e]
  <2>1. c.edge_id \notin LiveIn(queues)
    BY <1>6
  <2> HIDE DEF c
  <2>2. queues'[i] = <<c>> /\ \A j \in Slot : j # i => queues'[j] = queues[j]
    BY <1>3, <1>4
  <2>3. /\ UniqueIn(queues')
        /\ LiveIn(queues') = LiveIn(queues) \cup {c.edge_id}
        /\ \A e \in LiveIn(queues') : ChannelsOf(queues')[e] =
             IF e = c.edge_id THEN AbstractChannel(c) ELSE ChannelsOf(queues)[e]
    BY <1>2, <1>4, <2>1, <2>2, PutChannel
  <2> QED BY <1>5, <2>3
<1>8. TypeOK'
  <2>1. <<c>> \in Optional(Channel)
    BY <1>5 DEF Optional
  <2>2. queues' \in [Slot -> Optional(Channel)]
    <3> HIDE DEF c
    <3> QED BY <1>3, <1>4, <2>1
  <2>3. <<i>> \in Optional(Slot)
    BY DEF Optional
  <2>4. edge_index' \in [Slot -> Optional(Slot)]
    BY <1>3, <2>3 DEF IInv, TypeOK
  <2> QED BY <1>3, <1>4, <2>2, <2>4 DEF IInv, TypeOK, EdgeId
<1>9. edge_count' = Cardinality(Used')
  <2>1. Used' = Used \cup {i}
    <3> HIDE DEF c
    <3>1. \A j \in Slot : queues'[j] = IF j = i THEN <<c>> ELSE queues[j]
      BY <1>3, <1>4
    <3> QED BY <3>1 DEF Used
  <2>2. i \notin Used /\ IsFiniteSet(Used)
    BY <1>2, CountBounds DEF Used
  <2>3. Cardinality(Used') = Cardinality(Used) + 1
    BY <2>1, <2>2, FS_AddElement
  <2> QED BY <1>3, <2>3 DEF IInv
<1>10. \A j \in Slot : queues'[j] # <<>> =>
         queues'[j][1].edge_id < next_edge_id' /\ RingOK(queues'[j][1].queue)
  <2> TAKE j \in Slot
  <2>1. CASE j = i
    <3>1. queues'[j][1] = c
      BY <1>3, <1>4, <2>1
    <3> HIDE DEF c
    <3> QED BY <1>3, <1>4, <1>5, <3>1, NewQueueIsEmpty DEF EdgeId
  <2>2. CASE j # i
    <3>1. queues'[j] = queues[j]
      BY <1>3, <1>4, <2>2
    <3>2. queues[j] # <<>> => queues[j][1].edge_id \in EdgeId
      BY <1>4, OptionalValue DEF Channel
    <3>3. queues[j] # <<>> => /\ queues[j][1].edge_id < next_edge_id
                             /\ RingOK(queues[j][1].queue)
      BY DEF IInv
    <3>4. next_edge_id \in Nat /\ next_edge_id' = next_edge_id + 1
      BY <1>3, <1>4 DEF IInv, TypeOK, EdgeId
    <3>5. queues[j] # <<>> => queues[j][1].edge_id < next_edge_id'
      BY <3>2, <3>3, <3>4 DEF EdgeId
    <3> QED BY <3>1, <3>3, <3>5, Zenon
  <2> QED BY <2>1, <2>2
<1>11. IInv'
  BY <1>7, <1>8, <1>9, <1>10 DEF IInv
<1>12. AbstractChannel(c) = [source |-> from, dest |-> to, queue |-> <<>>, weight |-> 0]
  BY NewQueueIsEmpty DEF AbstractChannel
<1>13. DOMAIN AbstractChannels = LiveIn(queues)
  BY Views, ChannelsDomain
<1>14. Cardinality(DOMAIN AbstractChannels) < MAX_EDGES
  <2>1. Cardinality(LiveIn(queues)) <= edge_count /\ Cardinality(LiveIn(queues)) \in Nat
    BY CountBounds, FS_CardinalityType DEF IInv, Used
  <2> QED BY <1>3, <1>4, <1>13, <2>1
<1>15. AbstractChannels' =
         Abstract!With(AbstractChannels, next_edge_id,
                       [source |-> from, dest |-> to, queue |-> <<>>, weight |-> 0])
  <2>1. ChannelsOf(queues') = [e \in LiveIn(queues) \cup {next_edge_id} |->
                                IF e = next_edge_id THEN AbstractChannel(c)
                                ELSE ChannelsOf(queues)[e]]
    BY <1>7, ChannelsDomain, Zenon
  <2> QED BY <1>12, <1>13, <2>1, Views, Zenon DEF Abstract!With
<1> HIDE DEF c
<1>16. Abstract!Cardinality(DOMAIN AbstractChannels) < MAX_EDGES
  BY <1>14, SameCardinality
<1> QED BY <1>3, <1>11, <1>15, <1>16 DEF Abstract!CCreate

\* The channel in slot i gets another queue and weight.
Rewrite(i, q, w) ==
  /\ queues' = [queues EXCEPT ![i] = <<[queues[i][1] EXCEPT !.queue = q, !.weight = w]>>]
  /\ UNCHANGED <<edge_index, edge_count, next_edge_id>>

\* As send and receive do it, this keeps the invariant.
LEMMA ChangeStep ==
  ASSUME IInv, NEW i \in Slot, queues[i] # <<>>, NEW q \in MessageQueue, RingOK(q),
         NEW w \in Nat,
         Rewrite(i, q, w), sent' \in Nat
  PROVE  /\ IInv'
         /\ LiveIn(queues') = LiveIn(queues)
         /\ \A e \in LiveIn(queues) : AbstractChannels'[e] =
              IF e = queues[i][1].edge_id
              THEN [AbstractChannels[e] EXCEPT !.queue = Contents(q), !.weight = w]
              ELSE AbstractChannels[e]
<1> DEFINE c == [queues[i][1] EXCEPT !.queue = q, !.weight = w]
<1>1. queues \in [Slot -> Optional(Channel)] /\ UniqueIn(queues)
  BY DEF IInv, TypeOK
<1>2. queues[i][1] \in Channel
  BY <1>1, OptionalValue
<1>3. /\ c \in Channel
      /\ c.edge_id = queues[i][1].edge_id
      /\ c.source = queues[i][1].source /\ c.dest = queues[i][1].dest
      /\ c.queue = q /\ c.weight = w
  BY <1>2 DEF Channel
<1>4. /\ queues' = [queues EXCEPT ![i] = <<c>>]
      /\ UNCHANGED <<edge_index, edge_count, next_edge_id>>
  BY DEF Rewrite
<1> HIDE DEF c
<1>5. queues'[i] = <<c>> /\ \A j \in Slot : j # i => queues'[j] = queues[j]
  BY <1>1, <1>4
<1>6. /\ UniqueIn(queues')
      /\ LiveIn(queues') = LiveIn(queues)
      /\ \A e \in LiveIn(queues) : ChannelsOf(queues')[e] =
           IF e = c.edge_id THEN AbstractChannel(c) ELSE ChannelsOf(queues)[e]
  BY <1>1, <1>3, <1>5, ChangeChannel
<1>7. TypeOK'
  <2>1. <<c>> \in Optional(Channel)
    BY <1>3 DEF Optional
  <2>2. queues' \in [Slot -> Optional(Channel)]
    BY <1>1, <1>4, <2>1
  <2> QED BY <1>4, <2>2 DEF IInv, TypeOK
<1>8. Used' = Used
  BY <1>5 DEF Used
<1>9. \A j \in Slot : queues'[j] # <<>> =>
        queues'[j][1].edge_id < next_edge_id /\ RingOK(queues'[j][1].queue)
  <2> TAKE j \in Slot
  <2>1. CASE j = i
    <3>1. queues'[j][1] = c
      BY <1>5, <2>1
    <3>2. queues[i][1].edge_id < next_edge_id
      BY DEF IInv
    <3> QED BY <1>3, <3>1, <3>2
  <2>2. CASE j # i
    BY <1>5, <2>2 DEF IInv
  <2> QED BY <2>1, <2>2
<1>10. IInv'
  <2>1. edge_count' = Cardinality(Used')
    BY <1>4, <1>8 DEF IInv
  <2>2. \A j \in Slot : queues'[j] # <<>> =>
          queues'[j][1].edge_id < next_edge_id' /\ RingOK(queues'[j][1].queue)
    BY <1>4, <1>9
  <2> QED BY <1>6, <1>7, <2>1, <2>2 DEF IInv
<1>11. ChannelsOf(queues)[queues[i][1].edge_id] = AbstractChannel(queues[i][1])
  BY <1>1, SlotFound
<1>12. AbstractChannel(c) =
         [AbstractChannel(queues[i][1]) EXCEPT !.queue = Contents(q), !.weight = w]
  <2> DEFINE d == queues[i][1]
  <2>1. AbstractChannel(c) =
          [source |-> c.source, dest |-> c.dest, queue |-> Contents(c.queue), weight |-> c.weight]
    BY Zenon DEF AbstractChannel
  <2>2. AbstractChannel(d) =
          [source |-> d.source, dest |-> d.dest, queue |-> Contents(d.queue), weight |-> d.weight]
    BY Zenon DEF AbstractChannel
  <2>3. Contents(c.queue) = Contents(q)
    BY <1>3, Zenon
  <2>4. AbstractChannel(c) =
          [source |-> d.source, dest |-> d.dest, queue |-> Contents(q), weight |-> w]
    BY <1>3, <2>1, <2>3, Zenon
  <2>5. [AbstractChannel(d) EXCEPT !.queue = Contents(q), !.weight = w] =
          [source |-> d.source, dest |-> d.dest, queue |-> Contents(q), weight |-> w]
    <3> HIDE DEF d
    <3>1. \A r, x, y : [r EXCEPT !.queue = x, !.weight = y] =
                        [[r EXCEPT !.queue = x] EXCEPT !.weight = y]
      OBVIOUS
    <3>2. [AbstractChannel(d) EXCEPT !.queue = Contents(q)] =
            [source |-> d.source, dest |-> d.dest, queue |-> Contents(q), weight |-> d.weight]
      BY <2>2
    <3>3. [[AbstractChannel(d) EXCEPT !.queue = Contents(q)] EXCEPT !.weight = w] =
            [source |-> d.source, dest |-> d.dest, queue |-> Contents(q), weight |-> w]
      <4>1. [[source |-> d.source, dest |-> d.dest, queue |-> Contents(q), weight |-> d.weight]
               EXCEPT !.weight = w] =
              [source |-> d.source, dest |-> d.dest, queue |-> Contents(q), weight |-> w]
        OBVIOUS
      <4> QED BY <3>2, <4>1, Zenon
    <3> QED BY <3>1, <3>3, Zenon
  <2> QED BY <2>4, <2>5
<1> QED BY <1>3, <1>6, <1>10, <1>11, <1>12, Views

\* What a lookup that found slot i says of the abstract channel.
LEMMA SlotView ==
  ASSUME IInv, NEW i \in Slot, queues[i] # <<>>, NEW e, queues[i][1].edge_id = e
  PROVE  /\ e \in DOMAIN AbstractChannels
         /\ AbstractChannels[e].source = queues[i][1].source
         /\ AbstractChannels[e].queue = Contents(queues[i][1].queue)
         /\ AbstractChannels[e].weight = queues[i][1].weight
         /\ DOMAIN AbstractChannels[e] = {"source", "dest", "queue", "weight"}
         /\ queues[i][1].queue \in MessageQueue /\ RingOK(queues[i][1].queue)
         /\ queues[i][1].weight \in Nat
<1>1. queues \in [Slot -> Optional(Channel)] /\ UniqueIn(queues)
  BY DEF IInv, TypeOK
<1>2. queues[i][1] \in Channel
  BY <1>1, OptionalValue
<1>3. e \in LiveIn(queues) /\ ChannelsOf(queues)[e] = AbstractChannel(queues[i][1])
  BY <1>1, SlotFound
<1>4. e \in DOMAIN AbstractChannels /\ AbstractChannels[e] = AbstractChannel(queues[i][1])
  BY <1>3, Views, ChannelsDomain
<1>5. RingOK(queues[i][1].queue)
  BY DEF IInv
<1> QED BY <1>2, <1>4, <1>5 DEF AbstractChannel, Channel

\* send and send_unchecked: what both do once the channel is found.
LEMMA DeliverStep ==
  ASSUME IInv, NEW e \in EdgeId, NEW i \in Slot, queues[i] # <<>>,
         queues[i][1].edge_id = e, Deliver(e, i),
         NEW caller, NEW trusted \in BOOLEAN, trusted \/ queues[i][1].source = caller
  PROVE  IInv' /\ Abstract!CSend(e, caller, trusted)
<1> DEFINE q == queues[i][1].queue
           m == <<e, sent + 1>>
           w == queues[i][1].weight + 1
<1>1. /\ ~QueueFull(q) /\ sent < MaxSent /\ sent' = sent + 1
      /\ queues' = [queues EXCEPT ![i] =
                      <<[queues[i][1] EXCEPT !.queue = QueueSend(q, m), !.weight = w]>>]
      /\ UNCHANGED <<edge_index, edge_count, next_edge_id, received>>
  BY Zenon DEF Deliver
<1>2. /\ e \in DOMAIN AbstractChannels
      /\ AbstractChannels[e].source = queues[i][1].source
      /\ AbstractChannels[e].queue = Contents(q)
      /\ AbstractChannels[e].weight = queues[i][1].weight
      /\ q \in MessageQueue /\ RingOK(q) /\ queues[i][1].weight \in Nat
  BY SlotView
<1>3. sent \in Nat /\ m \in Message
  BY DEF IInv, TypeOK, Message
<1>4. w \in Nat /\ sent' \in Nat
  BY <1>1, <1>2, <1>3
<1>5. /\ QueueSend(q, m) \in MessageQueue /\ RingOK(QueueSend(q, m))
      /\ Contents(QueueSend(q, m)) = Append(Contents(q), m)
  <2> HIDE DEF q, m
  <2> QED BY <1>1, <1>2, <1>3, SendQueue
<1>6. /\ IInv'
      /\ LiveIn(queues') = LiveIn(queues)
      /\ \A x \in LiveIn(queues) : AbstractChannels'[x] =
           IF x = queues[i][1].edge_id
           THEN [AbstractChannels[x] EXCEPT !.queue = Contents(QueueSend(q, m)), !.weight = w]
           ELSE AbstractChannels[x]
  <2> HIDE DEF q, m, w
  <2>1. Rewrite(i, QueueSend(q, m), w)
    BY <1>1 DEF Rewrite
  <2> QED BY <1>4, <1>5, <2>1, ChangeStep
<1>7. Len(AbstractChannels[e].queue) < QUEUE_SIZE
  <2>1. Len(Contents(q)) = q.count
    BY <1>2, ContentsType
  <2>2. q.count < QUEUE_SIZE
    BY <1>1, <1>2 DEF QueueFull, MessageQueue
  <2> QED BY <1>2, <2>1, <2>2
<1>8. AbstractChannels' =
        [AbstractChannels EXCEPT ![e].queue = Append(@, m), ![e].weight = @ + 1]
  <2> DEFINE d == [AbstractChannels[e] EXCEPT !.queue = Append(Contents(q), m), !.weight = w]
  <2>1. DOMAIN AbstractChannels = LiveIn(queues)
    BY Views, ChannelsDomain
  <2>2. AbstractChannels' = [x \in LiveIn(queues) |-> AbstractChannels'[x]]
    BY <1>6, Views, ChannelsDomain
  <2>3. AbstractChannels = [x \in LiveIn(queues) |-> AbstractChannels[x]]
    BY Views, ChannelsDomain
  <2>4. \A x \in LiveIn(queues) : AbstractChannels'[x] = IF x = e THEN d ELSE AbstractChannels[x]
    BY <1>5, <1>6
  <2>5. AbstractChannels' = [x \in LiveIn(queues) |-> IF x = e THEN d ELSE AbstractChannels[x]]
    <3> HIDE DEF d
    <3> QED BY <2>2, <2>4, Zenon
  <2>6. [AbstractChannels EXCEPT ![e] = d] =
          [x \in LiveIn(queues) |-> IF x = e THEN d ELSE AbstractChannels[x]]
    <3> HIDE DEF d
    <3> QED BY <2>1, <2>3
  <2>7. [AbstractChannels EXCEPT ![e].queue = Append(@, m), ![e].weight = @ + 1] =
          [AbstractChannels EXCEPT ![e] = d]
    BY <1>2, <2>1, <2>3
  <2> QED BY <2>5, <2>6, <2>7
<1> QED BY <1>1, <1>2, <1>6, <1>7, <1>8 DEF Abstract!CSend

LEMMA Pair ==
  ASSUME NEW a, NEW b
  PROVE  <<a>> \o <<b>> = <<a, b>>
<1> DEFINE S == {a, b}
<1>1. <<a>> \in Seq(S) /\ <<b>> \in Seq(S) /\ <<a, b>> \in Seq(S)
  OBVIOUS
<1> HIDE DEF S
<1>2. <<a>> \o <<b>> \in Seq(S) /\ Len(<<a>> \o <<b>>) = 2
  BY <1>1, ConcatProperties
<1>3. (<<a>> \o <<b>>)[1] = a /\ (<<a>> \o <<b>>)[2] = b
  BY <1>1, ConcatProperties
<1>4. \A i \in 1 .. 2 : (<<a>> \o <<b>>)[i] = <<a, b>>[i]
  BY <1>3
<1> QED BY <1>1, <1>2, <1>4, SeqEqual

LEMMA AbstractRecord ==
  ASSUME NEW r, NEW k, r.weight = k, NEW x, DOMAIN r = {"source", "dest", "queue", "weight"},
         r.queue = x
  PROVE  [r EXCEPT !.queue = Tail(x), !.weight = k] = [r EXCEPT !.queue = Tail(x)]
OBVIOUS

\* receive
LEMMA ReceiveStep ==
  ASSUME IInv, NEW e \in EdgeId, Receive(e)
  PROVE  IInv' /\ Abstract!CReceive(e)
<1>1. TypeOK /\ UniqueIn(queues)
  BY DEF IInv
<1>2. PICK i \in Slot : i = Find(e)[1] /\ queues[i] # <<>> /\ queues[i][1].edge_id = e
  BY <1>1, FindIs DEF Receive
<1> DEFINE q == queues[i][1].queue
           w == queues[i][1].weight
<1>3. /\ e \in DOMAIN AbstractChannels
      /\ AbstractChannels[e].source = queues[i][1].source
      /\ AbstractChannels[e].queue = Contents(q)
      /\ AbstractChannels[e].weight = w
      /\ DOMAIN AbstractChannels[e] = {"source", "dest", "queue", "weight"}
      /\ q \in MessageQueue /\ RingOK(q) /\ w \in Nat
  BY <1>2, SlotView
<1>4. Len(Contents(q)) = q.count /\ Contents(q) \in Seq(Message)
  BY <1>3, ContentsType
<1>5. UNCHANGED <<edge_index, edge_count, next_edge_id, sent>>
  BY DEF Receive
<1>6. CASE q.count = 0
  <2>1. received' = <<e>> /\ queues' = queues
    BY <1>2, <1>6, Zenon DEF Receive
  <2>2. IInv'
    BY <1>5, <2>1 DEF IInv, TypeOK, UniqueIn, Used
  <2>3. AbstractChannels' = AbstractChannels
    BY <2>1, Views, Zenon
  <2>4. AbstractChannels[e].queue = <<>>
    BY <1>3, <1>4, <1>6, EmptySeq
  <2> QED BY <1>3, <1>5, <2>1, <2>2, <2>3, <2>4 DEF Abstract!CReceive
<1>7. CASE q.count # 0
  <2>1. /\ received' = <<e>> \o q.buffer[q.head]
        /\ queues' = [queues EXCEPT ![i] = <<[queues[i][1] EXCEPT !.queue = QueueReceive(q)]>>]
    BY <1>2, <1>7, Zenon DEF Receive
  <2>2. /\ QueueReceive(q) \in MessageQueue /\ RingOK(QueueReceive(q))
        /\ Contents(q) # <<>>
        /\ q.buffer[q.head] = <<Head(Contents(q))>>
        /\ Contents(QueueReceive(q)) = Tail(Contents(q))
    <3> HIDE DEF q
    <3> QED BY <1>3, <1>7, ReceiveQueue
  <2>3. received' = <<e, Head(Contents(q))>>
    BY <2>1, <2>2, Pair, Zenon
  <2>4. [queues[i][1] EXCEPT !.queue = QueueReceive(q)] =
          [queues[i][1] EXCEPT !.queue = QueueReceive(q), !.weight = w]
    <3>1. queues[i][1] \in Channel
      BY <1>1, <1>2, OptionalValue DEF TypeOK
    <3> QED BY <3>1 DEF Channel
  <2>5. Rewrite(i, QueueReceive(q), w)
    BY <1>5, <2>1, <2>4 DEF Rewrite
  <2>6. sent' \in Nat
    BY <1>1, <1>5 DEF TypeOK
  <2>7. /\ IInv'
        /\ LiveIn(queues') = LiveIn(queues)
        /\ \A x \in LiveIn(queues) : AbstractChannels'[x] =
             IF x = queues[i][1].edge_id
             THEN [AbstractChannels[x] EXCEPT !.queue = Contents(QueueReceive(q)), !.weight = w]
             ELSE AbstractChannels[x]
    <3> HIDE DEF q, w
    <3> QED BY <1>2, <1>3, <2>2, <2>5, <2>6, ChangeStep
  <2>8. AbstractChannels' = [AbstractChannels EXCEPT ![e].queue = Tail(@)]
    <3> DEFINE d == [AbstractChannels[e] EXCEPT !.queue = Tail(Contents(q)), !.weight = w]
    <3>1. /\ DOMAIN AbstractChannels = LiveIn(queues)
          /\ AbstractChannels' = [x \in LiveIn(queues) |-> AbstractChannels'[x]]
          /\ AbstractChannels = [x \in LiveIn(queues) |-> AbstractChannels[x]]
      BY <2>7, Views, ChannelsDomain
    <3>2. \A x \in LiveIn(queues) :
            AbstractChannels'[x] = IF x = e THEN d ELSE AbstractChannels[x]
      BY <1>2, <2>2, <2>7
    <3>3. d = [AbstractChannels[e] EXCEPT !.queue = Tail(@)]
      BY <1>3, AbstractRecord
    <3>4. AbstractChannels' = [AbstractChannels EXCEPT ![e] = d]
      <4> HIDE DEF d
      <4>1. AbstractChannels' = [x \in LiveIn(queues) |-> IF x = e THEN d ELSE AbstractChannels[x]]
        BY <3>1, <3>2, Zenon
      <4>2. [AbstractChannels EXCEPT ![e] = d] =
              [x \in LiveIn(queues) |-> IF x = e THEN d ELSE AbstractChannels[x]]
        BY <3>1
      <4> QED BY <4>1, <4>2
    <3> QED BY <3>1, <3>3, <3>4
  <2>9. AbstractChannels[e].queue # <<>>
    BY <1>3, <2>2
  <2> QED BY <1>3, <1>5, <2>3, <2>7, <2>8, <2>9 DEF Abstract!CReceive
<1> QED BY <1>6, <1>7

\* destroy_channel
LEMMA DestroyStep ==
  ASSUME IInv, NEW e \in EdgeId, DestroyChannel(e)
  PROVE  IInv' /\ Abstract!CDestroy(e)
<1>1. PICK i \in Slot :
        /\ queues[i] # <<>> /\ queues[i][1].edge_id = e
        /\ queues' = [queues EXCEPT ![i] = <<>>]
        /\ edge_count' = edge_count - 1
        /\ edge_index' = IF edge_index[HashSlot(e)] = <<i>>
                         THEN [edge_index EXCEPT ![HashSlot(e)] = <<>>]
                         ELSE edge_index
        /\ UNCHANGED <<next_edge_id, sent, received>>
  BY DEF DestroyChannel, Holds
<1>2. TypeOK /\ UniqueIn(queues) /\ queues \in [Slot -> Optional(Channel)]
  BY DEF IInv, TypeOK
<1>3. queues'[i] = <<>> /\ \A j \in Slot : j # i => queues'[j] = queues[j]
  BY <1>1, <1>2
<1>4. /\ UniqueIn(queues')
      /\ LiveIn(queues') = LiveIn(queues) \ {e}
      /\ \A x \in LiveIn(queues') : ChannelsOf(queues')[x] = ChannelsOf(queues)[x]
  <2>1. queues[i] # <<>> /\ e = queues[i][1].edge_id /\ UniqueIn(queues)
    BY <1>1, <1>2
  <2> QED BY <1>3, <2>1, DropChannel
<1>5. /\ Used' = Used \ {i} /\ i \in Used /\ IsFiniteSet(Used)
      /\ IsFiniteSet(Used')
  BY <1>1, <1>3, CountBounds DEF Used
<1>6. edge_count' = Cardinality(Used') /\ edge_count' \in Nat
  <2>1. Cardinality(Used') = Cardinality(Used) - 1
    BY <1>5, FS_RemoveElement
  <2>2. Cardinality(Used') \in Nat
    BY <1>5, FS_CardinalityType
  <2> QED BY <1>1, <2>1, <2>2 DEF IInv
<1>7. TypeOK'
  <2>1. <<>> \in Optional(Channel) /\ <<>> \in Optional(Slot)
    BY DEF Optional
  <2>2. queues' \in [Slot -> Optional(Channel)]
    BY <1>1, <1>2, <2>1
  <2>3. edge_index' \in [Slot -> Optional(Slot)]
    BY <1>1, <1>2, <2>1 DEF TypeOK
  <2> QED BY <1>1, <1>2, <1>6, <2>2, <2>3 DEF TypeOK
<1>8. \A j \in Slot : queues'[j] # <<>> =>
        queues'[j][1].edge_id < next_edge_id' /\ RingOK(queues'[j][1].queue)
  BY <1>1, <1>3 DEF IInv
<1>9. IInv'
  BY <1>4, <1>6, <1>7, <1>8 DEF IInv
<1>10. e \in DOMAIN AbstractChannels /\ DOMAIN AbstractChannels = LiveIn(queues)
  BY <1>1, <1>2, SlotFound, Views, ChannelsDomain
<1>11. AbstractChannels' = [x \in DOMAIN AbstractChannels \ {e} |-> AbstractChannels[x]]
  <2>1. ChannelsOf(queues') = [x \in LiveIn(queues) \ {e} |-> ChannelsOf(queues)[x]]
    BY <1>4, ChannelsDomain, Zenon
  <2> QED BY <1>10, <2>1, Views, Zenon
<1> QED BY <1>1, <1>9, <1>10, <1>11 DEF Abstract!CDestroy

-----------------------------------------------------------------------------
(* The theorems. *)

LEMMA Step ==
  ASSUME IInv, Next
  PROVE  IInv' /\ Abstract!CNext
<1>1. ASSUME NEW from \in Partition, NEW to \in Partition, CreateChannel(from, to)
      PROVE  IInv' /\ Abstract!CNext
  BY <1>1, CreateStep DEF Abstract!CNext
<1>2. ASSUME NEW e \in EdgeId, NEW sender \in Partition, NEW caller \in Partition,
             Send(e, sender, caller)
      PROVE  IInv' /\ Abstract!CNext
  <2>1. PICK i \in Slot : i = Find(e)[1] /\ queues[i] # <<>> /\ queues[i][1].edge_id = e
    BY <1>2, FindIs DEF Send, IInv
  <2>2. Deliver(e, i) /\ queues[i][1].source = caller
    BY <1>2, <2>1, Zenon DEF Send
  <2>3. IInv' /\ Abstract!CSend(e, caller, FALSE)
    BY <2>1, <2>2, DeliverStep
  <2> QED BY <2>3, Zenon DEF Abstract!CNext, EdgeId
<1>3. ASSUME NEW e \in EdgeId, SendUnchecked(e)
      PROVE  IInv' /\ Abstract!CNext
  <2>1. PICK i \in Slot : i = Find(e)[1] /\ queues[i] # <<>> /\ queues[i][1].edge_id = e
    BY <1>3, FindIs DEF SendUnchecked, IInv
  <2>2. Deliver(e, i)
    BY <1>3, <2>1, Zenon DEF SendUnchecked
  <2>3. queues[i][1].source \in Partition
    BY <2>1, OptionalValue DEF IInv, TypeOK, Channel
  <2>4. IInv' /\ Abstract!CSend(e, queues[i][1].source, TRUE)
    BY <2>1, <2>2, DeliverStep
  <2> QED BY <2>3, <2>4, Zenon DEF Abstract!CNext, EdgeId
<1>4. ASSUME NEW e \in EdgeId, Receive(e)
      PROVE  IInv' /\ Abstract!CNext
  BY <1>4, ReceiveStep DEF Abstract!CNext, EdgeId
<1>5. ASSUME NEW e \in EdgeId, DestroyChannel(e)
      PROVE  IInv' /\ Abstract!CNext
  BY <1>5, DestroyStep DEF Abstract!CNext, EdgeId
<1> QED BY <1>1, <1>2, <1>3, <1>4, <1>5 DEF Next

LEMMA Stutter ==
  ASSUME IInv, UNCHANGED vars
  PROVE  IInv' /\ UNCHANGED Abstract!cvars
<1>1. IInv'
  BY DEF IInv, TypeOK, UniqueIn, Used, vars
<1>2. AbstractChannels' = AbstractChannels
  BY Views, Zenon DEF vars
<1> QED BY <1>1, <1>2 DEF Abstract!cvars, vars

\* No two slots name the same channel, the count of channels is the number of
\* slots in use, every edge id in use was assigned, and every ring holds a message
\* in each place between its head and its tail.
THEOREM Invariance == Spec => []IInv
<1>1. Init => IInv
  BY Start
<1>2. IInv /\ [Next]_vars => IInv'
  BY Step, Stutter
<1> QED BY <1>1, <1>2, PTL DEF Spec

\* Consistent (IpcManager): the count that limits the channels is the number of
\* slots in use, no edge id has two slots, and every ring's head, tail and count
\* agree with the places that hold a message.
THEOREM ChannelsConsistent == Spec => []Consistent
<1>1. IInv => Consistent
  <2> SUFFICES ASSUME IInv PROVE Consistent
    OBVIOUS
  <2>1. edge_count = Cardinality({i \in Slot : queues[i] # <<>>})
    BY DEF IInv, Used
  <2>2. \A i, j \in Slot : queues[i] # <<>> /\ queues[j] # <<>> /\ i # j =>
          queues[i][1].edge_id # queues[j][1].edge_id
    BY DEF IInv, UniqueIn
  <2>3. ASSUME NEW i \in Slot, queues[i] # <<>>, NEW q, q = queues[i][1].queue
        PROVE  /\ q.count <= QUEUE_SIZE
               /\ q.tail = (q.head + q.count) % QUEUE_SIZE
               /\ \A p \in 0 .. QUEUE_SIZE - 1 :
                    (q.buffer[p] # <<>>) <=> ((p - q.head) % QUEUE_SIZE < q.count)
    <3>1. q \in MessageQueue /\ RingOK(q)
      BY <2>3, SlotView
    <3>2. q.count \in 0 .. QUEUE_SIZE /\ q.head \in Position
      BY <3>1 DEF MessageQueue
    <3>3. q.tail = (q.head + q.count) % QUEUE_SIZE
      BY <3>1, Zenon DEF RingOK, Plus
    <3>4. ASSUME NEW p \in 0 .. QUEUE_SIZE - 1
          PROVE  (q.buffer[p] # <<>>) <=> ((p - q.head) % QUEUE_SIZE < q.count)
      <4>1. PICK k \in 0 .. QUEUE_SIZE - 1 : k = (p - q.head) % QUEUE_SIZE /\ p = Plus(q.head, k)
        BY <3>2, Offset DEF Position
      <4>2. q.buffer[Plus(q.head, k)] # <<>> <=> k < q.count
        BY <3>1 DEF RingOK
      <4> QED BY <4>1, <4>2
    <3> QED BY <3>2, <3>3, <3>4
  <2> QED BY <2>1, <2>2, <2>3 DEF Consistent
<1> QED BY <1>1, Invariance, PTL

\* Refinement (IpcManager): the manager, with its hash index, its slots taken
\* again and again and its ring buffers, is a set of first-in first-out channels
\* named by edge ids, each fed by its source only.
THEOREM Refines == Spec => Refinement
<1>1. Init => Abstract!CInit
  BY Start
<1>2. IInv /\ [Next]_vars => [Abstract!CNext]_(Abstract!cvars)
  BY Step, Stutter
<1> QED BY <1>1, <1>2, Invariance, PTL DEF Spec, Refinement, Abstract!CSpec

-----------------------------------------------------------------------------
(* Boot: the attested measurements are those of the stages that ran. *)

HIDE Sizes

Timing == [start : Nat, end : Nat]

\* The records, for digests in some set D: no one set holds them all, as a digest
\* holds what it was taken over.
SequenceOver(D) ==
  [current : 0 .. Done, completed : SUBSET BootStage,
   timings : [BootStage -> Timing], digests : [BootStage -> D]]

MeasuredOver(D) ==
  [accumulator : Seq(BootStage \X D), count : Nat, hashes : [BootStage -> D]]

BootTypes ==
  /\ at \in 0 .. Done
  /\ ticks \in Nat
  /\ platform \in [ram_size : Nat, uart_ready : BOOLEAN]
  /\ \E D : sequence \in SequenceOver(D) /\ measured \in MeasuredOver(D)

\* One measurement of each completed stage, in order, with the digest recorded.
Measured ==
  /\ Len(measured.accumulator) = sequence.current
  /\ \A i \in 1 .. sequence.current :
       measured.accumulator[i] = <<i - 1, sequence.digests[i - 1]>>
  /\ measured.count = sequence.current
  /\ measured.hashes = sequence.digests

\* The first witness was taken over the stages before it.
Witnessed ==
  FirstWitness \in sequence.completed =>
    sequence.digests[FirstWitness] = <<FirstWitness, SubSeq(measured.accumulator, 1, FirstWitness)>>

\* The completed stages are those before the current one, and their HAL calls succeeded.
Reached ==
  /\ sequence.completed = {s \in BootStage : s < sequence.current}
  /\ HalStages \cap sequence.completed = hal
  /\ platform.uart_ready <=> HardwareDetect \in sequence.completed

\* Completed stages took some time, one after the other, and before now.  A failed
\* run changes the start of the current stage only.
Timed ==
  \A s \in BootStage : s < sequence.current =>
    /\ sequence.timings[s].start < sequence.timings[s].end
    /\ sequence.timings[s].end < ticks
    /\ s > 0 => sequence.timings[s - 1].end <= sequence.timings[s].start

BootInv == BootTypes /\ Measured /\ Witnessed /\ Reached /\ Timed

\* A fresh context has run nothing.
LEMMA BootStart == BootInit => BootInv
<1> SUFFICES ASSUME BootInit PROVE BootInv
  OBVIOUS
<1> USE BootNumbers DEF BootInit, BootSequenceNew, MeasuredBootStateNew, BootStage, Done
<1>1. BootTypes
  <2>1. sequence \in SequenceOver({<<>>})
    BY DEF SequenceOver, Timing
  <2>2. measured \in MeasuredOver({<<>>})
    BY EmptySeq DEF MeasuredOver
  <2> QED  BY <2>1, <2>2 DEF BootTypes
<1>2. Measured
  BY EmptySeq DEF Measured
<1>3. Witnessed
  BY DEF Witnessed
<1>4. Reached
  BY DEF Reached
<1>5. Timed
  BY DEF Timed
<1> QED  BY <1>1, <1>2, <1>3, <1>4, <1>5 DEF BootInv

\* begin_stage changes one start, complete_stage one end and one digest.
LEMMA BeginTimes ==
  ASSUME NEW D, NEW q \in SequenceOver(D), NEW x \in BootStage, NEW tick \in Nat
  PROVE  /\ begin_stage(q, x, tick)
              = [current |-> q.current, completed |-> q.completed,
                 timings |-> [q.timings EXCEPT ![x] = [start |-> tick, end |-> q.timings[x].end]],
                 digests |-> q.digests]
<1>1. /\ q = [current |-> q.current, completed |-> q.completed, timings |-> q.timings, digests |-> q.digests]
      /\ q.timings \in [BootStage -> Timing]
  BY DEF SequenceOver
<1>2. q.timings[x] = [start |-> q.timings[x].start, end |-> q.timings[x].end]
  BY <1>1 DEF Timing
<1>3. [q.timings[x] EXCEPT !.start = tick] = [start |-> tick, end |-> q.timings[x].end]
  BY <1>2
<1>4. [q.timings EXCEPT ![x].start = tick] = [q.timings EXCEPT ![x] = [start |-> tick, end |-> q.timings[x].end]]
  BY <1>1, <1>3
<1>5. begin_stage(q, x, tick) = [q EXCEPT !.timings = [q.timings EXCEPT ![x].start = tick]]
  BY <1>1 DEF begin_stage
<1> QED  BY <1>1, <1>4, <1>5

LEMMA CompleteTimes ==
  ASSUME NEW D, NEW q \in SequenceOver(D), NEW x \in BootStage, NEW tick \in Nat, NEW d \in D
  PROVE  /\ complete_stage(q, x, tick, d)
              = [current |-> x + 1, completed |-> q.completed \cup {x},
                 timings |-> [q.timings EXCEPT ![x] = [start |-> q.timings[x].start, end |-> tick]],
                 digests |-> [q.digests EXCEPT ![x] = d]]
<1>1. /\ q = [current |-> q.current, completed |-> q.completed, timings |-> q.timings, digests |-> q.digests]
      /\ q.timings \in [BootStage -> Timing]
  BY DEF SequenceOver
<1>2. q.timings[x] = [start |-> q.timings[x].start, end |-> q.timings[x].end]
  BY <1>1 DEF Timing
<1>3. [q.timings[x] EXCEPT !.end = tick] = [start |-> q.timings[x].start, end |-> tick]
  BY <1>2
<1>4. [q.timings EXCEPT ![x].end = tick] = [q.timings EXCEPT ![x] = [start |-> q.timings[x].start, end |-> tick]]
  BY <1>1, <1>3
<1>5. complete_stage(q, x, tick, d)
        = [q EXCEPT !.current = x + 1, !.completed = q.completed \cup {x},
                    !.timings = [q.timings EXCEPT ![x].end = tick], !.digests = [q.digests EXCEPT ![x] = d]]
  BY <1>1 DEF complete_stage
<1> QED  BY <1>1, <1>4, <1>5

\* A stage that runs extends the measurement by the digest it records: StageRuns.
LEMMA BootRuns ==
  ASSUME BootInv, StageRuns
  PROVE  BootInv'
<1> DEFINE s == sequence.current
           acc == measured.accumulator
<1>0. PICK C : sequence \in SequenceOver(C) /\ measured \in MeasuredOver(C)
  BY DEF BootInv, BootTypes
<1> DEFINE D == C \cup {StageDigest(at)}
<1>1. PICK digest \in D : digest = StageDigest(at)
  OBVIOUS
<1>2. /\ sequence \in SequenceOver(D) /\ measured \in MeasuredOver(D)
  <2>1. \A seq \in Seq(BootStage \X C) : seq \in Seq(BootStage \X D)
    <3>1. BootStage \X C \subseteq BootStage \X D
      OBVIOUS
    <3> QED  BY <3>1, SeqMonotonic
  <2>2. [BootStage -> C] \subseteq [BootStage -> D]
    OBVIOUS
  <2> HIDE DEF D
  <2> QED  BY <1>0, <2>1, <2>2 DEF SequenceOver, MeasuredOver
<1> HIDE DEF D
<1>3. /\ at = s /\ s \in BootStage /\ s \in Nat /\ at' = s + 1 /\ ticks' = ticks + 2
      /\ hal' = hal \cup ({s} \cap HalStages)
      /\ platform' = IF s = HardwareDetect THEN [ram_size |-> RamSize, uart_ready |-> TRUE] ELSE platform
      /\ ticks \in Nat
  BY BootNumbers DEF StageRuns, BootStage, BootInv, BootTypes
<1>4. /\ sequence' \in SequenceOver(D)
      /\ sequence'.current = s + 1 /\ sequence'.completed = sequence.completed \cup {s}
      /\ sequence'.timings[s] = [start |-> ticks, end |-> ticks + 1]
      /\ \A x \in BootStage \ {s} : sequence'.timings[x] = sequence.timings[x]
      /\ sequence'.digests = [sequence.digests EXCEPT ![s] = digest]
  <2> DEFINE begun == begin_stage(sequence, s, ticks)
  <2>1. sequence' = complete_stage(begun, s, ticks + 1, digest)
    BY <1>1, <1>3 DEF StageRuns
  <2>2. /\ begun \in SequenceOver(D) /\ begun.completed = sequence.completed
        /\ begun.digests = sequence.digests
        /\ begun.timings[s].start = ticks
        /\ \A x \in BootStage \ {s} : begun.timings[x] = sequence.timings[x]
    BY <1>2, <1>3 DEF begin_stage, SequenceOver, Timing
  <2> HIDE DEF begun
  <2>3. sequence' = [current |-> s + 1, completed |-> begun.completed \cup {s},
                     timings |-> [begun.timings EXCEPT ![s] = [start |-> begun.timings[s].start, end |-> ticks + 1]],
                     digests |-> [begun.digests EXCEPT ![s] = digest]]
    <3>1. begun \in SequenceOver(D) /\ s \in BootStage /\ ticks + 1 \in Nat /\ digest \in D
      BY <1>1, <1>3, <2>2
    <3>2. complete_stage(begun, s, ticks + 1, digest)
            = [current |-> s + 1, completed |-> begun.completed \cup {s},
               timings |-> [begun.timings EXCEPT ![s] = [start |-> begun.timings[s].start, end |-> ticks + 1]],
               digests |-> [begun.digests EXCEPT ![s] = digest]]
      <4> DEFINE tick == ticks + 1
      <4>1. tick \in Nat
        BY <3>1
      <4> HIDE DEF s, tick
      <4>2. complete_stage(begun, s, tick, digest)
              = [current |-> s + 1, completed |-> begun.completed \cup {s},
                 timings |-> [begun.timings EXCEPT ![s] = [start |-> begun.timings[s].start, end |-> tick]],
                 digests |-> [begun.digests EXCEPT ![s] = digest]]
        BY ONLY <3>1, <4>1, CompleteTimes
      <4> QED  BY ONLY <4>2 DEF tick
    <3> QED  BY ONLY <2>1, <3>2
  <2>4. /\ s + 1 \in 0 .. Done /\ begun.completed \cup {s} \in SUBSET BootStage
        /\ [start |-> begun.timings[s].start, end |-> ticks + 1] \in Timing
    <3>1. s + 1 \in 0 .. Done
      BY <1>3, BootNumbers DEF BootStage, Done
    <3>2. begun.completed \cup {s} \in SUBSET BootStage
      BY <1>3, <2>2 DEF SequenceOver
    <3>3. [start |-> begun.timings[s].start, end |-> ticks + 1] \in Timing
      BY <1>3, <2>2 DEF Timing
    <3> QED  BY <3>1, <3>2, <3>3
  <2>5. /\ begun.timings \in [BootStage -> Timing] /\ begun.digests \in [BootStage -> D]
    BY <2>2 DEF SequenceOver
  <2>6. /\ [begun.timings EXCEPT ![s] = [start |-> begun.timings[s].start, end |-> ticks + 1]]
             \in [BootStage -> Timing]
        /\ [begun.digests EXCEPT ![s] = digest] \in [BootStage -> D]
    BY <2>4, <2>5, <1>1, <1>3
  <2>7. sequence' \in SequenceOver(D)
    BY <2>3, <2>4, <2>6 DEF SequenceOver
  <2>8. /\ sequence'.timings[s] = [start |-> ticks, end |-> ticks + 1]
        /\ \A x \in BootStage \ {s} : sequence'.timings[x] = sequence.timings[x]
    BY <2>2, <2>3, <2>5, <1>3
  <2> QED  BY <2>2, <2>3, <2>7, <2>8
<1>5. /\ measured'.accumulator = Append(acc, <<s, digest>>)
      /\ measured'.count = measured.count + 1
      /\ measured'.hashes = [measured.hashes EXCEPT ![s] = digest]
      /\ measured' \in MeasuredOver(D)
  <2>1. /\ measured'.accumulator = Append(acc, <<s, digest>>)
        /\ measured'.count = measured.count + 1
        /\ measured'.hashes = [measured.hashes EXCEPT ![s] = digest]
        /\ measured' = [accumulator |-> measured'.accumulator, count |-> measured'.count,
                        hashes |-> measured'.hashes]
    BY <1>1, <1>3 DEF StageRuns, extend_measurement
  <2>2. Append(acc, <<s, digest>>) \in Seq(BootStage \X D)
    BY <1>1, <1>2, <1>3, AppendProperties DEF MeasuredOver
  <2>3. [measured.hashes EXCEPT ![s] = digest] \in [BootStage -> D] /\ measured.count + 1 \in Nat
    BY <1>1, <1>2, <1>3 DEF MeasuredOver
  <2> QED  BY <2>1, <2>2, <2>3 DEF MeasuredOver
<1>6. /\ Len(acc) = s /\ Len(measured'.accumulator) = s + 1
      /\ measured'.accumulator[s + 1] = <<s, digest>>
      /\ \A i \in 1 .. s : measured'.accumulator[i] = acc[i]
      /\ \A k \in 0 .. s : SubSeq(measured'.accumulator, 1, k) = SubSeq(acc, 1, k)
      /\ SubSeq(acc, 1, s) = acc
  <2> DEFINE e == <<s, digest>>
             T == BootStage \X D
  <2>1. Len(acc) = s /\ acc \in Seq(T) /\ e \in T /\ measured'.accumulator = Append(acc, e)
    BY <1>1, <1>2, <1>3, <1>5 DEF BootInv, Measured, MeasuredOver
  <2> HIDE DEF e, T
  <2>2. /\ Append(acc, e) \in Seq(T) /\ Len(Append(acc, e)) = s + 1
        /\ Append(acc, e)[s + 1] = e
        /\ \A i \in 1 .. s : Append(acc, e)[i] = acc[i]
    BY <2>1, AppendProperties
  <2>3. ASSUME NEW k \in 0 .. s PROVE SubSeq(Append(acc, e), 1, k) = SubSeq(acc, 1, k)
    BY <1>3, <2>1, <2>2
  <2>4. SubSeq(acc, 1, s) = acc
    BY <1>3, <2>1
  <2> QED  BY <2>1, <2>2, <2>3, <2>4 DEF e
<1>7. s = FirstWitness => digest = <<s, acc>>
  BY <1>1, <1>3, BootNumbers DEF StageDigest, phase_digest
<1>8. BootTypes'
  BY <1>3, <1>4, <1>5, BootNumbers DEF BootInv, BootTypes, BootStage, Done
<1>9. Measured'
  <2>1. \A i \in 1 .. s + 1 : measured'.accumulator[i] = <<i - 1, sequence'.digests[i - 1]>>
    <3> SUFFICES ASSUME NEW i \in 1 .. s + 1
                 PROVE  measured'.accumulator[i] = <<i - 1, sequence'.digests[i - 1]>>
      OBVIOUS
    <3>1. CASE i = s + 1
      BY <3>1, <1>2, <1>3, <1>4, <1>6 DEF SequenceOver
    <3>2. CASE i # s + 1
      <4>1. i \in 1 .. s /\ i - 1 \in BootStage /\ i - 1 # s
        BY <3>2, <1>3, BootNumbers DEF BootStage
      <4>2. measured'.accumulator[i] = <<i - 1, sequence.digests[i - 1]>>
        BY <4>1, <1>6 DEF BootInv, Measured
      <4>3. sequence'.digests[i - 1] = sequence.digests[i - 1]
        BY <4>1, <1>2, <1>4 DEF SequenceOver
      <4> QED  BY <4>2, <4>3
    <3> QED  BY <3>1, <3>2
  <2> QED  BY <2>1, <1>3, <1>4, <1>5, <1>6 DEF BootInv, Measured
<1>10. Witnessed'
  <2> SUFFICES ASSUME FirstWitness \in sequence'.completed
               PROVE  sequence'.digests[FirstWitness]
                        = <<FirstWitness, SubSeq(measured'.accumulator, 1, FirstWitness)>>
    BY DEF Witnessed
  <2>1. CASE s = FirstWitness
    BY <2>1, <1>2, <1>3, <1>4, <1>6, <1>7 DEF SequenceOver
  <2>2. CASE s # FirstWitness
    <3>1. FirstWitness \in sequence.completed /\ FirstWitness \in 0 .. s /\ FirstWitness \in BootStage
      BY <2>2, <1>3, <1>4 DEF BootInv, Reached, BootStage
    <3> QED  BY <3>1, <2>2, <1>2, <1>4, <1>6 DEF BootInv, Witnessed, SequenceOver
  <2> QED  BY <2>1, <2>2
<1>11. Reached'
  BY <1>3, <1>4, BootNumbers DEF BootInv, Reached, BootTypes, BootStage
<1>12. Timed'
  <2>0. \A x \in BootStage : sequence.timings[x].start \in Nat /\ sequence.timings[x].end \in Nat
    BY <1>2 DEF SequenceOver, Timing
  <2> SUFFICES ASSUME NEW x \in BootStage, x < s + 1
               PROVE  /\ sequence'.timings[x].start < sequence'.timings[x].end
                      /\ sequence'.timings[x].end < ticks'
                      /\ x > 0 => sequence'.timings[x - 1].end <= sequence'.timings[x].start
    BY <1>4 DEF Timed
  <2>1. x > 0 => /\ x - 1 \in BootStage \ {s} /\ x - 1 < s
                 /\ sequence'.timings[x - 1] = sequence.timings[x - 1]
    BY <1>3, <1>4, BootNumbers DEF BootStage
  <2>2. CASE x = s
    <3>1. x > 0 => sequence.timings[x - 1].end < ticks
      BY <2>1, <2>2 DEF BootInv, Timed
    <3> QED  BY <2>0, <2>1, <2>2, <3>1, <1>3, <1>4
  <2>3. CASE x # s
    <3>1. x < s /\ sequence'.timings[x] = sequence.timings[x]
      BY <2>3, <1>3, <1>4 DEF BootStage
    <3>2. /\ sequence.timings[x].start < sequence.timings[x].end
          /\ sequence.timings[x].end < ticks
          /\ x > 0 => sequence.timings[x - 1].end <= sequence.timings[x].start
      BY <3>1 DEF BootInv, Timed
    <3> QED  BY <2>0, <2>1, <3>1, <3>2, <1>3
  <2> QED  BY <2>2, <2>3
<1> QED  BY <1>8, <1>9, <1>10, <1>11, <1>12 DEF BootInv

\* A HAL call that fails leaves only a start behind: HalFails.
LEMMA BootFails ==
  ASSUME BootInv, HalFails
  PROVE  BootInv'
<1>0. PICK D : sequence \in SequenceOver(D) /\ measured \in MeasuredOver(D)
  BY DEF BootInv, BootTypes
<1>1. /\ at = sequence.current /\ at \in BootStage /\ at' = Done /\ ticks' = ticks + 1
      /\ sequence' = [sequence EXCEPT !.timings[at].start = ticks]
      /\ UNCHANGED <<measured, hal>> /\ ticks \in Nat
      /\ platform'.uart_ready = platform.uart_ready
      /\ platform' \in [ram_size : Nat, uart_ready : BOOLEAN]
  BY BootNumbers DEF HalFails, begin_stage, BootInv, BootTypes, BootStage
<1>2. /\ sequence'.current = sequence.current /\ sequence'.completed = sequence.completed
      /\ sequence'.digests = sequence.digests
      /\ sequence' \in SequenceOver(D)
      /\ \A x \in BootStage \ {at} : sequence'.timings[x] = sequence.timings[x]
  <2>1. sequence' = [current |-> sequence.current, completed |-> sequence.completed,
                     timings |-> [sequence.timings EXCEPT ![at] = [start |-> ticks, end |-> sequence.timings[at].end]],
                     digests |-> sequence.digests]
    BY <1>0, <1>1, BeginTimes DEF begin_stage
  <2>2. sequence.timings \in [BootStage -> Timing]
    BY <1>0 DEF SequenceOver
  <2>3. [start |-> ticks, end |-> sequence.timings[at].end] \in Timing
    BY <1>1, <2>2 DEF Timing
  <2>4. [sequence.timings EXCEPT ![at] = [start |-> ticks, end |-> sequence.timings[at].end]]
          \in [BootStage -> Timing]
    BY <2>2, <2>3
  <2>5. sequence' \in SequenceOver(D)
    BY <1>0, <2>1, <2>4 DEF SequenceOver
  <2>6. \A x \in BootStage \ {at} : sequence'.timings[x] = sequence.timings[x]
    BY <2>1, <2>2, <1>1
  <2> QED  BY <2>1, <2>5, <2>6
<1>3. BootTypes'
  BY <1>0, <1>1, <1>2, BootNumbers DEF BootTypes, Done
<1>4. Measured' /\ Witnessed' /\ Reached'
  BY <1>1, <1>2 DEF BootInv, Measured, Witnessed, Reached
<1>5. Timed'
  <2>0. \A x \in BootStage : sequence.timings[x].start \in Nat /\ sequence.timings[x].end \in Nat
    BY <1>0 DEF SequenceOver, Timing
  <2> SUFFICES ASSUME NEW x \in BootStage, x < sequence.current
               PROVE  /\ sequence'.timings[x].start < sequence'.timings[x].end
                      /\ sequence'.timings[x].end < ticks'
                      /\ x > 0 => sequence'.timings[x - 1].end <= sequence'.timings[x].start
    BY <1>2 DEF Timed
  <2>1. x # at /\ sequence'.timings[x] = sequence.timings[x]
    BY <1>1, <1>2 DEF BootStage
  <2>2. x > 0 => x - 1 \in BootStage \ {at} /\ sequence'.timings[x - 1] = sequence.timings[x - 1]
    BY <1>1, <1>2, BootNumbers DEF BootStage
  <2>3. /\ sequence.timings[x].start < sequence.timings[x].end
        /\ sequence.timings[x].end < ticks
        /\ x > 0 => sequence.timings[x - 1].end <= sequence.timings[x].start
    BY DEF BootInv, Timed
  <2> QED  BY <2>0, <2>1, <2>2, <2>3, <1>1
<1> QED  BY <1>3, <1>4, <1>5 DEF BootInv

\* Every step of the boot sequence and of the tracker keeps the invariant.
LEMMA BootStep == BootInv /\ [BootNext]_bootVars => BootInv'
<1> SUFFICES ASSUME BootInv, [BootNext]_bootVars PROVE BootInv'
  OBVIOUS
<1> USE DEF BootInv, BootTypes, Measured, Witnessed, Reached, Timed
<1>1. CASE run_boot_sequence
  <2>1. UNCHANGED <<sequence, measured, platform, hal, ticks>> /\ at' = 0
    BY <1>1 DEF run_boot_sequence
  <2>2. 0 \in 0 .. Done
    BY BootNumbers DEF Done
  <2> QED  BY <2>1, <2>2
<1>2. CASE StageRefused
  <2>1. ticks' = ticks + 1 /\ at' = Done /\ UNCHANGED <<sequence, measured, platform, hal>>
    BY <1>2 DEF StageRefused
  <2>2. Timed'
    <3>0. PICK D : sequence \in SequenceOver(D)
      OBVIOUS
    <3> QED  BY <2>1, <3>0 DEF SequenceOver, Timing
  <2>3. BootTypes'
    BY <2>1, BootNumbers DEF Done
  <2> QED  BY <2>1, <2>2, <2>3
<1>3. CASE HalFails
  BY <1>3, BootFails
<1>4. CASE StageRuns
  BY <1>4, BootRuns
<1>5. ASSUME NEW p \in BootStage, complete_phase(p) PROVE BootInv'
  BY <1>5 DEF complete_phase
<1>6. CASE UNCHANGED bootVars
  BY <1>6 DEF bootVars
<1> QED  BY <1>1, <1>2, <1>3, <1>4, <1>5, <1>6 DEF BootNext

\* The invariant is what is attested, and more.
LEMMA BootInvSuffices == BootInv => AttestedIsWhatRan
<1> SUFFICES ASSUME BootInv PROVE AttestedIsWhatRan
  OBVIOUS
<1>0. PICK D : sequence \in SequenceOver(D) /\ measured \in MeasuredOver(D)
  BY DEF BootInv, BootTypes
<1>1. measured.accumulator
         = [i \in 1 .. sequence.current |-> <<i - 1, sequence.digests[i - 1]>>]
  <2>1. measured.accumulator \in Seq(BootStage \X D)
    BY <1>0 DEF MeasuredOver
  <2> QED  BY <2>1, LenProperties DEF BootInv, Measured
<1>2. measured.count = Len(measured.accumulator)
  BY DEF BootInv, Measured
<1>3. \A s \in sequence.completed :
        /\ duration_ticks(sequence.timings[s]) > 0
        /\ s > 0 => sequence.timings[s - 1].end <= sequence.timings[s].start
  <2>1. /\ sequence.completed = {s \in BootStage : s < sequence.current}
        /\ \A s \in BootStage : sequence.timings[s] \in Timing
    BY <1>0 DEF BootInv, Reached, SequenceOver
  <2> SUFFICES ASSUME NEW s \in sequence.completed
               PROVE  /\ duration_ticks(sequence.timings[s]) > 0
                      /\ s > 0 => sequence.timings[s - 1].end <= sequence.timings[s].start
    OBVIOUS
  <2>2. /\ sequence.timings[s].start < sequence.timings[s].end
        /\ s > 0 => sequence.timings[s - 1].end <= sequence.timings[s].start
    BY <2>1 DEF BootInv, Timed
  <2>3. sequence.timings[s].start \in Nat /\ sequence.timings[s].end \in Nat
    BY <2>1 DEF Timing
  <2>4. duration_ticks(sequence.timings[s]) > 0
    BY <2>2, <2>3 DEF duration_ticks
  <2> QED BY <2>2, <2>4
<1>4. platform.uart_ready <=> HardwareDetect \in sequence.completed
  BY DEF BootInv, Reached
<1>5. is_complete(sequence) => measured.hashes = sequence.digests
  BY DEF BootInv, Measured
<1> QED  BY <1>1, <1>2, <1>3, <1>4, <1>5 DEF AttestedIsWhatRan, BootInv, Reached, Witnessed

\* Through failed and repeated runs the accumulator, the sequence, the hardware and
\* the times tell of the same stages.
THEOREM BootInvariant == BootSpec => []BootInv
<1> QED  BY BootStart, BootStep, PTL DEF BootSpec

\* What run_boot_sequence attests is what ran, for every number of stages, whichever
\* of them call the HAL and however often they fail.
THEOREM AttestedHolds == BootSpec => []AttestedIsWhatRan
<1> QED  BY BootInvariant, BootInvSuffices, PTL

-----------------------------------------------------------------------------
(* Induction over the turns of a loop. *)

LEMMA LeastNatural ==
  ASSUME NEW T \in SUBSET Nat, T # {}
  PROVE  \E m \in T : \A x \in T : m <= x
<1> DEFINE R == OpToRel(<, Nat)
<1>1. IsWellFoundedOn(R, Nat)
  BY NatLessThanWellFounded
<1>2. \A x, y \in Nat : x < y => <<x, y>> \in R
  BY DEF OpToRel
<1> HIDE DEF R
<1>3. PICK m \in T : \A y \in T : ~ (<<y, m>> \in R)
  BY <1>1, WFMin
<1>4. ASSUME NEW x \in T PROVE m <= x
  <2>1. x \in Nat /\ m \in Nat /\ ~(x < m)
    BY <1>2, <1>3
  <2>2. QED
    BY <2>1
<1>5. QED
  BY <1>4

\* Induction up to n, over a set.
LEMMA InductionTo ==
  ASSUME NEW n \in Nat, NEW S, 0 \in S, \A i \in 0 .. n - 1 : i \in S => i + 1 \in S
  PROVE  0 .. n \subseteq S
<1> DEFINE T == (0 .. n) \ S
<1> SUFFICES ASSUME T # {} PROVE FALSE
  OBVIOUS
<1>1. PICK m \in T : \A x \in T : m <= x
  <2>1. T \in SUBSET Nat
    OBVIOUS
  <2> HIDE DEF T
  <2>2. QED
    BY <2>1, LeastNatural
<1>2. m # 0 /\ m - 1 \in 0 .. n - 1
  BY <1>1
<1>3. m - 1 \in S
  BY <1>1, <1>2
<1>4. (m - 1) + 1 = m
  BY <1>2
<1>5. QED
  BY <1>1, <1>2, <1>3, <1>4


-----------------------------------------------------------------------------
(* The run queues: a heap stays one, and keeps its entries. *)

QueueEntry == [partition : Nat, priority : Nat]
Queue == Seq(QueueEntry)
Placed(q, e) == {i \in 1 .. Len(q) : q[i] = e}
Count(q, e) == Cardinality(Placed(q, e))
SameEntries(q, r) == Len(q) = Len(r) /\ \A e \in QueueEntry : Count(q, e) = Count(r, e)

Ordered(q, i) == q[i].priority <= q[i \div 2].priority
IsHeap(q) == \A i \in 2 .. Len(q) : Ordered(q, i)

\* What is left to order while an entry that rises, or sinks, is at pos.
Sifting(q, pos, up) ==
  /\ q \in Queue /\ pos \in 1 .. Len(q)
  /\ \A i \in 2 .. Len(q) : (IF up THEN i # pos ELSE i \div 2 # pos) => Ordered(q, i)
  /\ \A i \in 2 .. Len(q) : i \div 2 = pos /\ pos > 1 => q[i].priority <= q[pos \div 2].priority

Target(q, pos, up) == IF up THEN Smaller(q, pos) ELSE Largest(q, pos)

LEMMA QueueTyped ==
  ASSUME NEW q \in Queue
  PROVE  /\ Len(q) \in Nat
         /\ \A i \in 1 .. Len(q) : q[i] \in QueueEntry /\ q[i].priority \in Nat
<1>1. ASSUME NEW i \in 1 .. Len(q) PROVE q[i] \in QueueEntry
  BY DEF Queue
<1>2. \A e \in QueueEntry : e.priority \in Nat
  BY DEF QueueEntry
<1> QED BY <1>1, <1>2 DEF Queue

LEMMA Quotient ==
  ASSUME NEW m \in Nat \ {0}, NEW d \in Nat
  PROVE  d \div m \in Nat
<1>1. ASSUME NEW n, n = d \div m PROVE n \in Nat
  BY <1>1, SMT
<1> QED BY <1>1, Zenon

LEMMA Halves ==
  ASSUME NEW i \in Nat
  PROVE  i \div 2 \in Nat /\ 2 * (i \div 2) <= i /\ i < 2 * (i \div 2) + 2
OBVIOUS

\* Two places exchanged: the same entries.
LEMMA SwapKeeps ==
  ASSUME NEW q \in Queue, NEW i \in 1 .. Len(q), NEW j \in 1 .. Len(q)
  PROVE  /\ Swapped(q, i, j) \in Queue /\ SameEntries(q, Swapped(q, i, j))
         /\ \A k \in 1 .. Len(q) :
              Swapped(q, i, j)[k] = IF k = i THEN q[j] ELSE IF k = j THEN q[i] ELSE q[k]
<1> DEFINE r == Swapped(q, i, j)
           pi == [k \in 1 .. Len(q) |-> IF k = i THEN j ELSE IF k = j THEN i ELSE k]
<1>1. Len(q) \in Nat /\ q[i] \in QueueEntry /\ q[j] \in QueueEntry
  BY DEF Queue
<1>2. r \in Queue /\ Len(r) = Len(q)
  BY <1>1 DEF Queue, Swapped
<1>3. \A k \in 1 .. Len(q) : r[k] = IF k = i THEN q[j] ELSE IF k = j THEN q[i] ELSE q[k]
  BY <1>1 DEF Queue, Swapped
<1>4. \A k \in 1 .. Len(q) : r[k] = q[pi[k]] /\ pi[k] \in 1 .. Len(q) /\ pi[pi[k]] = k
  BY <1>3
<1> HIDE DEF r
<1>5. ASSUME NEW e \in QueueEntry PROVE Count(q, e) = Count(r, e)
  <2> DEFINE f == [k \in Placed(r, e) |-> pi[k]]
  <2>1. /\ Placed(r, e) \subseteq 1 .. Len(q) /\ Placed(q, e) \subseteq 1 .. Len(q)
        /\ \A k \in 1 .. Len(q) : k \in Placed(r, e) <=> pi[k] \in Placed(q, e)
    BY <1>2, <1>4 DEF Placed
  <2>6. 1 \in Int /\ Len(q) \in Int
    BY <1>1
  <2>2. IsFiniteSet(Placed(r, e)) /\ IsFiniteSet(Placed(q, e))
    BY <2>6, <2>1, FS_Interval, FS_Subset
  <2> HIDE DEF pi
  <2>3. f \in Bijection(Placed(r, e), Placed(q, e))
    <3>1. \A k \in Placed(r, e) : f[k] = pi[k] /\ f[k] \in Placed(q, e)
      BY <2>1
    <3>2. f \in [Placed(r, e) -> Placed(q, e)]
      BY <3>1
    <3>3. \A k \in Placed(q, e) : pi[k] \in Placed(r, e) /\ pi[pi[k]] = k
      BY <1>4, <2>1
    <3>4. \A k \in Placed(r, e) : pi[pi[k]] = k
      BY <1>4, <2>1
    <3> HIDE DEF f
    <3>5. \A a, b \in Placed(r, e) : f[a] = f[b] => a = b
      BY <3>1, <3>4
    <3>6. \A b \in Placed(q, e) : \E a \in Placed(r, e) : f[a] = b
      BY <3>1, <3>3
    <3> QED BY <3>2, <3>5, <3>6 DEF Bijection, Injection, Surjection, IsInjective
  <2>4. Cardinality(Placed(r, e)) = Cardinality(Placed(q, e))
    BY <2>2, <2>3, FS_Bijection DEF ExistsBijection
  <2> QED BY <2>4 DEF Count
<1> QED BY <1>2, <1>3, <1>5 DEF SameEntries, r

LEMMA RiseTurns ==
  ASSUME NEW q, NEW pos, Sifting(q, pos, TRUE)
  PROVE  LET to == Smaller(q, pos)
         IN  /\ to \in 1 .. Len(q)
             /\ to = pos => IsHeap(q)
             /\ to # pos => to < pos /\ Sifting(Swapped(q, pos, to), to, TRUE)
<1> DEFINE to == Smaller(q, pos)
           r == Swapped(q, pos, to)
<1>1. q \in Queue /\ pos \in 1 .. Len(q) /\ Len(q) \in Nat
  BY QueueTyped DEF Sifting
<1>2. \A i \in 1 .. Len(q) : q[i].priority \in Nat
  BY <1>1, QueueTyped
<1>3. CASE to = pos
  <2>1. pos > 1 => Ordered(q, pos)
    BY <1>1, <1>2, <1>3, Halves DEF Smaller, Ordered
  <2> QED BY <1>1, <1>3, <2>1 DEF IsHeap, Sifting
<1>4. CASE to # pos
  <2>1. /\ pos > 1 /\ to = pos \div 2 /\ to < pos /\ to \in 1 .. Len(q)
        /\ q[pos].priority > q[to].priority
    BY <1>1, <1>4, Halves DEF Smaller
  <2> HIDE DEF to
  <2>2. /\ r \in Queue /\ Len(r) = Len(q)
        /\ \A k \in 1 .. Len(q) : r[k] = IF k = pos THEN q[to] ELSE IF k = to THEN q[pos] ELSE q[k]
    <3>1. /\ r \in Queue /\ SameEntries(q, r)
          /\ \A k \in 1 .. Len(q) :
               r[k] = IF k = pos THEN q[to] ELSE IF k = to THEN q[pos] ELSE q[k]
      BY <1>1, <2>1, SwapKeeps
    <3> QED BY <3>1 DEF SameEntries
  <2> HIDE DEF r
  <2>3. ASSUME NEW i \in 2 .. Len(q), i # to PROVE Ordered(r, i)
    <3>1. i \div 2 \in 1 .. Len(q) /\ i \div 2 # i
      BY <1>1, Halves
    <3>2. i # pos => q[i].priority <= q[i \div 2].priority
      BY DEF Sifting, Ordered
    <3>3. i \div 2 = pos => q[i].priority <= q[to].priority
      BY <2>1 DEF Sifting
    <3> DEFINE h == i \div 2
    <3> HIDE DEF h
    <3>4. r[i].priority <= r[h].priority
      BY <1>1, <1>2, <2>1, <2>2, <2>3, <3>1, <3>2, <3>3 DEF h
    <3> QED BY <3>4 DEF h, Ordered
  <2>4. ASSUME NEW i \in 2 .. Len(q), i \div 2 = to, to > 1
        PROVE  r[i].priority <= r[to \div 2].priority
    <3>1. to \div 2 \in 1 .. Len(q) /\ to \div 2 < to
      BY <1>1, <2>1, <2>4, Halves
    <3>2. q[to].priority <= q[to \div 2].priority
      BY <1>1, <2>1, <2>4 DEF Sifting, Ordered
    <3>3. i # pos => q[i].priority <= q[to].priority
      BY <2>4 DEF Sifting, Ordered
    <3> DEFINE h == to \div 2
    <3> HIDE DEF h
    <3>4. r[i].priority <= r[h].priority
      BY <1>1, <1>2, <2>1, <2>2, <2>4, <3>1, <3>2, <3>3, Halves DEF h
    <3> QED BY <3>4 DEF h
  <2>5. Sifting(r, to, TRUE)
    BY <2>1, <2>2, <2>3, <2>4 DEF Sifting
  <2> QED BY <1>4, <2>1, <2>5 DEF r, to
<1> QED BY <1>1, <1>3, <1>4

LEMMA SinkTurns ==
  ASSUME NEW q, NEW pos, Sifting(q, pos, FALSE)
  PROVE  LET to == Largest(q, pos)
         IN  /\ to \in 1 .. Len(q)
             /\ to = pos => IsHeap(q)
             /\ to # pos => to > pos /\ Sifting(Swapped(q, pos, to), to, FALSE)
<1> DEFINE to == Largest(q, pos)
           r == Swapped(q, pos, to)
<1>1. q \in Queue /\ pos \in 1 .. Len(q) /\ Len(q) \in Nat
  BY QueueTyped DEF Sifting
<1>2. \A i \in 1 .. Len(q) : q[i].priority \in Nat
  BY <1>1, QueueTyped
<1>3. /\ to \in {pos, 2 * pos, 2 * pos + 1} /\ to \in 1 .. Len(q)
      /\ to # pos => q[to].priority > q[pos].priority
      /\ 2 * pos <= Len(q) => q[2 * pos].priority <= q[to].priority
      /\ 2 * pos + 1 <= Len(q) => q[2 * pos + 1].priority <= q[to].priority
  <2> DEFINE left == IF 2 * pos <= Len(q) /\ q[2 * pos].priority > q[pos].priority
                     THEN 2 * pos ELSE pos
  <2>1. to = IF 2 * pos + 1 <= Len(q) /\ q[2 * pos + 1].priority > q[left].priority
             THEN 2 * pos + 1 ELSE left
    BY DEF Largest
  <2>2. /\ left \in {pos, 2 * pos} /\ left \in 1 .. Len(q)
        /\ left # pos => q[left].priority > q[pos].priority
        /\ 2 * pos <= Len(q) => q[2 * pos].priority <= q[left].priority
        /\ q[pos].priority <= q[left].priority
    BY <1>1, <1>2
  <2> HIDE DEF left, to
  <2> QED BY <1>1, <1>2, <2>1, <2>2
<1> HIDE DEF to
<1>4. \A i \in 2 .. Len(q) : i \div 2 = pos => i \in {2 * pos, 2 * pos + 1}
  BY <1>1, Halves
<1>5. CASE to = pos
  <2>1. ASSUME NEW i \in 2 .. Len(q), i \div 2 = pos PROVE Ordered(q, i)
    BY <1>1, <1>3, <1>4, <1>5, <2>1 DEF Ordered
  <2>2. IsHeap(q)
    BY <1>1, <2>1 DEF IsHeap, Sifting
  <2> QED BY <1>3, <1>5, <2>2 DEF to
<1>6. CASE to # pos
  <2>1. to > pos /\ to \div 2 = pos /\ q[to].priority > q[pos].priority
    BY <1>1, <1>3, <1>6, Halves
  <2>2. /\ r \in Queue /\ Len(r) = Len(q)
        /\ \A k \in 1 .. Len(q) : r[k] = IF k = pos THEN q[to] ELSE IF k = to THEN q[pos] ELSE q[k]
    <3>1. /\ r \in Queue /\ SameEntries(q, r)
          /\ \A k \in 1 .. Len(q) :
               r[k] = IF k = pos THEN q[to] ELSE IF k = to THEN q[pos] ELSE q[k]
      BY <1>1, <1>3, SwapKeeps
    <3> QED BY <3>1 DEF SameEntries
  <2> HIDE DEF r
  <2>3. ASSUME NEW i \in 2 .. Len(q), i \div 2 # to PROVE Ordered(r, i)
    <3>1. i \div 2 \in 1 .. Len(q) /\ i \div 2 # i
      BY <1>1, Halves
    <3>2. i \div 2 # pos => q[i].priority <= q[i \div 2].priority
      BY DEF Sifting, Ordered
    <3>3. i \div 2 = pos => q[i].priority <= q[to].priority
      BY <1>1, <1>3, <1>4
    <3>4. i = to => i \div 2 = pos
      BY <2>1
    <3>5. i = pos => q[to].priority <= q[i \div 2].priority
      BY <1>1, <1>3, <1>6, <2>1 DEF Sifting
    <3> DEFINE h == i \div 2
    <3> HIDE DEF h
    <3>6. r[i].priority <= r[h].priority
      BY <1>1, <1>2, <1>3, <2>1, <2>2, <2>3, <3>1, <3>2, <3>3, <3>4, <3>5 DEF h
    <3> QED BY <3>6 DEF h, Ordered
  <2>4. ASSUME NEW i \in 2 .. Len(q), i \div 2 = to
        PROVE  r[i].priority <= r[to \div 2].priority
    <3>1. q[i].priority <= q[to].priority /\ i # to /\ i # pos
      <4>1. i \div 2 # pos /\ i # to
        BY <1>1, <1>3, <1>6, <2>4, Halves
      <4>2. i # pos
        BY <1>1, <1>3, <2>1, <2>4, Halves
      <4>3. Ordered(q, i)
        BY <4>1 DEF Sifting
      <4> QED BY <2>4, <4>1, <4>2, <4>3 DEF Ordered
    <3>2. r[to \div 2] = q[to] /\ r[i] = q[i]
      BY <1>1, <1>3, <2>1, <2>2, <3>1
    <3> QED BY <3>1, <3>2
  <2>5. Sifting(r, to, FALSE)
    BY <1>3, <2>1, <2>2, <2>3, <2>4 DEF Sifting
  <2> QED BY <1>3, <1>6, <2>1, <2>5 DEF r, to
<1> QED BY <1>5, <1>6, <1>3 DEF to

\* after holds the states of the loop.
Turns(q, pos, up, n, after) ==
  after = [k \in 0 .. n |-> IF k = 0 THEN [q |-> q, pos |-> pos] ELSE SiftTurn(after[k - 1], up)]

LEMMA TurnsExist ==
  ASSUME NEW q, NEW pos, NEW up, NEW n \in Nat
  PROVE  \E after : Turns(q, pos, up, n, after)
<1> DEFINE S == {k \in 0 .. n : \E after : Turns(q, pos, up, k, after)}
<1>1. 0 \in S
  <2> DEFINE g == [k \in 0 .. 0 |-> [q |-> q, pos |-> pos]]
  <2>1. Turns(q, pos, up, 0, g)
    BY DEF Turns
  <2> QED BY <2>1
<1>2. ASSUME NEW k \in 0 .. n - 1, k \in S PROVE k + 1 \in S
  <2>1. PICK g : Turns(q, pos, up, k, g)
    BY <1>2
  <2> DEFINE h == [j \in 0 .. k + 1 |-> IF j <= k THEN g[j] ELSE SiftTurn(g[k], up)]
  <2>2. ASSUME NEW j \in 0 .. k + 1
        PROVE  h[j] = IF j = 0 THEN [q |-> q, pos |-> pos] ELSE SiftTurn(h[j - 1], up)
    <3>1. CASE j <= k
      <4>1. j \in 0 .. k /\ h[j] = g[j] /\ (j # 0 => h[j - 1] = g[j - 1])
        BY <3>1
      <4> HIDE DEF h
      <4>2. g[j] = IF j = 0 THEN [q |-> q, pos |-> pos] ELSE SiftTurn(g[j - 1], up)
        BY <2>1, <4>1 DEF Turns
      <4> QED BY <4>1, <4>2, Zenon
    <3>2. CASE ~(j <= k)
      <4>1. j = k + 1 /\ j # 0 /\ j - 1 = k
        BY <3>2
      <4>2. h[k + 1] = SiftTurn(g[k], up) /\ h[k] = g[k]
        OBVIOUS
      <4> HIDE DEF h
      <4> QED BY <4>1, <4>2
    <3> QED BY <3>1, <3>2
  <2>3. Turns(q, pos, up, k + 1, h)
    <3>1. h = [j \in 0 .. k + 1 |-> h[j]]
      OBVIOUS
    <3> HIDE DEF h
    <3> QED BY <2>2, <3>1, Zenon DEF Turns
  <2> QED BY <2>3
<1>3. 0 .. n \subseteq S
  <2> HIDE DEF S
  <2> QED BY <1>1, <1>2, InductionTo
<1> QED BY <1>3

\* After n turns: the entries are those at the start, and the loop is at rest, or it is n
\* places on its way.
Underway(q, up, n, s) ==
  /\ s.q \in Queue /\ SameEntries(q, s.q)
  /\ \/ IsHeap(s.q) /\ Target(s.q, s.pos, up) = s.pos /\ s.pos \in 1 .. Len(q)
     \/ /\ Sifting(s.q, s.pos, up)
        /\ IF up THEN s.pos + n <= Len(q) ELSE s.pos > n

LEMMA TurnKeeps ==
  ASSUME NEW q \in Queue, NEW up \in BOOLEAN, NEW n \in Nat, NEW s, Underway(q, up, n, s)
  PROVE  Underway(q, up, n + 1, SiftTurn(s, up))
<1> DEFINE to == Target(s.q, s.pos, up)
           t == [q |-> Swapped(s.q, s.pos, to), pos |-> to]
<1>1. SiftTurn(s, up) = t
  BY DEF SiftTurn, Target
<1>2. s.q \in Queue /\ SameEntries(q, s.q) /\ Len(s.q) = Len(q) /\ Len(q) \in Nat
  BY QueueTyped DEF Underway, SameEntries
<1>3. s.pos \in 1 .. Len(q)
  BY <1>2 DEF Underway, Sifting
<1>4. to \in 1 .. Len(q) /\ (to = s.pos => IsHeap(s.q))
  <2>1. CASE IsHeap(s.q) /\ to = s.pos
    BY <1>3, <2>1
  <2>2. CASE Sifting(s.q, s.pos, up) /\ up
    BY <1>2, <2>2, RiseTurns DEF Target
  <2>3. CASE Sifting(s.q, s.pos, up) /\ ~up
    <3>1. up = FALSE
      BY <2>3
    <3> QED BY <1>2, <2>3, <3>1, SinkTurns DEF Target
  <2> QED BY <2>1, <2>2, <2>3 DEF Underway
<1> HIDE DEF to
<1>5. t.q \in Queue /\ SameEntries(q, t.q)
  <2>1. /\ Swapped(s.q, s.pos, to) \in Queue
        /\ SameEntries(s.q, Swapped(s.q, s.pos, to))
    BY <1>2, <1>3, <1>4, SwapKeeps
  <2> QED BY <1>2, <2>1 DEF SameEntries
<1>6. CASE to = s.pos
  <2>1. t.q = s.q
    <3>1. \A k \in 1 .. Len(q) : t.q[k] = s.q[k]
      BY <1>2, <1>3, <1>6, SwapKeeps
    <3>2. Len(t.q) = Len(s.q)
      BY <1>2, <1>5 DEF SameEntries
    <3> HIDE DEF t
    <3> QED BY <1>2, <1>5, <3>1, <3>2, SeqEqual DEF Queue
  <2>2. IsHeap(t.q) /\ Target(t.q, t.pos, up) = t.pos /\ t.pos \in 1 .. Len(q)
    BY <1>3, <1>4, <1>6, <2>1 DEF to
  <2> QED BY <1>1, <1>5, <2>2 DEF Underway
<1>7. CASE to # s.pos
  <2>1. Sifting(s.q, s.pos, up) /\ IF up THEN s.pos + n <= Len(q) ELSE s.pos > n
    BY <1>7 DEF Underway, to
  <2>2. Sifting(t.q, t.pos, up) /\ IF up THEN t.pos + (n + 1) <= Len(q) ELSE t.pos > n + 1
    <3>1. CASE up
      <4>1. up = TRUE
        BY <3>1
      <4>2. to < s.pos /\ Sifting(Swapped(s.q, s.pos, to), to, up)
        BY <1>7, <2>1, <4>1, RiseTurns DEF Target, to
      <4>3. s.pos + n <= Len(q) /\ to + (n + 1) <= Len(q)
        BY <1>2, <1>3, <1>4, <2>1, <4>1, <4>2
      <4> QED BY <3>1, <4>2, <4>3
    <3>2. CASE ~up
      <4>1. up = FALSE
        BY <3>2
      <4>2. to > s.pos /\ Sifting(Swapped(s.q, s.pos, to), to, up)
        BY <1>7, <2>1, <4>1, SinkTurns DEF Target, to
      <4> QED BY <1>2, <1>3, <1>4, <2>1, <3>2, <4>2
    <3> QED BY <3>1, <3>2
  <2> QED BY <1>1, <1>5, <2>2 DEF Underway
<1> QED BY <1>6, <1>7

\* Both sifts end with a heap of the entries they were given.
LEMMA SiftsToHeap ==
  ASSUME NEW q \in Queue, NEW up \in BOOLEAN, NEW pos \in 1 .. Len(q), Sifting(q, pos, up)
  PROVE  /\ Sifted(q, pos, up) \in Queue /\ SameEntries(q, Sifted(q, pos, up))
         /\ IsHeap(Sifted(q, pos, up))
<1> DEFINE n == Len(q)
           after == CHOOSE f : f = [k \in 0 .. n |-> IF k = 0 THEN [q |-> q, pos |-> pos]
                                                    ELSE SiftTurn(f[k - 1], up)]
<1>1. n \in Nat
  BY QueueTyped
<1>2. Sifted(q, pos, up) = after[n].q
  BY Zenon DEF Sifted
<1>3. Turns(q, pos, up, n, after)
  <2>1. \E f : Turns(q, pos, up, n, f)
    BY <1>1, TurnsExist
  <2> QED BY <2>1, Zenon DEF Turns
<1> HIDE DEF after
<1> DEFINE S == {k \in 0 .. n : Underway(q, up, k, after[k])}
<1>4. after[0] = [q |-> q, pos |-> pos] /\ \A k \in 0 .. n - 1 : after[k + 1] = SiftTurn(after[k], up)
  BY <1>1, <1>3 DEF Turns
<1>5. 0 \in S
  BY <1>1, <1>4 DEF Underway, SameEntries
<1>6. ASSUME NEW k \in 0 .. n - 1, k \in S PROVE k + 1 \in S
  <2>1. k \in Nat /\ k + 1 \in 0 .. n
    BY <1>1
  <2> QED BY <1>4, <1>6, <2>1, TurnKeeps
<1>7. 0 .. n \subseteq S
  <2> HIDE DEF S, n
  <2> QED BY <1>1, <1>5, <1>6, InductionTo
<1>8. Underway(q, up, n, after[n])
  BY <1>1, <1>7
<1>9. IsHeap(after[n].q)
  BY <1>1, <1>8 DEF Underway, Sifting, SameEntries
<1> QED BY <1>2, <1>8, <1>9 DEF Underway

LEMMA RootIsMost ==
  ASSUME NEW q \in Queue, IsHeap(q), NEW i \in 1 .. Len(q)
  PROVE  q[i].priority <= q[1].priority
<1> DEFINE Over == {k \in 1 .. Len(q) : ~(q[k].priority <= q[1].priority)}
<1> SUFFICES ASSUME Over # {} PROVE FALSE
  OBVIOUS
<1>1. Len(q) \in Nat /\ \A k \in 1 .. Len(q) : q[k].priority \in Nat
  BY QueueTyped
<1>2. PICK m \in Over : \A x \in Over : m <= x
  <2>1. Over \in SUBSET Nat
    BY <1>1
  <2> HIDE DEF Over
  <2> QED BY <2>1, LeastNatural
<1>3. m \in 2 .. Len(q)
  BY <1>1, <1>2
<1>4. m \div 2 \in 1 .. Len(q) /\ m \div 2 < m
  BY <1>1, <1>3, Halves
<1>5. q[m].priority <= q[m \div 2].priority
  BY <1>3 DEF IsHeap, Ordered
<1>6. q[m \div 2].priority <= q[1].priority
  BY <1>2, <1>4
<1> QED BY <1>1, <1>2, <1>3, <1>4, <1>5, <1>6

\* A push.
LEMMA PushKeeps ==
  ASSUME NEW q \in Queue, IsHeap(q), NEW e \in QueueEntry
  PROVE  LET r == sift_up(Append(q, e))
         IN  r \in Queue /\ IsHeap(r) /\ Len(r) = Len(q) + 1
<1> DEFINE a == Append(q, e)
           n == Len(q) + 1
<1>1. Len(q) \in Nat
  BY QueueTyped
<1>2. /\ a \in Queue /\ Len(a) = n /\ \A i \in 1 .. Len(q) : a[i] = q[i]
  BY AppendProperties DEF Queue
<1> HIDE DEF a
<1>3. ASSUME NEW i \in 2 .. n, i # n PROVE Ordered(a, i)
  <2>1. i \in 2 .. Len(q) /\ i \div 2 \in 1 .. Len(q)
    BY <1>1, <1>3, Halves
  <2> QED BY <1>2, <2>1 DEF Ordered, IsHeap
<1>4. ASSUME NEW i \in 2 .. n PROVE i \div 2 # n
  BY <1>1, Halves
<1>5. Sifting(a, n, TRUE)
  BY <1>1, <1>2, <1>3, <1>4 DEF Sifting
<1>6. n \in 1 .. Len(a)
  BY <1>1, <1>2
<1> HIDE DEF n
<1>7. /\ Sifted(a, n, TRUE) \in Queue /\ SameEntries(a, Sifted(a, n, TRUE))
      /\ IsHeap(Sifted(a, n, TRUE))
  BY <1>2, <1>5, <1>6, SiftsToHeap
<1>8. sift_up(a) = Sifted(a, n, TRUE)
  BY <1>2 DEF sift_up
<1> QED BY <1>2, <1>7, <1>8 DEF SameEntries, a, n

\* The last entry in the first place, and the last place gone.
LEMMA HeadReplaced ==
  ASSUME NEW q \in Queue, Len(q) > 1
  PROVE  LET n == Len(q)
             r == [SubSeq(q, 1, n - 1) EXCEPT ![1] = q[n]]
         IN  /\ r \in Queue /\ Len(r) = n - 1
             /\ \A i \in 1 .. n - 1 : r[i] = IF i = 1 THEN q[n] ELSE q[i]
             /\ \A e \in QueueEntry : Count(q, e) = Count(r, e) + (IF e = q[1] THEN 1 ELSE 0)
<1> DEFINE n == Len(q)
           short == SubSeq(q, 1, n - 1)
           r == [short EXCEPT ![1] = q[n]]
<1>1. n \in Nat /\ n > 1 /\ q[n] \in QueueEntry
  BY QueueTyped
<1>2. short \in Queue /\ Len(short) = n - 1 /\ \A i \in 1 .. n - 1 : short[i] = q[i]
  BY <1>1 DEF Queue
<1> HIDE DEF short
<1>3. /\ r \in Queue /\ Len(r) = n - 1
      /\ \A i \in 1 .. n - 1 : r[i] = IF i = 1 THEN q[n] ELSE q[i]
  BY <1>1, <1>2 DEF Queue
<1> HIDE DEF r
<1>4. ASSUME NEW e \in QueueEntry
      PROVE  Count(q, e) = Count(r, e) + (IF e = q[1] THEN 1 ELSE 0)
  <2> DEFINE M == {i \in 2 .. n - 1 : q[i] = e}
  <2>1. Placed(q, e) = M \cup (IF e = q[1] THEN {1} ELSE {}) \cup (IF e = q[n] THEN {n} ELSE {})
    BY <1>1 DEF Placed
  <2>2. Placed(r, e) = M \cup (IF e = q[n] THEN {1} ELSE {})
    BY <1>1, <1>3 DEF Placed
  <2>3. 1 \notin M /\ n \notin M /\ n # 1 /\ n \notin M \cup {1}
    BY <1>1
  <2>4. IsFiniteSet(M)
    <3>1. M \subseteq 2 .. n - 1 /\ 2 \in Int /\ n - 1 \in Int
      BY <1>1
    <3> HIDE DEF M
    <3> QED BY <3>1, FS_Interval, FS_Subset
  <2> HIDE DEF M
  <2>5. Cardinality(M) \in Nat
    BY <2>4, FS_CardinalityType
  <2>6. /\ IsFiniteSet(M \cup {1}) /\ Cardinality(M \cup {1}) = Cardinality(M) + 1
        /\ Cardinality(M \cup {n}) = Cardinality(M) + 1
    BY <2>3, <2>4, FS_AddElement
  <2>7. Cardinality(M \cup {1} \cup {n}) = Cardinality(M) + 2
    <3>1. Cardinality(M \cup {1} \cup {n}) = Cardinality(M \cup {1}) + 1
      BY <2>3, <2>6, FS_AddElement
    <3> QED BY <2>5, <2>6, <3>1
  <2>8. /\ M \cup {} \cup {} = M /\ M \cup {1} \cup {} = M \cup {1}
        /\ M \cup {} \cup {n} = M \cup {n} /\ M \cup {} = M
    OBVIOUS
  <2>9. CASE e = q[1] /\ e = q[n]
    BY <2>1, <2>2, <2>5, <2>6, <2>7, <2>9 DEF Count
  <2>10. CASE e = q[1] /\ e # q[n]
    BY <2>1, <2>2, <2>5, <2>6, <2>8, <2>10 DEF Count
  <2>11. CASE e # q[1] /\ e = q[n]
    BY <2>1, <2>2, <2>5, <2>6, <2>8, <2>11 DEF Count
  <2>12. CASE e # q[1] /\ e # q[n]
    BY <2>1, <2>2, <2>5, <2>8, <2>12 DEF Count
  <2> QED BY <2>9, <2>10, <2>11, <2>12
<1> QED BY <1>3, <1>4 DEF r, short

\* A pop: the root goes, the rest stay, and they are a heap.
LEMMA PopKeeps ==
  ASSUME NEW q \in Queue, IsHeap(q), q # <<>>
  PROVE  /\ Popped(q) \in Queue /\ IsHeap(Popped(q)) /\ Len(Popped(q)) = Len(q) - 1
         /\ \A e \in QueueEntry :
              Count(q, e) = Count(Popped(q), e) + (IF e = q[1] THEN 1 ELSE 0)
<1> DEFINE n == Len(q)
           short == SubSeq(q, 1, n - 1)
           r == [short EXCEPT ![1] = q[n]]
<1>1. n \in Nat /\ n # 0
  BY QueueTyped, EmptySeq DEF Queue
<1>2. Popped(q) = IF short = <<>> THEN short ELSE sift_down(r)
  BY DEF Popped
<1>3. short \in Queue /\ Len(short) = n - 1
  <2>1. \A i \in 1 .. n - 1 : q[i] \in QueueEntry
    BY <1>1, QueueTyped
  <2> DEFINE m == n - 1
  <2>2. m \in Int /\ 1 \in Int /\ m = n - 1
    BY <1>1
  <2> HIDE DEF m
  <2>3. \A i \in 1 .. m : q[i] \in QueueEntry
    BY <2>1, <2>2
  <2>4. SubSeq(q, 1, m) \in Seq(QueueEntry) /\ Len(SubSeq(q, 1, m)) = IF 1 <= m THEN m - 1 + 1 ELSE 0
    BY <2>2, <2>3, SubSeqProperties
  <2> QED BY <1>1, <2>2, <2>4 DEF Queue
<1> HIDE DEF r, short
<1>4. CASE n = 1
  <2>1. Popped(q) = short /\ Len(short) = 0
    BY <1>2, <1>3, <1>4, EmptySeq DEF Queue
  <2>2. IsHeap(short)
    BY <2>1 DEF IsHeap
  <2>3. ASSUME NEW e \in QueueEntry
        PROVE  Count(q, e) = Count(short, e) + (IF e = q[1] THEN 1 ELSE 0)
    <3>1. Placed(short, e) = {}
      BY <2>1 DEF Placed
    <3>2. Placed(q, e) = IF e = q[1] THEN {1} ELSE {}
      BY <1>4 DEF Placed
    <3>3. Cardinality({1}) = 1 /\ Cardinality({}) = 0
      BY FS_EmptySet, FS_Singleton
    <3> QED BY <3>1, <3>2, <3>3 DEF Count
  <2> QED BY <1>3, <1>4, <2>1, <2>2, <2>3
<1>5. CASE n # 1
  <2>1. n > 1
    BY <1>1, <1>5
  <2>2. short # <<>>
    BY <1>1, <1>3, <2>1, EmptySeq DEF Queue
  <2>3. /\ r \in Queue /\ Len(r) = n - 1
        /\ \A i \in 1 .. n - 1 : r[i] = IF i = 1 THEN q[n] ELSE q[i]
        /\ \A e \in QueueEntry : Count(q, e) = Count(r, e) + (IF e = q[1] THEN 1 ELSE 0)
    BY <2>1, HeadReplaced DEF r, short
  <2> HIDE DEF r, short
  <2>4. ASSUME NEW i \in 2 .. n - 1, i \div 2 # 1 PROVE Ordered(r, i)
    <3>1. i \in 2 .. n /\ i \div 2 \in 2 .. n - 1
      BY <1>1, <2>4, Halves
    <3>2. Ordered(q, i)
      BY <3>1 DEF IsHeap
    <3>3. r[i] = q[i] /\ r[i \div 2] = q[i \div 2]
      BY <1>1, <2>3, <3>1
    <3> QED BY <3>2, <3>3 DEF Ordered
  <2>5. Sifting(r, 1, FALSE) /\ 1 \in 1 .. Len(r)
    BY <1>1, <2>1, <2>3, <2>4 DEF Sifting
  <2>6. /\ Sifted(r, 1, FALSE) \in Queue /\ SameEntries(r, Sifted(r, 1, FALSE))
        /\ IsHeap(Sifted(r, 1, FALSE))
    BY <2>3, <2>5, SiftsToHeap
  <2>7. Popped(q) = Sifted(r, 1, FALSE)
    BY <1>2, <2>2 DEF sift_down
  <2> QED BY <2>3, <2>6, <2>7 DEF SameEntries
<1> QED BY <1>4, <1>5

\* Every queue is a heap of entries.
HeapInv ==
  /\ heap \in [CpuId -> Queue] /\ mode.degraded \in BOOLEAN
  /\ \A c \in CpuId : IsHeap(heap[c])

LEMMA HeapsInitially == RunQueueInit => HeapInv
<1> SUFFICES ASSUME RunQueueInit PROVE HeapInv
  OBVIOUS
<1>1. <<>> \in Queue /\ Len(<<>>) = 0
  BY DEF Queue
<1>2. IsHeap(<<>>)
  BY <1>1 DEF IsHeap
<1> QED BY <1>1, <1>2 DEF RunQueueInit, HeapInv

LEMMA EnqueueKeeps ==
  ASSUME HeapInv, NEW c \in CpuId, NEW p \in Runnable \cup {HYPERVISOR}, NEW u \in Urgency,
         NEW x \in Pressure, enqueue(c, p, u, x)
  PROVE  HeapInv' /\ \A d \in CpuId : ~(Len(heap'[d]) < Len(heap[d]))
<1> DEFINE effective == IF mode.degraded THEN 0 ELSE x
           e == [partition |-> p, priority |-> compute_priority(u, effective)]
           r == sift_up(Append(heap[c], e))
<1>1. heap' = [heap EXCEPT ![c] = r] /\ mode' = mode
  BY DEF enqueue
<1>2. heap[c] \in Queue /\ IsHeap(heap[c]) /\ \A d \in CpuId : Len(heap[d]) \in Nat
  BY QueueTyped DEF HeapInv
<1>3. compute_priority(u, effective) \in Nat
  <2>1. effective \in Nat /\ u \in Nat /\ U16Max \in Nat /\ FixedOne \in Nat \ {0}
    BY RunQueueSizes
  <2> HIDE DEF effective
  <2>2. effective \div FixedOne \in Nat
    BY <2>1, Quotient
  <2> QED BY <2>1, <2>2 DEF compute_priority, Lesser
<1>4. e \in QueueEntry
  BY <1>3, RunQueueSizes DEF QueueEntry, HYPERVISOR
<1> HIDE DEF e
<1>5. r \in Queue /\ IsHeap(r) /\ Len(r) = Len(heap[c]) + 1
  BY <1>2, <1>4, PushKeeps
<1> HIDE DEF r
<1>6. \A d \in CpuId : heap'[d] = IF d = c THEN r ELSE heap[d]
  BY <1>1 DEF HeapInv
<1>7. HeapInv'
  BY <1>1, <1>5, <1>6 DEF HeapInv
<1> QED BY <1>2, <1>5, <1>6, <1>7

\* What the most urgent entry's turn means of two contents of one queue.
Served(q, r) ==
  /\ \A i \in 1 .. Len(r) : r[i].priority <= q[1].priority
  /\ \A e \in {q[i] : i \in 1 .. Len(q)} :
       Cardinality({i \in 1 .. Len(q) : q[i] = e})
       = Cardinality({i \in 1 .. Len(r) : r[i] = e}) + (IF e = q[1] THEN 1 ELSE 0)

LEMMA PopServes ==
  ASSUME NEW q \in Queue, IsHeap(q), q # <<>>
  PROVE  Served(q, Popped(q))
<1> DEFINE r == Popped(q)
<1>1. /\ r \in Queue /\ IsHeap(r) /\ Len(r) = Len(q) - 1
      /\ \A e \in QueueEntry : Count(q, e) = Count(r, e) + (IF e = q[1] THEN 1 ELSE 0)
  BY PopKeeps
<1> HIDE DEF r
<1>2. \A e \in {q[i] : i \in 1 .. Len(q)} : e \in QueueEntry
  BY QueueTyped
<1>3. ASSUME NEW i \in 1 .. Len(r) PROVE r[i].priority <= q[1].priority
  <2> DEFINE e == r[i]
  <2>1. e \in QueueEntry /\ Count(q, e) = Count(r, e) + (IF e = q[1] THEN 1 ELSE 0)
    BY <1>1, QueueTyped
  <2>2. i \in Placed(r, e)
    BY DEF Placed
  <2> HIDE DEF e
  <2>3. IsFiniteSet(Placed(r, e)) /\ IsFiniteSet(Placed(q, e))
    <3>1. /\ 1 \in Int /\ Len(r) \in Int /\ Len(q) \in Int
          /\ Placed(r, e) \subseteq 1 .. Len(r) /\ Placed(q, e) \subseteq 1 .. Len(q)
      BY <1>1, QueueTyped DEF Placed
    <3> QED BY <3>1, FS_Interval, FS_Subset
  <2>4. Count(r, e) \in Nat /\ Count(r, e) # 0
    BY <2>2, <2>3, FS_CardinalityType, FS_EmptySet DEF Count
  <2>5. Placed(q, e) # {}
    <3>1. Count(q, e) # 0
      BY <2>1, <2>4
    <3> QED BY <3>1, FS_EmptySet DEF Count
  <2>6. PICK k \in 1 .. Len(q) : q[k] = e
    BY <2>5 DEF Placed
  <2> QED BY <2>6, RootIsMost DEF e
<1>4. \A e \in QueueEntry : Cardinality({i \in 1 .. Len(q) : q[i] = e})
        = Cardinality({i \in 1 .. Len(r) : r[i] = e}) + (IF e = q[1] THEN 1 ELSE 0)
  BY <1>1 DEF Count, Placed
<1> QED BY <1>2, <1>3, <1>4 DEF Served, r

LEMMA SwitchKeeps ==
  ASSUME HeapInv, NEW c \in CpuId, switch_next(c)
  PROVE  /\ HeapInv'
         /\ \A d \in CpuId : Len(heap'[d]) < Len(heap[d]) => Served(heap[d], heap'[d])
<1>1. heap' = [heap EXCEPT ![c] = Popped(heap[c])] /\ mode' = mode /\ heap[c] # <<>>
  BY DEF switch_next
<1>2. heap[c] \in Queue /\ IsHeap(heap[c])
  BY DEF HeapInv
<1>3. /\ Popped(heap[c]) \in Queue /\ IsHeap(Popped(heap[c]))
      /\ Served(heap[c], Popped(heap[c]))
  BY <1>1, <1>2, PopKeeps, PopServes
<1>4. \A d \in CpuId : heap'[d] = IF d = c THEN Popped(heap[c]) ELSE heap[d]
  BY <1>1 DEF HeapInv
<1>5. HeapInv'
  BY <1>1, <1>3, <1>4 DEF HeapInv
<1>6. ASSUME NEW d \in CpuId, Len(heap'[d]) < Len(heap[d]) PROVE d = c
  <2>1. Len(heap[d]) \in Nat
    BY QueueTyped DEF HeapInv
  <2> QED BY <1>4, <1>6, <2>1
<1> QED BY <1>3, <1>4, <1>5, <1>6

LEMMA HeapsKept ==
  ASSUME HeapInv, UNCHANGED heap, mode'.degraded \in BOOLEAN
  PROVE  HeapInv' /\ \A d \in CpuId : ~(Len(heap'[d]) < Len(heap[d]))
<1>1. \A d \in CpuId : Len(heap[d]) \in Nat
  BY QueueTyped DEF HeapInv
<1> QED BY <1>1 DEF HeapInv

LEMMA HeapsStep ==
  ASSUME HeapInv, [SchedulerNext \/ SmpNext]_runQueueVars
  PROVE  /\ HeapInv'
         /\ \A d \in CpuId : Len(heap'[d]) < Len(heap[d]) => Served(heap[d], heap'[d])
<1>1. ASSUME NEW c \in CpuId, NEW p \in Runnable \cup {HYPERVISOR}, NEW u \in Urgency,
             NEW x \in Pressure, enqueue(c, p, u, x)
      PROVE  HeapInv' /\ \A d \in CpuId : ~(Len(heap'[d]) < Len(heap[d]))
  BY <1>1, EnqueueKeeps
<1>2. ASSUME NEW c \in CpuId, switch_next(c)
      PROVE  /\ HeapInv'
             /\ \A d \in CpuId : Len(heap'[d]) < Len(heap[d]) => Served(heap[d], heap'[d])
  BY <1>2, SwitchKeeps
<1>3. CASE tick_epoch
  <2>1. UNCHANGED heap /\ mode'.degraded \in BOOLEAN
    BY <1>3 DEF tick_epoch, HeapInv
  <2> QED BY <2>1, HeapsKept
<1>4. ASSUME NEW d \in BOOLEAN, set_degraded(d)
      PROVE  HeapInv' /\ \A c \in CpuId : ~(Len(heap'[c]) < Len(heap[c]))
  <2>1. UNCHANGED heap /\ mode'.degraded \in BOOLEAN
    BY <1>4 DEF set_degraded, HeapInv
  <2> QED BY <2>1, HeapsKept
<1>5. ASSUME NEW m \in SchedulerMode, set_mode(m)
      PROVE  HeapInv' /\ \A c \in CpuId : ~(Len(heap'[c]) < Len(heap[c]))
  <2>1. UNCHANGED heap /\ mode'.degraded \in BOOLEAN
    BY <1>5 DEF set_mode, HeapInv
  <2> QED BY <2>1, HeapsKept
<1>6. CASE SmpNext
  <2>1. UNCHANGED schedulerVars
    BY <1>6 DEF SmpNext, bring_online, take_offline, assign_partition, release_partition, CpuStep
  <2>2. UNCHANGED heap /\ mode'.degraded \in BOOLEAN
    BY <2>1 DEF schedulerVars, HeapInv
  <2> QED BY <2>2, HeapsKept
<1>7. CASE UNCHANGED runQueueVars
  <2>1. UNCHANGED heap /\ mode'.degraded \in BOOLEAN
    BY <1>7 DEF runQueueVars, schedulerVars, HeapInv
  <2> QED BY <2>1, HeapsKept
<1> QED BY <1>1, <1>2, <1>3, <1>4, <1>5, <1>6, <1>7 DEF SchedulerNext

(* For any number of processors, queue lengths and priorities, whatever    *)
(* pushes and pops shaped a queue: what switch_next serves is outranked by *)
(* nothing that waits there, and it alone leaves the queue (rvm-sched:     *)
(* scheduler.rs).                                                          *)
THEOREM ServesMostUrgentHolds == RunQueuesSpec => ServesMostUrgent
<1>1. HeapInv /\ [SchedulerNext \/ SmpNext]_runQueueVars =>
        /\ HeapInv'
        /\ [\A c \in CpuId : Len(heap'[c]) < Len(heap[c]) =>
               /\ \A i \in 1 .. Len(heap'[c]) : heap'[c][i].priority <= heap[c][1].priority
               /\ \A e \in {heap[c][i] : i \in 1 .. Len(heap[c])} :
                    Cardinality({i \in 1 .. Len(heap[c]) : heap[c][i] = e})
                    = Cardinality({i \in 1 .. Len(heap'[c]) : heap'[c][i] = e})
                      + (IF e = heap[c][1] THEN 1 ELSE 0)]_runQueueVars
  BY HeapsStep DEF Served
<1> QED BY <1>1, HeapsInitially, PTL DEF RunQueuesSpec, ServesMostUrgent

-----------------------------------------------------------------------------
(* Which processor is free. *)

\* A processor runs something only while it is online, and is idle just when it does not.
FreeCpu == [online : BOOLEAN, runs : {Nobody}, idle : {TRUE}, ticks : 0 .. MaxTicks]
BusyCpu == [online : {TRUE}, runs : Int \ {Nobody}, idle : {FALSE}, ticks : 0 .. MaxTicks]
CpusInv == cpus \in [CpuId -> FreeCpu \cup BusyCpu]

LEMMA NobodyIsNone == Nobody \in Int /\ \A p \in Nat : p # Nobody
BY DEF Nobody

LEMMA CpuTyped ==
  ASSUME CpusInv, NEW c \in CpuId
  PROVE  /\ cpus[c].online \in BOOLEAN /\ cpus[c].idle \in BOOLEAN
         /\ cpus[c].ticks \in 0 .. MaxTicks
         /\ cpus[c].runs # Nobody => cpus[c] \in BusyCpu /\ cpus[c].online
         /\ cpus[c].runs = Nobody => cpus[c] \in FreeCpu /\ cpus[c].idle
         /\ cpus[c].idle => cpus[c].runs = Nobody
<1>1. CASE cpus[c] \in FreeCpu
  BY <1>1 DEF FreeCpu
<1>2. CASE cpus[c] \in BusyCpu
  BY <1>2 DEF BusyCpu
<1> QED BY <1>1, <1>2 DEF CpusInv

LEMMA CpusInitially == RunQueueInit => CpusInv
<1> SUFFICES ASSUME RunQueueInit PROVE CpusInv
  OBVIOUS
<1>1. Offline \in FreeCpu
  BY RunQueueSizes DEF Offline, FreeCpu
<1> QED BY <1>1 DEF RunQueueInit, CpusInv

\* A step of one processor.
LEMMA OneCpu ==
  ASSUME CpusInv, NEW c \in CpuId, NEW s \in FreeCpu \cup BusyCpu, CpuStep(c, s)
  PROVE  CpusInv'
BY DEF CpuStep, CpusInv

LEMMA Assigned ==
  ASSUME NEW p \in Int \ {Nobody}, NEW t \in 0 .. MaxTicks,
         NEW z \in [online : {TRUE}, runs : {Nobody}, idle : {TRUE}, ticks : 0 .. MaxTicks]
  PROVE  [z EXCEPT !.runs = p, !.idle = FALSE, !.ticks = t] \in BusyCpu
BY DEF BusyCpu

LEMMA CpusStep == CpusInv /\ [SchedulerNext \/ SmpNext]_runQueueVars => CpusInv'
<1> SUFFICES ASSUME CpusInv, [SchedulerNext \/ SmpNext]_runQueueVars PROVE CpusInv'
  OBVIOUS
<1>1. \A c \in CpuId : cpus[c] \in FreeCpu \cup BusyCpu
  BY DEF CpusInv
<1>2. ASSUME NEW c \in CpuId, bring_online(c) PROVE CpusInv'
  <2> DEFINE s == [cpus[c] EXCEPT !.online = TRUE, !.idle = TRUE, !.runs = Nobody]
  <2>1. s \in FreeCpu
    BY <1>1 DEF FreeCpu, BusyCpu
  <2>2. CpuStep(c, s)
    BY <1>2 DEF bring_online
  <2> HIDE DEF s
  <2> QED BY <2>1, <2>2, OneCpu
<1>3. ASSUME NEW c \in CpuId, take_offline(c) PROVE CpusInv'
  <2> DEFINE s == [cpus[c] EXCEPT !.online = FALSE, !.idle = TRUE]
  <2>1. cpus[c] \in FreeCpu
    BY <1>3, CpuTyped DEF take_offline
  <2>3. s \in FreeCpu
    BY <2>1 DEF FreeCpu
  <2>2. CpuStep(c, s)
    BY <1>3 DEF take_offline
  <2> HIDE DEF s
  <2> QED BY <2>2, <2>3, OneCpu
<1>4. ASSUME NEW c \in CpuId, NEW p \in Runnable \cup {HYPERVISOR}, assign_partition(c, p)
      PROVE  CpusInv'
  <2> DEFINE t == Lesser(cpus[c].ticks + 1, MaxTicks)
             s == [cpus[c] EXCEPT !.runs = p, !.idle = FALSE, !.ticks = t]
  <2>1. p \in Nat
    BY RunQueueSizes DEF HYPERVISOR
  <2>2. t \in 0 .. MaxTicks
    BY CpuTyped, RunQueueSizes DEF Lesser
  <2>4. CpuStep(c, s)
    BY <1>4 DEF assign_partition
  <2> HIDE DEF t
  <2>3. cpus[c] \in FreeCpu /\ cpus[c].online = TRUE
    BY <1>4, CpuTyped DEF assign_partition
  <2>5. s \in BusyCpu
    <3>1. cpus[c] \in [online : {TRUE}, runs : {Nobody}, idle : {TRUE}, ticks : 0 .. MaxTicks]
      BY <2>3 DEF FreeCpu
    <3>2. p \in Int \ {Nobody}
      BY <2>1, NobodyIsNone
    <3> QED BY <2>2, <3>1, <3>2, Assigned
  <2> HIDE DEF s
  <2> QED BY <2>4, <2>5, OneCpu
<1>5. ASSUME NEW c \in CpuId, release_partition(c) PROVE CpusInv'
  <2> DEFINE s == [cpus[c] EXCEPT !.runs = Nobody, !.idle = TRUE]
  <2>1. s \in FreeCpu
    BY <1>1 DEF FreeCpu, BusyCpu
  <2>2. CpuStep(c, s)
    BY <1>5 DEF release_partition
  <2> HIDE DEF s
  <2> QED BY <2>1, <2>2, OneCpu
<1>6. CASE SchedulerNext \/ UNCHANGED runQueueVars
  <2>1. cpus' = cpus
    BY <1>6 DEF SchedulerNext, enqueue, switch_next, tick_epoch, set_degraded, set_mode,
                runQueueVars
  <2> QED BY <2>1 DEF CpusInv
<1> QED BY <1>2, <1>3, <1>4, <1>5, <1>6 DEF SmpNext

\* First finds one processor if there is one.
LEMMA FirstIsOne ==
  ASSUME NEW S \in SUBSET CpuId, S # {}
  PROVE  \E c \in S : First(S) = {c}
<1>1. S \in SUBSET Nat
  BY RunQueueSizes DEF CpuId
<1>2. PICK c \in S : \A d \in S : c <= d
  BY <1>1, LeastNatural
<1>3. \A e \in S : (\A d \in S : e <= d) <=> e = c
  <2>1. ASSUME NEW e \in S, \A d \in S : e <= d PROVE e = c
    <3>1. e \in Nat /\ c \in Nat /\ e <= c /\ c <= e
      BY <1>1, <1>2, <2>1
    <3> QED BY <3>1
  <2> QED BY <1>2, <2>1
<1>4. First(S) = {c}
  BY <1>3 DEF First
<1> QED BY <1>4

\* Of busy processors, one is chosen: it has run most, and is the last of those.
LEMMA OneIsBusiest ==
  ASSUME CpusInv, Busy # {}
  PROVE  \E b \in Busy : \A c \in Busy :
           (\A d \in Busy : \/ cpus[d].ticks < cpus[c].ticks
                            \/ cpus[d].ticks = cpus[c].ticks /\ d <= c) <=> c = b
<1> DEFINE T(c) == cpus[c].ticks
           short == {MaxTicks - T(c) : c \in Busy}
<1>1. /\ Busy \subseteq CpuId /\ MaxTicks \in Nat /\ MAX_CPUS \in Nat
      /\ \A c \in Busy : c \in Nat /\ c <= MAX_CPUS - 1 /\ T(c) \in Nat /\ T(c) <= MaxTicks
  BY RunQueueSizes, CpuTyped DEF Busy, CpuId
<1> HIDE DEF T
<1>2. PICK m \in short : \A x \in short : m <= x
  <2>1. short \in SUBSET Nat /\ short # {}
    BY <1>1
  <2> HIDE DEF short
  <2> QED BY <2>1, LeastNatural
<1>3. PICK a \in Busy : m = MaxTicks - T(a)
  BY <1>2
<1>4. \A c \in Busy : T(c) <= T(a)
  BY <1>1, <1>2, <1>3
<1> DEFINE last == {MAX_CPUS - 1 - c : c \in {d \in Busy : T(d) = T(a)}}
<1>5. PICK n \in last : \A x \in last : n <= x
  <2>1. last \in SUBSET Nat /\ last # {}
    BY <1>1
  <2> HIDE DEF last
  <2> QED BY <2>1, LeastNatural
<1>6. PICK b \in Busy : T(b) = T(a) /\ n = MAX_CPUS - 1 - b
  BY <1>5
<1>7. ASSUME NEW c \in Busy, T(c) = T(a) PROVE c <= b
  <2>1. MAX_CPUS - 1 - c \in last
    BY <1>7
  <2>2. MAX_CPUS - 1 - b <= MAX_CPUS - 1 - c
    BY <1>5, <1>6, <2>1
  <2> HIDE DEF last
  <2> QED BY <1>1, <2>2
<1>8. \A d \in Busy : T(d) < T(b) \/ (T(d) = T(b) /\ d <= b)
  BY <1>1, <1>4, <1>6, <1>7
<1>9. ASSUME NEW c \in Busy, \A d \in Busy : T(d) < T(c) \/ (T(d) = T(c) /\ d <= c)
      PROVE  c = b
  <2>1. T(b) < T(c) \/ (T(b) = T(c) /\ b <= c)
    BY <1>9
  <2> QED BY <1>1, <1>8, <2>1
<1> QED BY <1>8, <1>9 DEF T

LEMMA FreeIsFound == CpusInv => IdleCpusAreFound
<1> SUFFICES ASSUME CpusInv PROVE IdleCpusAreFound
  OBVIOUS
<1>1. ASSUME NEW c \in CpuId, cpus[c].runs # Nobody
      PROVE  partition_affinity(cpus[c].runs) # {}
  <2> DEFINE S == {d \in CpuId : cpus[d].online /\ cpus[d].runs = cpus[c].runs}
  <2>1. S \in SUBSET CpuId /\ S # {}
    BY <1>1, CpuTyped
  <2> HIDE DEF S
  <2>2. First(S) # {}
    BY <2>1, FirstIsOne
  <2> QED BY <2>2 DEF partition_affinity, S
<1>2. \A c \in CpuId : cpus[c].online /\ cpus[c].runs = Nobody => cpus[c].idle
  BY CpuTyped
<1>3. ASSUME Busy # {}, NEW e \in CpuId, cpus[e].online /\ cpus[e].runs = Nobody
      PROVE  Cardinality(rebalance_hint) = 1
  <2> DEFINE S == {d \in CpuId : cpus[d].online /\ cpus[d].idle}
  <2>1. S \in SUBSET CpuId /\ S # {}
    BY <1>2, <1>3
  <2> HIDE DEF S
  <2>2. PICK f \in S : First(S) = {f}
    BY <2>1, FirstIsOne
  <2>3. find_idle_cpu = {f}
    BY <2>2 DEF find_idle_cpu, S
  <2>4. PICK b \in Busy : \A c \in Busy :
           (\A d \in Busy : \/ cpus[d].ticks < cpus[c].ticks
                            \/ cpus[d].ticks = cpus[c].ticks /\ d <= c) <=> c = b
    BY <1>3, OneIsBusiest
  <2>5. rebalance_hint = {<<b, f>>}
    <3>1. ASSUME NEW h \in Busy \X {f} PROVE h[1] \in Busy /\ h = <<h[1], f>>
      OBVIOUS
    <3>2. \A h \in Busy \X {f} : h \in rebalance_hint <=> h[1] = b
      BY <2>3, <2>4, <3>1 DEF rebalance_hint
    <3>3. rebalance_hint \subseteq Busy \X {f}
      BY <2>3 DEF rebalance_hint
    <3>4. <<b, f>> \in Busy \X {f}
      OBVIOUS
    <3> QED BY <3>1, <3>2, <3>3, <3>4
  <2> QED BY <2>5, FS_Singleton
<1>4. ASSUME NEW h \in rebalance_hint PROVE h[1] # h[2] /\ cpus[h[2]].runs = Nobody
  <2>1. h[1] \in Busy /\ h[2] \in find_idle_cpu
    BY DEF rebalance_hint
  <2>2. h[2] \in CpuId /\ cpus[h[2]].idle
    BY <2>1 DEF find_idle_cpu, First
  <2>3. cpus[h[1]].runs # Nobody /\ cpus[h[2]].runs = Nobody
    BY <2>1, <2>2, CpuTyped DEF Busy
  <2> QED BY <2>3
<1> QED BY <1>1, <1>2, <1>3, <1>4 DEF IdleCpusAreFound

(* For any number of processors and partitions: a partition that runs is   *)
(* found where it runs, a processor that is online and runs nothing can be *)
(* found, and the hint names one busy processor and one free one           *)
(* (rvm-sched: smp.rs).                                                    *)
THEOREM IdleCpusHold == RunQueuesSpec => []IdleCpusAreFound
<1>1. RunQueuesSpec => []CpusInv
  BY CpusInitially, CpusStep, PTL DEF RunQueuesSpec
<1> QED BY <1>1, FreeIsFound, PTL
=============================================================================
