----------------------------- MODULE IpcManager -----------------------------
(***************************************************************************)
(* The IPC manager of rvm-partition (ipc.rs): MAX_EDGES slots, each empty  *)
(* or a channel with a ring-buffer MessageQueue, and a hash index from     *)
(* edge id modulo MAX_EDGES to a slot.  A later channel takes over the     *)
(* index entry of an earlier one with the same residue, and destroying a   *)
(* channel clears the entry only if it still points to that channel's      *)
(* slot; lookup then falls back to a scan of all slots.                    *)
(*                                                                         *)
(* An optional value is a sequence with at most one element.  A message is *)
(* the number of the send that produced it and the edge it was sent on.    *)
(***************************************************************************)
EXTENDS Integers, Sequences, FiniteSets

CONSTANTS
  Partition,        \* partitions
  MAX_EDGES,        \* channel slots
  QUEUE_SIZE,       \* capacity of a MessageQueue, a power of two
  MaxEdgeId,        \* bound: edge ids assigned
  MaxSent           \* bound: messages sent

ASSUME SizeAssumption ==
  /\ MAX_EDGES \in Nat \ {0} /\ QUEUE_SIZE \in {1, 2, 4, 8, 16}
  /\ MaxEdgeId \in Nat /\ MaxSent \in Nat

VARIABLES
  queues,           \* slot -> optional ChannelMeta
  edge_index,       \* residue of an edge id -> optional slot
  edge_count,
  next_edge_id,
  sent,             \* history: messages accepted so far
  received          \* the edge of the last receive and what it returned

vars == <<queues, edge_index, edge_count, next_edge_id, sent, received>>

Slot == 0 .. MAX_EDGES - 1
EdgeId == 1 .. MaxEdgeId

Init ==
  /\ queues = [i \in Slot |-> <<>>]
  /\ edge_index = [h \in Slot |-> <<>>]
  /\ edge_count = 0
  /\ next_edge_id = 1
  /\ sent = 0
  /\ received = <<>>

-----------------------------------------------------------------------------
(* MessageQueue.  The code masks with CAPACITY - 1, a power of two less    *)
(* one: the remainder modulo CAPACITY.                                     *)

NewQueue ==
  [buffer |-> [p \in 0 .. QUEUE_SIZE - 1 |-> <<>>], head |-> 0, tail |-> 0, count |-> 0]

QueueFull(q) == q.count >= QUEUE_SIZE

QueueSend(q, m) ==
  [q EXCEPT !.buffer[q.tail] = <<m>>, !.tail = (@ + 1) % QUEUE_SIZE, !.count = @ + 1]

QueueReceive(q) ==
  [q EXCEPT !.buffer[q.head] = <<>>, !.head = (@ + 1) % QUEUE_SIZE, !.count = @ - 1]

-----------------------------------------------------------------------------
(* Lookup. *)

HashSlot(e) == e % MAX_EDGES

Holds(i, e) == queues[i] # <<>> /\ queues[i][1].edge_id = e

\* find: the indexed slot if it holds the channel, else the first that does.
BugFind(e) ==
  LET indexed == edge_index[HashSlot(e)]
      hits == {i \in Slot : Holds(i, e)}
  IN IF indexed # <<>> /\ queues[indexed[1]] # <<>> THEN indexed
     ELSE IF hits = {} THEN <<>>
     ELSE <<CHOOSE i \in hits : \A j \in hits : i <= j>>

Find(e) ==
  LET indexed == edge_index[HashSlot(e)]
      hits == {i \in Slot : Holds(i, e)}
  IN IF indexed # <<>> /\ Holds(indexed[1], e) THEN indexed
     ELSE IF hits = {} THEN <<>>
     ELSE <<CHOOSE i \in hits : \A j \in hits : i <= j>>

FirstFree ==
  CHOOSE i \in Slot : queues[i] = <<>> /\ \A j \in Slot : queues[j] = <<>> => i <= j

-----------------------------------------------------------------------------
(* Operations. *)

\* A count below the limit leaves a slot free (Consistent), so the scan finds one.
CreateChannel(from, to) ==
  /\ edge_count < MAX_EDGES
  /\ next_edge_id <= MaxEdgeId
  /\ queues' = [queues EXCEPT ![FirstFree] =
                  <<[edge_id |-> next_edge_id, source |-> from, dest |-> to,
                     queue |-> NewQueue, weight |-> 0]>>]
  /\ edge_count' = edge_count + 1
  /\ edge_index' = [edge_index EXCEPT ![HashSlot(next_edge_id)] = <<FirstFree>>]
  /\ next_edge_id' = next_edge_id + 1
  /\ UNCHANGED <<sent, received>>

\* The message of a call that names edge e goes to the queue in slot i.
Deliver(e, i) ==
  /\ ~QueueFull(queues[i][1].queue)
  /\ sent < MaxSent
  /\ sent' = sent + 1
  /\ LET ch == queues[i][1] IN
     queues' = [queues EXCEPT ![i] = <<[ch EXCEPT !.queue = QueueSend(ch.queue, <<e, sent + 1>>),
                                                  !.weight = ch.weight + 1]>>]
  /\ UNCHANGED <<edge_index, edge_count, next_edge_id, received>>

\* send: the declared sender must be the caller, and the caller the source.
Send(e, sender, caller) ==
  /\ sender = caller
  /\ Find(e) # <<>>
  /\ queues[Find(e)[1]][1].source = caller
  /\ Deliver(e, Find(e)[1])

SendUnchecked(e) == Find(e) # <<>> /\ Deliver(e, Find(e)[1])

Receive(e) ==
  /\ Find(e) # <<>>
  /\ LET i == Find(e)[1]
         ch == queues[i][1]
         q == ch.queue
     IN IF q.count = 0
        THEN received' = <<e>> /\ UNCHANGED queues
        ELSE /\ received' = <<e>> \o q.buffer[q.head]
             /\ queues' = [queues EXCEPT ![i] = <<[ch EXCEPT !.queue = QueueReceive(q)]>>]
  /\ UNCHANGED <<edge_index, edge_count, next_edge_id, sent>>

DestroyChannel(e) ==
  \E i \in Slot :
    /\ Holds(i, e)
    /\ queues' = [queues EXCEPT ![i] = <<>>]
    /\ edge_count' = edge_count - 1
    /\ edge_index' = IF edge_index[HashSlot(e)] = <<i>>
                     THEN [edge_index EXCEPT ![HashSlot(e)] = <<>>]
                     ELSE edge_index
    /\ UNCHANGED <<next_edge_id, sent, received>>

Next ==
  \/ \E from, to \in Partition : CreateChannel(from, to)
  \/ \E e \in EdgeId :
       \/ \E sender, caller \in Partition : Send(e, sender, caller)
       \/ SendUnchecked(e)
       \/ Receive(e)
       \/ DestroyChannel(e)

Spec == Init /\ [][Next]_vars

-----------------------------------------------------------------------------
(* Properties. *)

Live == {queues[i][1].edge_id : i \in {j \in Slot : queues[j] # <<>>}}

SlotOf(e) == CHOOSE i \in Slot : Holds(i, e)

\* The messages of a queue, oldest first.
Contents(q) == [k \in 1 .. q.count |-> q.buffer[(q.head + k - 1) % QUEUE_SIZE][1]]

AbstractChannel(ch) ==
  [source |-> ch.source, dest |-> ch.dest, queue |-> Contents(ch.queue), weight |-> ch.weight]

AbstractChannels == [e \in Live |-> AbstractChannel(queues[SlotOf(e)][1])]

Abstract == INSTANCE Channels WITH channels <- AbstractChannels

(* The manager implements Channels: with any history of creating,          *)
(* destroying and colliding edge ids, a lookup reaches the channel asked   *)
(* for and no other, messages arrive once and in the order they were sent  *)
(* in, and no full slot table or queue takes another.                      *)
Refinement == Abstract!CSpec

(* The counter that limits the number of channels never drifts from the   *)
(* slots in use and no edge id is in two slots (else the table refuses     *)
(* channels it has room for, or claims room it does not have); head, tail  *)
(* and count of every MessageQueue agree, and exactly the positions        *)
(* between head and tail hold a message.                                   *)
Consistent ==
  /\ edge_count = Cardinality({i \in Slot : queues[i] # <<>>})
  /\ \A i, j \in Slot : queues[i] # <<>> /\ queues[j] # <<>> /\ i # j =>
       queues[i][1].edge_id # queues[j][1].edge_id
  /\ \A i \in Slot : queues[i] # <<>> =>
       LET q == queues[i][1].queue IN
         /\ q.count <= QUEUE_SIZE
         /\ q.tail = (q.head + q.count) % QUEUE_SIZE
         /\ \A p \in 0 .. QUEUE_SIZE - 1 :
              (q.buffer[p] # <<>>) <=> ((p - q.head) % QUEUE_SIZE < q.count)
=============================================================================
