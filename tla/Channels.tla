------------------------------ MODULE Channels ------------------------------
(***************************************************************************)
(* What the IPC manager promises: a bounded number of one-way channels,    *)
(* each a bounded first-in first-out queue that only its source partition  *)
(* may feed, named by edge ids that are never used twice.                  *)
(***************************************************************************)
EXTENDS Integers, Sequences, FiniteSets

CONSTANTS
  Partition,        \* partitions
  MAX_EDGES,        \* channels at a time
  QUEUE_SIZE,       \* messages in a channel
  MaxEdgeId,        \* bound: edge ids assigned
  MaxSent           \* bound: messages sent

VARIABLES
  channels,         \* edge id -> channel, for the channels that exist
  next_edge_id,
  sent,             \* messages accepted so far; a message is its edge and its number
  received          \* the last receive: <<edge>> or <<edge, message>>

cvars == <<channels, next_edge_id, sent, received>>

CInit ==
  /\ channels = <<>>
  /\ next_edge_id = 1
  /\ sent = 0
  /\ received = <<>>

With(f, e, v) == [x \in DOMAIN f \cup {e} |-> IF x = e THEN v ELSE f[x]]

CCreate(from, to) ==
  /\ Cardinality(DOMAIN channels) < MAX_EDGES
  /\ next_edge_id <= MaxEdgeId
  /\ channels' = With(channels, next_edge_id,
                      [source |-> from, dest |-> to, queue |-> <<>>, weight |-> 0])
  /\ next_edge_id' = next_edge_id + 1
  /\ UNCHANGED <<sent, received>>

\* A message goes to the end of the queue, and only the source may send it,
\* unless the kernel itself vouches for the sender.
CSend(e, caller, trusted) ==
  /\ e \in DOMAIN channels
  /\ trusted \/ channels[e].source = caller
  /\ Len(channels[e].queue) < QUEUE_SIZE
  /\ sent < MaxSent
  /\ sent' = sent + 1
  /\ channels' = [channels EXCEPT ![e].queue = Append(@, <<e, sent + 1>>),
                                  ![e].weight = @ + 1]
  /\ UNCHANGED <<next_edge_id, received>>

CReceive(e) ==
  /\ e \in DOMAIN channels
  /\ IF channels[e].queue = <<>>
     THEN received' = <<e>> /\ UNCHANGED channels
     ELSE /\ received' = <<e, Head(channels[e].queue)>>
          /\ channels' = [channels EXCEPT ![e].queue = Tail(@)]
  /\ UNCHANGED <<next_edge_id, sent>>

CDestroy(e) ==
  /\ e \in DOMAIN channels
  /\ channels' = [x \in DOMAIN channels \ {e} |-> channels[x]]
  /\ UNCHANGED <<next_edge_id, sent, received>>

CNext ==
  \/ \E from, to \in Partition : CCreate(from, to)
  \/ \E e \in 1 .. MaxEdgeId :
       \/ \E caller \in Partition, trusted \in BOOLEAN : CSend(e, caller, trusted)
       \/ CReceive(e)
       \/ CDestroy(e)

CSpec == CInit /\ [][CNext]_cvars
=============================================================================
