---------------------------- MODULE IdentityWorker ----------------------------
(***************************************************************************)
(* The running identity hash of a streamed body (rvm-rvf: stream/ident.rs) *)
(* and its hashing thread: chunks are sent through a bounded channel, the  *)
(* digest is asked of the thread by a message on the same channel, and the *)
(* thread may end early.  A hash state is the sequence of chunks hashed.   *)
(***************************************************************************)
EXTENDS Integers, Sequences

CONSTANTS QUEUE, MaxFed     \* channel capacity; chunks of the body

ASSUME IdentityAssumption == QUEUE \in Nat \ {0} /\ MaxFed \in Nat

VARIABLES
  fed,              \* chunks given to update, in order: 1..fed
  hasher,           \* the tracker's own hash state
  feasible,
  worker,           \* the tracker's handle: "running", "ended", or "none"
  channel,          \* messages in the channel: chunks, or Snapshot
  thread,           \* the thread's hash state
  asked,            \* why a snapshot is awaited: "no", "digest", "release", "clone"
  outcome           \* the last digest handed out

identityVars == <<fed, hasher, feasible, worker, channel, thread, asked, outcome>>

Snapshot == 0               \* chunks are numbered from 1
NoDigest == [known |-> FALSE]
Digest(h) == [known |-> TRUE, of |-> h, at |-> fed]

\* IdentityTracker::new: with a thread when the body is long and in order.
IdentityInit ==
  /\ fed = 0 /\ hasher = <<>> /\ feasible = TRUE /\ channel = <<>> /\ thread = <<>>
  /\ worker \in {"running", "none"} /\ asked = "no" /\ outcome = NoDigest

-----------------------------------------------------------------------------
(* The tracker.  send blocks while the channel is full and fails when the  *)
(* thread has gone.                                                        *)

CanSend == worker = "running" /\ Len(channel) < QUEUE

mark_infeasible == feasible' = FALSE /\ worker' = "none"

update ==
  /\ asked = "no" /\ fed < MaxFed /\ fed' = fed + 1
  /\ \/ /\ worker = "none" /\ hasher' = Append(hasher, fed')
        /\ UNCHANGED <<feasible, worker, channel>>
     \/ /\ CanSend /\ channel' = Append(channel, fed')
        /\ UNCHANGED <<hasher, feasible, worker>>
     \/ /\ worker = "ended" /\ mark_infeasible /\ channel' = <<>>
        /\ UNCHANGED hasher
  /\ UNCHANGED <<thread, asked, outcome>>

\* snapshot: a Snapshot message, then the reply is awaited.
AskThread(why) ==
  /\ asked = "no" /\ CanSend
  /\ channel' = Append(channel, Snapshot) /\ asked' = why
  /\ UNCHANGED <<fed, hasher, feasible, worker, thread, outcome>>

\* The outcome of a snapshot s: digest, release_worker or Clone::clone.
WorkerAnswered(why, s) ==
  CASE why = "digest" -> /\ outcome' = IF feasible THEN s ELSE NoDigest
                         /\ UNCHANGED <<hasher, feasible, worker>>
    [] why \in {"release", "clone"} ->
         /\ worker' = "none"
         /\ hasher' = IF s.known THEN s.of ELSE IF why = "clone" THEN <<>> ELSE hasher
         /\ feasible' = (feasible /\ s.known)
         /\ UNCHANGED outcome

\* The thread has ended: the send fails, or the reply never comes.
Gone(why) ==
  /\ worker = "ended"
  /\ asked = why \/ asked = "no"
  /\ asked' = "no" /\ channel' = <<>>
  /\ WorkerAnswered(why, NoDigest)
  /\ UNCHANGED <<fed, thread>>

\* digest without a thread.
digest ==
  /\ worker = "none" /\ asked = "no"
  /\ outcome' = IF feasible THEN Digest(hasher) ELSE NoDigest
  /\ UNCHANGED <<fed, hasher, feasible, worker, channel, thread, asked>>

-----------------------------------------------------------------------------
(* The thread. *)

HashOrReply ==
  /\ worker = "running" /\ channel # <<>> /\ channel' = Tail(channel)
  /\ \/ /\ Head(channel) # Snapshot
        /\ thread' = Append(thread, Head(channel))
        /\ UNCHANGED <<hasher, feasible, worker, asked, outcome>>
     \/ /\ Head(channel) = Snapshot
        /\ asked' = "no" /\ WorkerAnswered(asked, Digest(thread))
        /\ UNCHANGED thread
  /\ UNCHANGED fed

End ==
  /\ worker = "running" /\ worker' = "ended"
  /\ UNCHANGED <<fed, hasher, feasible, channel, thread, asked, outcome>>

IdentityNext ==
  \/ update \/ digest \/ HashOrReply \/ End
  \/ \E why \in {"digest", "release", "clone"} : AskThread(why) \/ Gone(why)

\* The thread is scheduled and the caller waits for its reply: nothing in the code
\* can keep either from running.
IdentityFairness == WF_identityVars(HashOrReply) /\ WF_identityVars(\E why \in {"digest", "release", "clone"} : asked = why /\ Gone(why))

-----------------------------------------------------------------------------

\* The chunks in the channel: a snapshot that is awaited is the last message.
Pending == IF asked = "no" THEN channel ELSE SubSeq(channel, 1, Len(channel) - 1)

\* An identity is right or not known: a digest handed out is that of the
\* body up to the last chunk fed when it was asked for; and while the tracker
\* says feasible, no chunk is lost between it, the channel and the thread, nor
\* is one sent behind a snapshot that is awaited
\* (ident.rs: update, release_worker, digest; the report's identity check relies on it).
IdentityNeverWrong ==
  LET whole(n) == [i \in 1..n |-> i]
  IN  /\ outcome.known => outcome.of = whole(outcome.at)
      /\ feasible /\ worker = "none" => hasher = whole(fed)
      /\ feasible /\ worker = "running" => thread \o Pending = whole(fed)

\* A caller that waits for a snapshot gets an answer: the thread replies, or its end
\* closes the reply channel.
SnapshotAnswered == (asked # "no") ~> (asked = "no")
=============================================================================
