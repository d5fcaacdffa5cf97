---------------------------- MODULE BoundedFifo ----------------------------
(***************************************************************************)
(* What a single-producer single-consumer queue of the library promises to *)
(* its two users.  The producer appends batches of elements as long as the *)
(* bound is kept.  The consumer looks at any element that is in the queue  *)
(* and removes elements from the front.  Nothing else happens: an element  *)
(* in the queue is never changed, lost, duplicated or reordered, and what  *)
(* the consumer reads is an element that was appended.                     *)
(***************************************************************************)
EXTENDS Naturals, Sequences

CONSTANTS MaxSize,   \* the most elements the queue holds
          Values,    \* the elements
          NoValue    \* what the consumer holds before its first read

VARIABLES queue,     \* the elements, the oldest first
          out        \* the element the consumer read last

fifoVars == <<queue, out>>

FifoInit ==
    /\ queue = << >>
    /\ out = NoValue

(* The producer publishes a batch of k elements. *)
Push ==
    /\ \E k \in 1 .. (MaxSize - Len(queue)) :
          \E batch \in [1 .. k -> Values] : queue' = queue \o batch
    /\ UNCHANGED out

(* The consumer looks at one element and leaves it in the queue. *)
Read ==
    /\ \E i \in 1 .. Len(queue) : out' = queue[i]
    /\ UNCHANGED queue

(* The consumer removes the k oldest elements. *)
Drop ==
    /\ \E k \in 1 .. Len(queue) :
          queue' = SubSeq(queue, k + 1, Len(queue))
    /\ UNCHANGED out

FifoNext == Push \/ Read \/ Drop

FifoSpec == FifoInit /\ [][FifoNext]_fifoVars
=============================================================================
