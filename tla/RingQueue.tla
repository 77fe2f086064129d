------------------------------ MODULE RingQueue ------------------------------
(***************************************************************************)
(* Queue of utils.hpp: the tasks of a worker thread and the copy tasks of  *)
(* a layer, in a ring that doubles when it is full.                        *)
(***************************************************************************)
EXTENDS Integers, Sequences

CONSTANTS
  Elem,
  InitialSize,  \* 10 in the code
  MaxSize,      \* bound: the size the ring may grow to
  NoElem        \* what a place of the ring holds before it is written

ASSUME RingAssumption ==
  /\ InitialSize \in Nat \ {0, 1} /\ MaxSize \in Nat /\ InitialSize <= MaxSize
  /\ NoElem \notin Elem

VARIABLES
  queue_buffer,  \* 0 .. size - 1 -> Elem
  start, stop

queueVars == <<queue_buffer, start, stop>>

RingSize == CHOOSE n \in 1 .. MaxSize : DOMAIN queue_buffer = 0 .. (n - 1)

InitQueue ==
  /\ queue_buffer = [i \in 0 .. (InitialSize - 1) |-> NoElem]
  /\ start = 0 /\ stop = 0

NextPlace(a, size) == (a + 1) % size
IsEmpty == start = stop
IsFull == NextPlace(stop, RingSize) = start

(* Mutation of Extended: what has wrapped around stays where it is. *)
ExtendedOnly ==
  [buffer |-> [i \in 0 .. (2 * RingSize - 1) |-> IF i < RingSize THEN queue_buffer[i] ELSE NoElem],
   stop |-> IF start < stop THEN stop ELSE RingSize + stop]

(* extend: twice the size, and what has wrapped around goes behind the rest. *)
Extended ==
  [buffer |-> [i \in 0 .. (2 * RingSize - 1) |->
                 IF i < RingSize THEN queue_buffer[i]
                 ELSE IF stop <= start /\ i - RingSize < stop THEN queue_buffer[i - RingSize]
                 ELSE NoElem],
   stop |-> IF start < stop THEN stop ELSE RingSize + stop]

Push(x) ==
  LET ring == IF IsFull THEN Extended ELSE [buffer |-> queue_buffer, stop |-> stop]
      size == IF IsFull THEN 2 * RingSize ELSE RingSize
  IN /\ size <= MaxSize
     /\ queue_buffer' = [ring.buffer EXCEPT ![ring.stop] = x]
     /\ stop' = NextPlace(ring.stop, size)
     /\ UNCHANGED start

Pop ==
  /\ ~IsEmpty
  /\ start' = NextPlace(start, RingSize)
  /\ UNCHANGED <<queue_buffer, stop>>

Clear ==
  /\ start' = stop
  /\ UNCHANGED <<queue_buffer, stop>>

NextQueue == (\E x \in Elem : Push(x)) \/ Pop \/ Clear
-----------------------------------------------------------------------------
(* What is in the queue, the front first. *)
Contents ==
  [k \in 1 .. ((stop - start) % RingSize) |-> queue_buffer[(start + k - 1) % RingSize]]

(* The ring is a queue: push adds behind, pop takes the front, and doubling the ring keeps     *)
(* what is in it and its order, wherever the ring was cut (Queue::extend).                     *)
QueueIsFifo ==
  [][\/ \E x \in Elem : Contents' = Append(Contents, x)
     \/ Contents # << >> /\ Contents' = Tail(Contents)
     \/ Contents' = << >> /\ start' = stop]_queueVars
=============================================================================
