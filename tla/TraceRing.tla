------------------------------ MODULE TraceRing ------------------------------
(***************************************************************************)
(* The ring buffer of the Go trace runtime (tracert/buffer.go).  An array  *)
(* of fixed size, the next write position and a count; both operations     *)
(* hold its mutex.  What was written since the last drain is kept as a     *)
(* history, and the ring must hold its newest part.                        *)
(***************************************************************************)
EXTENDS Integers, Sequences

CONSTANTS
  Size,   \* 65536 in the code
  Events, \* what is written
  Unset   \* the zero Event of a slot never written

ASSUME SizeAssumption == Size \in Nat \ {0}

VARIABLES
  buf,    \* slot -> event
  head,   \* next write position
  count,
  log     \* history: the events written since the last drain

ringVars == <<buf, head, count, log>>

Zeroed == [i \in 0 .. Size - 1 |-> Unset]

RingInit == buf = Zeroed /\ head = 0 /\ count = 0 /\ log = <<>>

(* newRingBuffer, of the next process. *)
NewRing == buf' = Zeroed /\ head' = 0 /\ count' = 0 /\ log' = <<>>

(* Mutant of Write: the count goes on when the ring is full. *)
WriteUncapped(e) ==
  /\ buf' = [buf EXCEPT ![head] = e]
  /\ head' = (head + 1) % Size
  /\ count' = count + 1
  /\ log' = Append(log, e)

Write(e) ==
  /\ buf' = [buf EXCEPT ![head] = e]
  /\ head' = (head + 1) % Size
  /\ count' = IF count < Size THEN count + 1 ELSE count
  /\ log' = Append(log, e)

(* Mutant of Slot: the oldest slot is taken to be the first one. *)
SlotFromZero(i) == i % Size

(* The slot of the i-th event of a drain, counted from 0. *)
Slot(i) == (((head - count + Size) % Size) + i) % Size

Drained == [i \in 1 .. count |-> buf[Slot(i - 1)]]

Reset ==
  /\ count' = 0 /\ head' = 0
  /\ log' = <<>>
  /\ UNCHANGED buf

RingNext == NewRing \/ Reset \/ \E e \in Events : Write(e)
RingSpec == RingInit /\ [][RingNext]_ringVars

-----------------------------------------------------------------------------
RingTypeOK ==
  /\ buf \in [0 .. Size - 1 -> Events \cup {Unset}]
  /\ head \in 0 .. Size - 1
  /\ count \in 0 .. Size
  /\ log \in Seq(Events)

(* The newest of some events, as many as the ring has room for.            *)
Newest(s) == SubSeq(s, Len(s) - (IF Len(s) < Size THEN Len(s) ELSE Size) + 1, Len(s))

(* A drain returns the newest events in the order they were written, as    *)
(* many as the ring has room for, however often it has wrapped around      *)
(* ("When full, oldest events are dropped", buffer.go).                    *)
RingHoldsNewest ==
  /\ count = IF Len(log) < Size THEN Len(log) ELSE Size
  /\ Drained = Newest(log)
=============================================================================
