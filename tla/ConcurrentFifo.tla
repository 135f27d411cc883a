--------------------------- MODULE ConcurrentFifo ---------------------------
(***************************************************************************)
(* What a hatn::common::Queue promises to many producers and one consumer:  *)
(* items leave in the order in which their pushes took effect, each once.   *)
(* A push takes effect at one instant and returns later.  The consumer may  *)
(* be told "empty" while an item is there only if the push of the oldest    *)
(* item has not returned yet.                                               *)
(***************************************************************************)
EXTENDS Sequences

CONSTANTS Items, Null, Empty

VARIABLES
    fifo,     \* items whose push took effect, oldest first
    pending,  \* those of them whose push has not returned
    out       \* the consumer's last answer: an item, Empty, or Null

Init == fifo = <<>> /\ pending = {} /\ out = Null

Enqueue(i) ==
    /\ i \notin pending /\ i # out /\ \A k \in DOMAIN fifo : fifo[k] # i
    /\ fifo' = Append(fifo, i)
    /\ pending' = pending \cup {i}
    /\ UNCHANGED out

\* The item may already have been taken and given back.
EnqueueReturns(i) ==
    /\ i \in pending
    /\ pending' = pending \ {i}
    /\ UNCHANGED <<fifo, out>>

Dequeue ==
    /\ out = Null /\ fifo # <<>> /\ Head(fifo) \notin pending
    /\ out' = Head(fifo)
    /\ fifo' = Tail(fifo)
    /\ UNCHANGED pending

DequeueEmpty ==
    /\ out = Null
    /\ fifo = <<>> \/ Head(fifo) \in pending
    /\ out' = Empty
    /\ UNCHANGED <<fifo, pending>>

\* The consumer has used the answer and freed the item.
Release ==
    /\ out # Null
    /\ out' = Null
    /\ UNCHANGED <<fifo, pending>>

Next ==
    \/ \E i \in Items : Enqueue(i) \/ EnqueueReturns(i)
    \/ Dequeue \/ DequeueEmpty \/ Release

Spec == Init /\ [][Next]_<<fifo, pending, out>>
=============================================================================
