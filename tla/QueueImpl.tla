----------------------------- MODULE QueueImpl -----------------------------
(***************************************************************************)
(* The value under the mutex of a kcp-rust Queue (src/queue.rs): a FIFO    *)
(* of messages, a closed flag and ONE waker slot for each side.  The       *)
(* operators are the critical sections of the source, as functions from a  *)
(* queue to the queue they leave behind.  Every module that uses a Queue   *)
(* is built from them.                                                     *)
(***************************************************************************)
EXTENDS Naturals, Sequences

CONSTANT None   \* the empty waker slot, Option::None

(* A mutated form, for checking that the properties can fail: a push at    *)
(* the wrong end.                                                          *)
PushFront(q, x) == [q EXCEPT !.items = <<x>> \o @, !.recvWaker = None]

(* Queue::new keeps max.min(1): the capacity is never more than one, and a *)
(* queue created with 0 is always full.                                    *)
Capacity(max) == IF max < 1 THEN max ELSE 1

NewQueue(max) ==
  [max |-> Capacity(max), items |-> << >>, closed |-> FALSE,
   recvWaker |-> None, sendWaker |-> None]

Filled(q) == Len(q.items) >= q.max

(* wake_recv and wake_send take the waker out of the slot; the task woken  *)
(* is the one that was in it.                                              *)
Wake(slot) == {slot} \ {None}

PushBack(q, x) == [q EXCEPT !.items = Append(@, x), !.recvWaker = None]

PopFront(q) == [q EXCEPT !.items = Tail(@), !.sendWaker = None]

RegisterRecv(q, t) == [q EXCEPT !.recvWaker = t]

RegisterSend(q, t) == [q EXCEPT !.sendWaker = t]

CloseQueue(q) ==
  [q EXCEPT !.closed = TRUE, !.recvWaker = None, !.sendWaker = None]
=============================================================================
