------------------------------- MODULE Queue -------------------------------
(***************************************************************************)
(* A Queue of src/queue.rs shared by async senders (tasks awaiting         *)
(* Queue::send), receivers (tasks awaiting Queue::recv), and synchronous   *)
(* callers of block_send (kcp's output callback, Drop of a stream).  A     *)
(* poll of a future is one action: the code runs it under the queue's      *)
(* mutex.  Most queues have one receiver, the loop that owns the ReadHalf; *)
(* accept(&self) of a listener lets several tasks await the same one.      *)
(*                                                                         *)
(* A task whose poll returned Pending is polled again once it is woken.  A *)
(* poll that nobody asked for is possible too: the executor polls the      *)
(* whole task, and another future of the same task may have been woken     *)
(* (signal::Anyone, select!).                                              *)
(***************************************************************************)
EXTENDS QueueImpl

CONSTANTS Senders,    \* tasks that send with QueueSend
          Receivers,  \* tasks that receive with QueueRead
          Loops,      \* those of them that ask again as soon as they got one
          Blocker,    \* producer name of block_send's messages
          Max,        \* the argument of Queue::new
          MaxSends    \* bound: messages accepted from one producer

Tasks == Senders \cup Receivers
Producers == Senders \cup {Blocker}
Messages == Producers \X (1 .. MaxSends)

ASSUME QueueAssumption ==
  /\ None \notin Tasks
  /\ Receivers \cap Senders = {} /\ Loops \subseteq Receivers
  /\ Blocker \notin Tasks
  /\ Max \in Nat
  /\ MaxSends \in Nat

VARIABLES q,         \* the QueueImpl under the mutex
          fut,       \* per task: no future, one that returned Pending, or an
                     \* error after which the task's loop ended
          woken,     \* tasks scheduled by a waker and not polled since
          displaced, \* history: receivers whose waker another receiver took
                     \* the slot from, until they are polled
          sent,      \* per producer: messages the queue accepted
          accepted,  \* history: accepted messages in order
          received   \* history: messages handed to the receiver

vars == <<q, fut, woken, displaced, sent, accepted, received>>

TypeOK ==
  /\ q \in [max : 0 .. 1, items : Seq(Messages), closed : BOOLEAN,
            recvWaker : Receivers \cup {None},
            sendWaker : Senders \cup {None}]
  /\ fut \in [Tasks -> {"none", "pending", "failed"}]
  /\ woken \subseteq Tasks /\ displaced \subseteq Receivers
  /\ sent \in [Producers -> 0 .. MaxSends]
  /\ accepted \in Seq(Messages)
  /\ received \in Seq(Messages)

Init ==
  /\ q = NewQueue(Max)
  /\ fut = [t \in Tasks |-> "none"]
  /\ woken = {} /\ displaced = {}
  /\ sent = [p \in Producers |-> 0]
  /\ accepted = << >>
  /\ received = << >>
-----------------------------------------------------------------------------
(* Mutated forms, for checking that the properties can fail: the waker of  *)
(* the other side is left in its slot.                                     *)
PollSendReadySilent(s) ==
  /\ fut[s] # "failed" /\ sent[s] < MaxSends
  /\ ~ q.closed /\ ~ Filled(q)
  /\ q' = [q EXCEPT !.items = Append(@, <<s, sent[s] + 1>>)]
  /\ sent' = [sent EXCEPT ![s] = @ + 1]
  /\ accepted' = Append(accepted, <<s, sent[s] + 1>>)
  /\ fut' = [fut EXCEPT ![s] = "none"]
  /\ woken' = woken \ {s}
  /\ UNCHANGED <<displaced, received>>

PollRecvReadySilent(r) ==
  /\ fut[r] # "failed"
  /\ ~ q.closed /\ q.items # << >>
  /\ q' = [q EXCEPT !.items = Tail(@)]
  /\ received' = Append(received, Head(q.items))
  /\ fut' = [fut EXCEPT ![r] = "none"]
  /\ woken' = woken \ {r}
  /\ displaced' = displaced \ {r}
  /\ UNCHANGED <<sent, accepted>>

(* Push a message of producer p: push_back, then wake_recv.                *)
Put(p) ==
  LET m == <<p, sent[p] + 1>>
  IN /\ sent[p] < MaxSends
     /\ q' = PushBack(q, m)
     /\ sent' = [sent EXCEPT ![p] = @ + 1]
     /\ accepted' = Append(accepted, m)

(* QueueImpl::poll_send, on the first poll of a QueueSend or a later one.  *)
(* A sender whose send failed sends no more; MaxSends bounds the others.   *)
MaySend(s) == fut[s] # "failed" /\ sent[s] < MaxSends

PollSendClosed(s) ==
  /\ MaySend(s)
  /\ q.closed
  /\ fut' = [fut EXCEPT ![s] = "failed"]
  /\ woken' = woken \ {s}
  /\ UNCHANGED <<q, displaced, sent, accepted, received>>

PollSendFilled(s) ==
  /\ MaySend(s)
  /\ ~ q.closed /\ Filled(q)
  /\ q' = RegisterSend(q, s)
  /\ fut' = [fut EXCEPT ![s] = "pending"]
  /\ woken' = woken \ {s}
  /\ UNCHANGED <<displaced, sent, accepted, received>>

PollSendReady(s) ==
  /\ MaySend(s)
  /\ ~ q.closed /\ ~ Filled(q)
  /\ Put(s)
  /\ fut' = [fut EXCEPT ![s] = "none"]
  /\ woken' = (woken \ {s}) \cup Wake(q.recvWaker)
  /\ UNCHANGED <<displaced, received>>

PollSend(s) == PollSendClosed(s) \/ PollSendFilled(s) \/ PollSendReady(s)

(* The owner of a pending QueueSend drops it, e.g. a caller that gives up  *)
(* on KcpConnector::open.  The waker stays in the slot.                    *)
CancelSend(s) ==
  /\ fut[s] = "pending"
  /\ fut' = [fut EXCEPT ![s] = "none"]
  /\ UNCHANGED <<q, woken, displaced, sent, accepted, received>>

(* QueueImpl::poll_read, of any receiver.                                  *)
PollRecvClosed(r) ==
  /\ fut[r] # "failed"
  /\ q.closed
  /\ fut' = [fut EXCEPT ![r] = "failed"]
  /\ woken' = woken \ {r}
  /\ displaced' = displaced \ {r}
  /\ UNCHANGED <<q, sent, accepted, received>>

PollRecvReady(r) ==
  /\ fut[r] # "failed"
  /\ ~ q.closed /\ q.items # << >>
  /\ q' = PopFront(q)
  /\ received' = Append(received, Head(q.items))
  /\ fut' = [fut EXCEPT ![r] = "none"]
  /\ woken' = (woken \ {r}) \cup Wake(q.sendWaker)
  /\ displaced' = displaced \ {r}
  /\ UNCHANGED <<sent, accepted>>

(* The one slot: whoever was in it is out.                                 *)
PollRecvEmpty(r) ==
  /\ fut[r] # "failed"
  /\ ~ q.closed /\ q.items = << >>
  /\ q' = RegisterRecv(q, r)
  /\ fut' = [fut EXCEPT ![r] = "pending"]
  /\ woken' = woken \ {r}
  /\ displaced' = (displaced \cup Wake(q.recvWaker)) \ {r}
  /\ UNCHANGED <<sent, accepted, received>>

PollRecv(r) == PollRecvClosed(r) \/ PollRecvReady(r) \/ PollRecvEmpty(r)

(* The owner of a pending QueueRead drops it: another future of the same   *)
(* task was ready first (poll_signal_or), or an application gives up on    *)
(* accept.  The waker stays in the slot.                                   *)
CancelRecv(r) ==
  /\ fut[r] = "pending"
  /\ fut' = [fut EXCEPT ![r] = "none"]
  /\ UNCHANGED <<q, woken, displaced, sent, accepted, received>>

(* Queue::block_send: never waits and ignores the capacity.                *)
BlockSend ==
  \/ /\ q.closed
     /\ q' = [q EXCEPT !.sendWaker = None]
     /\ woken' = woken \cup Wake(q.sendWaker)
     /\ UNCHANGED <<fut, displaced, sent, accepted, received>>
  \/ /\ ~ q.closed
     /\ Put(Blocker)
     /\ woken' = woken \cup Wake(q.recvWaker)
     /\ UNCHANGED <<fut, displaced, received>>

(* Queue::close, by any owner of a half, at any time and more than once.   *)
Close ==
  /\ q' = CloseQueue(q)
  /\ woken' = woken \cup Wake(q.recvWaker) \cup Wake(q.sendWaker)
  /\ UNCHANGED <<fut, displaced, sent, accepted, received>>

Next ==
  \/ \E s \in Senders : PollSend(s) \/ CancelSend(s)
  \/ \E r \in Receivers : PollRecv(r) \/ CancelRecv(r)
  \/ BlockSend
  \/ Close

Spec == Init /\ [][Next]_vars
-----------------------------------------------------------------------------
(* The executor polls a woken task; the loop of a processor awaits the     *)
(* next message as soon as it has handled one.  Nothing obliges anyone to  *)
(* start a send, to accept, to cancel anything, or to close.               *)
Fairness ==
  /\ \A s \in Senders : WF_vars(s \in woken /\ PollSend(s))
  /\ \A r \in Receivers : WF_vars(fut[r] = "pending" /\ r \in woken /\ PollRecv(r))
  /\ \A r \in Loops : WF_vars(fut[r] = "none" /\ PollRecv(r))

FairSpec == Spec /\ Fairness
-----------------------------------------------------------------------------
(* A receiver whose recv() returned Pending and that no waker has          *)
(* scheduled since still has its waker in the slot, and there is nothing   *)
(* for it to do: no message, no close.  Whatever send, block_send or close *)
(* comes next will find the waker.  Only another receiver that waits too   *)
(* takes the slot from it.                                                 *)
ReceiverNotForgotten ==
  \A r \in Receivers :
    fut[r] = "pending" /\ r \notin woken /\ r \notin displaced =>
      q.recvWaker = r /\ q.items = << >> /\ ~ q.closed

(* The sender whose waker is in the slot waits for a reason: the queue is  *)
(* full and open.  (A sender whose waker was overwritten has no such       *)
(* guarantee: see SendReturns.)                                            *)
RegisteredSenderWaits ==
  \A s \in Senders :
    q.sendWaker = s /\ fut[s] = "pending" /\ s \notin woken =>
      Filled(q) /\ ~ q.closed

(* Every loop has lost the slot to a receiver that need not ask again.     *)
Deserted == Loops \subseteq displaced

(* Every message accepted is delivered, or the queue is closed over it; or *)
(* it is deserted for good.                                                *)
AcceptedIsDelivered ==
  \A n \in 1 .. MaxSends :
    Len(accepted) >= n ~> Len(received) >= n \/ q.closed \/ []Deserted

(* A send that found the queue full returns once a receiver has made room, *)
(* unless another waiting sender has overwritten its waker: there is one   *)
(* slot for all of them.                                                   *)
Overwritten(s) == fut[s] = "pending" /\ s \notin woken /\ q.sendWaker # s

RegisteredSendReturns ==
  \A s \in Senders :
    fut[s] = "pending" ~> fut[s] # "pending" \/ Overwritten(s) \/ []Deserted

(* A send that waits returns.                                              *)
SendReturns == \A s \in Senders : fut[s] = "pending" ~> fut[s] # "pending"

(* The queue is a Channel: exactly-once, in order, nothing after the close.*)
Abstract ==
  INSTANCE Channel WITH delivered <- received, open <- ~ q.closed

ImplementsChannel == Abstract!Spec
=============================================================================
