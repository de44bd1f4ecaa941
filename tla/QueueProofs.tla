---------------------------- MODULE QueueProofs ----------------------------
(***************************************************************************)
(* Theorems about Queue, for any senders and receivers, any capacity and   *)
(* any bound on the sends.  One inductive invariant carries them all: the  *)
(* types, the two waker invariants, and the fact that what was received    *)
(* followed by what is still queued is what was accepted.                  *)
(***************************************************************************)
EXTENDS Queue, SequenceTheorems, TLAPS

(* The queue holds exactly the accepted messages not yet delivered.        *)
NothingLost == received \o q.items = accepted

IInv ==
  /\ TypeOK
  /\ ReceiverNotForgotten
  /\ RegisteredSenderWaits
  /\ NothingLost

(* A queue given by its fields, and what an update of one field leaves.    *)
QueueOf(mx, it, cl, rw, sw) ==
  [max |-> mx, items |-> it, closed |-> cl, recvWaker |-> rw, sendWaker |-> sw]

LEMMA QueueFields ==
  ASSUME NEW A, NEW B, NEW C, NEW D, NEW E,
         NEW r \in [max : A, items : B, closed : C, recvWaker : D, sendWaker : E]
  PROVE  r = QueueOf(r.max, r.items, r.closed, r.recvWaker, r.sendWaker)
  BY DEF QueueOf

(* The queue after each critical section.                                  *)
LEMMA QueueOps ==
  ASSUME TypeOK, NEW m, NEW t
  PROVE  /\ PushBack(q, m) = QueueOf(q.max, Append(q.items, m), q.closed,
                                     None, q.sendWaker)
         /\ PopFront(q) = QueueOf(q.max, Tail(q.items), q.closed,
                                  q.recvWaker, None)
         /\ RegisterRecv(q, t) = QueueOf(q.max, q.items, q.closed,
                                         t, q.sendWaker)
         /\ RegisterSend(q, t) = QueueOf(q.max, q.items, q.closed,
                                         q.recvWaker, t)
         /\ CloseQueue(q) = QueueOf(q.max, q.items, TRUE, None, None)
  <1> DEFINE B == {q.items, Append(q.items, m), Tail(q.items)}
             D == {q.recvWaker, q.sendWaker, None, t}
             R == [max : {q.max}, items : B, closed : BOOLEAN,
                   recvWaker : D, sendWaker : D]
  <1>0. q \in R
    BY DEF TypeOK
  <1>1. ASSUME NEW r \in R
        PROVE  r = QueueOf(q.max, r.items, r.closed, r.recvWaker, r.sendWaker)
    BY QueueFields
  <1>2. LET r == PushBack(q, m)
        IN  /\ r \in R /\ r.items = Append(q.items, m) /\ r.closed = q.closed
            /\ r.recvWaker = None /\ r.sendWaker = q.sendWaker
    BY <1>0 DEF PushBack
  <1>3. LET r == PopFront(q)
        IN  /\ r \in R /\ r.items = Tail(q.items) /\ r.closed = q.closed
            /\ r.recvWaker = q.recvWaker /\ r.sendWaker = None
    BY <1>0 DEF PopFront
  <1>4. LET r == RegisterRecv(q, t)
        IN  /\ r \in R /\ r.items = q.items /\ r.closed = q.closed
            /\ r.recvWaker = t /\ r.sendWaker = q.sendWaker
    BY <1>0 DEF RegisterRecv
  <1>5. LET r == RegisterSend(q, t)
        IN  /\ r \in R /\ r.items = q.items /\ r.closed = q.closed
            /\ r.recvWaker = q.recvWaker /\ r.sendWaker = t
    BY <1>0 DEF RegisterSend
  <1>6. LET r == CloseQueue(q)
        IN  /\ r \in R /\ r.items = q.items /\ r.closed = TRUE
            /\ r.recvWaker = None /\ r.sendWaker = None
    BY <1>0 DEF CloseQueue
  <1> HIDE DEF R
  <1>7. PushBack(q, m) = QueueOf(q.max, Append(q.items, m), q.closed,
                                 None, q.sendWaker)
    BY <1>1, <1>2
  <1>8. PopFront(q) = QueueOf(q.max, Tail(q.items), q.closed,
                              q.recvWaker, None)
    BY <1>1, <1>3
  <1>9. RegisterRecv(q, t) = QueueOf(q.max, q.items, q.closed, t, q.sendWaker)
    BY <1>1, <1>4
  <1>10. RegisterSend(q, t) = QueueOf(q.max, q.items, q.closed, q.recvWaker, t)
    BY <1>1, <1>5
  <1>11. CloseQueue(q) = QueueOf(q.max, q.items, TRUE, None, None)
    BY <1>1, <1>6
  <1> QED
    BY <1>7, <1>8, <1>9, <1>10, <1>11

(* Moving the head of one sequence to the end of another one keeps their   *)
(* concatenation.                                                          *)
LEMMA MoveHead ==
  ASSUME NEW S, NEW s \in Seq(S), NEW t \in Seq(S), t # << >>
  PROVE  Append(s, Head(t)) \o Tail(t) = s \o t
  <1>1. Head(t) \in S /\ Tail(t) \in Seq(S)
    BY HeadTailProperties
  <1>2. <<Head(t)>> \in Seq(S)
    BY <1>1
  <1>3. t = <<Head(t)>> \o Tail(t)
    OBVIOUS
  <1>4. Append(s, Head(t)) = s \o <<Head(t)>>
    BY <1>1, AppendIsConcat
  <1>5. ASSUME NEW h \in Seq(S), NEW u \in Seq(S)
        PROVE  (s \o h) \o u = s \o (h \o u)
    BY ConcatAssociative
  <1> QED
    BY <1>1, <1>2, <1>3, <1>4, <1>5

LEMMA Initially == Init => IInv
  <1> SUFFICES ASSUME Init PROVE IInv
    OBVIOUS
  <1> USE QueueAssumption DEF Init
  <1>1. Capacity(Max) \in 0 .. 1
    BY DEF Capacity
  <1>2. TypeOK
    BY <1>1 DEF TypeOK, NewQueue
  <1>3. ReceiverNotForgotten /\ RegisteredSenderWaits
    BY DEF ReceiverNotForgotten, RegisteredSenderWaits, NewQueue, Tasks
  <1>4. NothingLost
    BY DEF NothingLost, NewQueue
  <1> QED
    BY <1>2, <1>3, <1>4 DEF IInv

(* A push, from poll_send or from block_send, keeps types and contents.    *)
LEMMA PutKeeps ==
  ASSUME TypeOK, NothingLost, NEW p \in Producers, Put(p)
  PROVE  /\ q' = QueueOf(q.max, Append(q.items, <<p, sent[p] + 1>>), q.closed,
                   None, q.sendWaker)
         /\ q' \in [max : 0 .. 1, items : Seq(Messages), closed : BOOLEAN,
                    recvWaker : Receivers \cup {None},
                    sendWaker : Senders \cup {None}]
         /\ sent' \in [Producers -> 0 .. MaxSends]
         /\ accepted' \in Seq(Messages)
         /\ received \o q'.items = accepted'
         /\ Len(q'.items) = Len(q.items) + 1
         /\ accepted' = Append(accepted, <<p, sent[p] + 1>>)
         /\ <<p, sent[p] + 1>> \in Messages
  <1> USE DEF QueueOf
  <1> DEFINE m == <<p, sent[p] + 1>>
  <1>1. m \in Messages
    BY QueueAssumption DEF Put, TypeOK, Messages
  <1>2. q' = QueueOf(q.max, Append(q.items, m), q.closed,
                   None, q.sendWaker)
    BY QueueOps DEF Put
  <1>3. /\ Append(q.items, m) \in Seq(Messages)
        /\ Len(Append(q.items, m)) = Len(q.items) + 1
    BY <1>1, AppendProperties DEF TypeOK
  <1>4. sent' \in [Producers -> 0 .. MaxSends]
    BY QueueAssumption DEF Put, TypeOK
  <1>5. accepted' = Append(accepted, m) /\ accepted' \in Seq(Messages)
    BY <1>1, AppendProperties DEF Put, TypeOK
  <1>6. received \o Append(q.items, m) = Append(received \o q.items, m)
    BY <1>1, AppendIsConcat, ConcatAssociative, ConcatProperties DEF TypeOK
  <1>7. received \o q'.items = accepted'
    BY <1>2, <1>5, <1>6 DEF NothingLost
  <1> QED
    BY <1>1, <1>2, <1>3, <1>4, <1>5, <1>7 DEF TypeOK

LEMMA Step == IInv /\ [Next]_vars => IInv'
  <1> SUFFICES ASSUME IInv, [Next]_vars PROVE IInv'
    OBVIOUS
  <1> USE QueueAssumption DEF IInv, QueueOf
  <1> DEFINE QueueType ==
        [max : 0 .. 1, items : Seq(Messages), closed : BOOLEAN,
         recvWaker : Receivers \cup {None}, sendWaker : Senders \cup {None}]
  <1>0. Len(q.items) \in Nat /\ q.max \in 0 .. 1
    BY DEF TypeOK
  <1>1. ASSUME NEW s \in Senders, PollSendClosed(s) PROVE IInv'
    BY <1>1 DEF PollSendClosed, TypeOK, ReceiverNotForgotten, Tasks, MaySend,
                RegisteredSenderWaits, NothingLost, Filled
  <1>2. ASSUME NEW s \in Senders, PollSendFilled(s) PROVE IInv'
    <2>1. /\ ~ q.closed /\ Filled(q)
          /\ q' = QueueOf(q.max, q.items, q.closed, q.recvWaker, s)
          /\ fut' = [fut EXCEPT ![s] = "pending"] /\ woken' = woken \ {s}
          /\ UNCHANGED <<displaced, sent, accepted, received>>
      BY <1>2, QueueOps DEF PollSendFilled
    <2>2. TypeOK'
      BY <2>1 DEF TypeOK, Tasks
    <2>3. ReceiverNotForgotten'
      BY <2>1 DEF TypeOK, Tasks, ReceiverNotForgotten
    <2>4. RegisteredSenderWaits'
      BY <2>1 DEF RegisteredSenderWaits, Filled
    <2> QED
      BY <2>1, <2>2, <2>3, <2>4 DEF NothingLost
  <1>3. ASSUME NEW s \in Senders, PollSendReady(s) PROVE IInv'
    <2>1. s \in Producers /\ Put(s)
      BY <1>3 DEF PollSendReady, Producers
    <2>2. /\ ~ q.closed /\ ~ Filled(q) /\ fut' = [fut EXCEPT ![s] = "none"]
          /\ woken' = (woken \ {s}) \cup ({q.recvWaker} \ {None})
          /\ UNCHANGED <<displaced, received>>
      BY <1>3 DEF PollSendReady, Wake
    <2>3. TypeOK'
      <3>1. woken' \subseteq Tasks
        BY <2>2 DEF TypeOK, Tasks
      <3>2. fut' \in [Tasks -> {"none", "pending", "failed"}]
        BY <2>2 DEF TypeOK, Tasks
      <3> QED
        BY <2>1, <2>2, <3>1, <3>2, PutKeeps DEF TypeOK
    <2>4. ReceiverNotForgotten'
      BY <2>1, <2>2, PutKeeps DEF TypeOK, Tasks, ReceiverNotForgotten
    <2>5. RegisteredSenderWaits'
      <3>0. q' = QueueOf(q.max, Append(q.items, <<s, sent[s] + 1>>), q.closed,
                   None, q.sendWaker)
            /\ Len(q'.items) = Len(q.items) + 1
        BY <2>1, PutKeeps
      <3>1. Len(q'.items) = Len(q.items) + 1 /\ q'.max = q.max
        BY <3>0
      <3>2. ~ q'.closed
        BY <2>2, <3>0
      <3>3. Filled(q)'
        BY <1>0, <3>1 DEF Filled
      <3> QED
        BY <3>2, <3>3 DEF RegisteredSenderWaits
    <2>6. NothingLost'
      BY <2>1, <2>2, PutKeeps DEF NothingLost
    <2> QED
      BY <2>3, <2>4, <2>5, <2>6
  <1>4. ASSUME NEW s \in Senders, CancelSend(s) PROVE IInv'
    BY <1>4 DEF CancelSend, TypeOK, ReceiverNotForgotten, Tasks,
                RegisteredSenderWaits, NothingLost, Filled
  <1>5. ASSUME NEW r \in Receivers, PollRecvClosed(r) \/ CancelRecv(r) PROVE IInv'
    <2>1. /\ \E v \in {"none", "failed"} : fut' = [fut EXCEPT ![r] = v]
          /\ woken \ {r} \subseteq woken' /\ woken' \subseteq woken
          /\ displaced \ {r} \subseteq displaced' /\ displaced' \subseteq displaced
          /\ UNCHANGED <<q, sent, accepted, received>>
      BY <1>5 DEF PollRecvClosed, CancelRecv
    <2>2. TypeOK'
      BY <2>1 DEF TypeOK, Tasks
    <2>3. ReceiverNotForgotten' /\ RegisteredSenderWaits'
      BY <2>1 DEF TypeOK, Tasks, ReceiverNotForgotten, RegisteredSenderWaits, Filled
    <2> QED
      BY <2>1, <2>2, <2>3 DEF NothingLost
  <1>6. ASSUME NEW r \in Receivers, PollRecvReady(r) PROVE IInv'
    <2>1. /\ ~ q.closed /\ q.items # << >>
          /\ q' = QueueOf(q.max, Tail(q.items), q.closed, q.recvWaker, None)
          /\ received' = Append(received, Head(q.items))
          /\ fut' = [fut EXCEPT ![r] = "none"]
          /\ woken' = (woken \ {r}) \cup ({q.sendWaker} \ {None})
          /\ displaced' = displaced \ {r}
          /\ UNCHANGED <<sent, accepted>>
      BY <1>6, QueueOps DEF PollRecvReady, Wake
    <2>2. q.items \in Seq(Messages) /\ received \in Seq(Messages)
      BY DEF TypeOK
    <2>3. Head(q.items) \in Messages /\ Tail(q.items) \in Seq(Messages)
      BY <2>1, <2>2, HeadTailProperties
    <2>4. TypeOK'
      BY <2>1, <2>2, <2>3, AppendProperties DEF TypeOK, Tasks
    <2>5. ReceiverNotForgotten'
      BY <2>1 DEF TypeOK, Tasks, ReceiverNotForgotten
    <2>6. RegisteredSenderWaits'
      BY <2>1 DEF TypeOK, Tasks, RegisteredSenderWaits
    <2>7. NothingLost'
      BY <2>1, <2>2, MoveHead DEF NothingLost
    <2> QED
      BY <2>4, <2>5, <2>6, <2>7
  <1>7. ASSUME NEW r \in Receivers, PollRecvEmpty(r) PROVE IInv'
    <2>1. /\ ~ q.closed /\ q.items = << >>
          /\ q' = QueueOf(q.max, q.items, q.closed, r, q.sendWaker)
          /\ fut' = [fut EXCEPT ![r] = "pending"]
          /\ woken' = woken \ {r}
          /\ displaced' = (displaced \cup ({q.recvWaker} \ {None})) \ {r}
          /\ UNCHANGED <<sent, accepted, received>>
      BY <1>7, QueueOps DEF PollRecvEmpty, Wake
    <2>2. TypeOK'
      BY <2>1 DEF TypeOK, Tasks
    <2>3. ReceiverNotForgotten'
      <3>1. ASSUME NEW u \in Receivers, fut'[u] = "pending", u \notin woken',
                   u \notin displaced'
            PROVE  u = r
        BY <2>1, <3>1 DEF ReceiverNotForgotten, TypeOK, Tasks
      <3> QED
        BY <2>1, <3>1 DEF ReceiverNotForgotten
    <2>4. RegisteredSenderWaits'
      BY <2>1 DEF TypeOK, Tasks, RegisteredSenderWaits, Filled
    <2> QED
      BY <2>1, <2>2, <2>3, <2>4 DEF NothingLost
  <1>8. ASSUME BlockSend PROVE IInv'
    <2>1. ASSUME ~ q.closed, Put(Blocker),
                 woken' = woken \cup Wake(q.recvWaker),
                 UNCHANGED <<fut, displaced, received>>
          PROVE  IInv'
      <3>1. Blocker \in Producers
        BY DEF Producers
      <3>2. TypeOK'
        <4>1. woken' \subseteq Tasks
          BY <2>1 DEF TypeOK, Tasks, Wake
        <4> QED
          BY <2>1, <3>1, <4>1, PutKeeps DEF TypeOK
      <3>3. ReceiverNotForgotten'
        BY <2>1, <3>1, PutKeeps DEF TypeOK, Tasks, Wake, ReceiverNotForgotten
      <3>4. RegisteredSenderWaits'
        <4>0. q' = QueueOf(q.max, Append(q.items, <<Blocker, sent[Blocker] + 1>>), q.closed,
                   None, q.sendWaker)
              /\ Len(q'.items) = Len(q.items) + 1
          BY <2>1, <3>1, PutKeeps
        <4>1. Len(q'.items) = Len(q.items) + 1 /\ q'.max = q.max
          BY <4>0
        <4>2. ~ q'.closed
          BY <2>1, <4>0
        <4>3. Filled(q)'
          BY <1>0, <4>1 DEF Filled
        <4> QED
          BY <4>2, <4>3 DEF RegisteredSenderWaits
      <3>5. NothingLost'
        BY <2>1, <3>1, PutKeeps DEF NothingLost
      <3> QED
        BY <3>2, <3>3, <3>4, <3>5
    <2>2. ASSUME q.closed, q' = [q EXCEPT !.sendWaker = None],
                 woken' = woken \cup Wake(q.sendWaker),
                 UNCHANGED <<fut, displaced, sent, accepted, received>>
          PROVE  IInv'
      <3>1. q' = QueueOf(q.max, q.items, q.closed, q.recvWaker, None)
        BY <2>2 DEF TypeOK
      <3>2. TypeOK'
        BY <2>2, <3>1 DEF TypeOK, Tasks, Wake
      <3>3. ReceiverNotForgotten' /\ RegisteredSenderWaits'
        BY <2>2, <3>1 DEF TypeOK, Tasks, Wake, ReceiverNotForgotten,
                          RegisteredSenderWaits
      <3> QED
        BY <2>2, <3>1, <3>2, <3>3 DEF NothingLost
    <2> QED
      BY <1>8, <2>1, <2>2 DEF BlockSend
  <1>9. ASSUME Close PROVE IInv'
    <2>1. /\ q' = QueueOf(q.max, q.items, TRUE, None, None)
          /\ woken' = woken \cup ({q.recvWaker} \ {None})
                            \cup ({q.sendWaker} \ {None})
          /\ UNCHANGED <<fut, displaced, sent, accepted, received>>
      BY <1>9, QueueOps DEF Close, Wake
    <2>2. TypeOK'
      BY <2>1 DEF TypeOK, Tasks
    <2>3. ReceiverNotForgotten' /\ RegisteredSenderWaits'
      BY <2>1 DEF TypeOK, Tasks, ReceiverNotForgotten, RegisteredSenderWaits
    <2> QED
      BY <2>1, <2>2, <2>3 DEF NothingLost
  <1>10. CASE UNCHANGED vars
    BY <1>10 DEF vars, TypeOK, ReceiverNotForgotten, RegisteredSenderWaits,
                 NothingLost, Filled
  <1> QED
    BY <1>1, <1>2, <1>3, <1>4, <1>5, <1>6, <1>7, <1>8, <1>9, <1>10
       DEF Next, PollSend, PollRecv

LEMMA Inductive == Spec => []IInv
  BY Initially, Step, PTL DEF Spec

(* Whatever the number of senders, the capacity asked for and the length   *)
(* of the run, the queue and its futures keep their types.                 *)
THEOREM TypesHold == Spec => []TypeOK
  <1>1. IInv => TypeOK
    BY DEF IInv
  <1> QED
    BY Inductive, <1>1, PTL

(* The receive side loses no wake-up but those of a receiver that another  *)
(* one displaced (poll_read, push_back + wake_recv in poll_send and        *)
(* block_send, close).                                                     *)
THEOREM ReceiverAlwaysWoken == Spec => []ReceiverNotForgotten
  <1>1. IInv => ReceiverNotForgotten
    BY DEF IInv
  <1> QED
    BY Inductive, <1>1, PTL

(* The send side keeps the waker of one task only while the queue is full. *)
THEOREM RegisteredSenderAlwaysWaits == Spec => []RegisteredSenderWaits
  <1>1. IInv => RegisteredSenderWaits
    BY DEF IInv
  <1> QED
    BY Inductive, <1>1, PTL
-----------------------------------------------------------------------------
LEMMA AbstractInit == Init => Abstract!Init
  BY DEF Init, Abstract!Init, NewQueue

LEMMA AbstractStep == IInv /\ [Next]_vars => [Abstract!Next]_(Abstract!channelVars)
  <1> SUFFICES ASSUME IInv, [Next]_vars
               PROVE  [Abstract!Next]_(Abstract!channelVars)
    OBVIOUS
  <1> USE DEF Abstract!channelVars
  <1>1. ASSUME NEW p \in Producers, Put(p), received' = received, ~ q.closed
        PROVE  Abstract!Next
    <2>1. \E m \in Messages : accepted' = Append(accepted, m)
      BY <1>1, PutKeeps DEF IInv
    <2>2. q' = QueueOf(q.max, Append(q.items, <<p, sent[p] + 1>>), q.closed,
                       None, q.sendWaker)
      BY <1>1, PutKeeps DEF IInv
    <2>3. q'.closed = q.closed
      BY <2>2 DEF QueueOf
    <2> QED
      BY <1>1, <2>1, <2>3 DEF Abstract!Next, Abstract!Accept
  <1>2. ASSUME NEW s \in Senders, PollSend(s) \/ CancelSend(s)
        PROVE  [Abstract!Next]_(Abstract!channelVars)
    <2>1. CASE PollSendClosed(s) \/ CancelSend(s)
      BY <2>1 DEF PollSendClosed, CancelSend
    <2>2. CASE PollSendFilled(s)
      <3>1. q' = QueueOf(q.max, q.items, q.closed, q.recvWaker, s)
        BY <2>2, QueueOps DEF IInv, PollSendFilled
      <3>2. q'.closed = q.closed
        BY <3>1 DEF QueueOf
      <3> QED
        BY <2>2, <3>2 DEF PollSendFilled
    <2>3. CASE PollSendReady(s)
      BY <1>1, <2>3 DEF PollSendReady, Producers
    <2> QED
      BY <1>2, <2>1, <2>2, <2>3 DEF PollSend
  <1>3. ASSUME NEW r \in Receivers, PollRecvReady(r) PROVE Abstract!Deliver
    <2>1. /\ q.items \in Seq(Messages) /\ q.items # << >>
          /\ received \in Seq(Messages) /\ accepted = received \o q.items
      BY <1>3 DEF PollRecvReady, IInv, TypeOK, NothingLost
    <2>2. /\ Len(received) < Len(accepted)
          /\ accepted[Len(received) + 1] = Head(q.items)
      BY <2>1, ConcatProperties
    <2>3. q'.closed = q.closed
      BY <1>3, QueueOps DEF IInv, PollRecvReady, QueueOf
    <2> QED
      BY <1>3, <2>2, <2>3 DEF PollRecvReady, Abstract!Deliver
  <1>4. ASSUME NEW r \in Receivers,
               PollRecvClosed(r) \/ PollRecvEmpty(r) \/ CancelRecv(r)
        PROVE  UNCHANGED Abstract!channelVars
    <2>1. CASE PollRecvClosed(r) \/ CancelRecv(r)
      BY <2>1 DEF PollRecvClosed, CancelRecv
    <2>2. CASE PollRecvEmpty(r)
      <3>1. q'.closed = q.closed
        BY <2>2, QueueOps DEF IInv, PollRecvEmpty, QueueOf
      <3> QED
        BY <2>2, <3>1 DEF PollRecvEmpty
    <2> QED
      BY <1>4, <2>1, <2>2
  <1>5. ASSUME BlockSend PROVE [Abstract!Next]_(Abstract!channelVars)
    <2>1. CASE q.closed
      <3>1. q' = [q EXCEPT !.sendWaker = None] /\ UNCHANGED <<accepted, received>>
        BY <1>5, <2>1 DEF BlockSend
      <3>2. q'.closed = q.closed
        BY <3>1 DEF IInv, TypeOK
      <3> QED
        BY <3>1, <3>2
    <2>2. CASE ~ q.closed
      BY <1>1, <1>5, <2>2 DEF BlockSend, Producers
    <2> QED
      BY <2>1, <2>2
  <1>6. ASSUME Close PROVE Abstract!Close
    <2>1. q'.closed = TRUE
      BY <1>6, QueueOps DEF IInv, Close, QueueOf
    <2> QED
      BY <1>6, <2>1 DEF Close, Abstract!Close
  <1>7. CASE UNCHANGED vars
    BY <1>7 DEF vars
  <1> QED
    BY <1>2, <1>3, <1>4, <1>5, <1>6, <1>7 DEF Next, PollRecv, Abstract!Next

(* A Queue is a Channel: every message accepted is delivered at most once  *)
(* and in order, whoever sends, and the close ends both sides.             *)
THEOREM QueueIsChannel == Spec => ImplementsChannel
  BY AbstractInit, AbstractStep, Inductive, PTL
     DEF Spec, ImplementsChannel, Abstract!Spec
-----------------------------------------------------------------------------
(* There is one slot for all senders.  A sender that waits loses it to     *)
(* another one that waits, and in no other way: what else takes a waker    *)
(* out of the slot wakes its task (poll_read, block_send and close).       *)
LostToAnother ==
  [][\A s \in Senders :
       Overwritten(s)' => Overwritten(s) \/ \E u \in Senders \ {s} : q'.sendWaker = u]_vars

LEMMA SlotStep ==
  ASSUME IInv, [Next]_vars, NEW s \in Senders, Overwritten(s)', ~ Overwritten(s)
  PROVE  \E u \in Senders \ {s} : q'.sendWaker = u
  <1> USE QueueAssumption DEF Overwritten
  <1>1. /\ fut \in [Tasks -> {"none", "pending", "failed"}] /\ Senders \subseteq Tasks
        /\ TypeOK /\ s \notin Receivers /\ s # None
    BY DEF IInv, TypeOK, Tasks
  <1>2. fut'[s] = "pending" /\ s \notin woken' /\ q'.sendWaker # s
    OBVIOUS
  <1>3. ASSUME NEW u \in Senders, PollSend(u) PROVE u # s /\ q'.sendWaker = u
    <2>1. CASE PollSendFilled(u)
      <3>1. q' = QueueOf(q.max, q.items, q.closed, q.recvWaker, u)
        BY <1>1, <2>1, QueueOps DEF PollSendFilled
      <3>2. q'.sendWaker = u
        BY <3>1 DEF QueueOf
      <3> QED
        BY <1>2, <3>2
    <2>2. CASE PollSendReady(u) \/ PollSendClosed(u)
      <3>1. q'.sendWaker = q.sendWaker
        <4>1. CASE PollSendReady(u)
          <5>1. q' = PushBack(q, <<u, sent[u] + 1>>)
            BY <4>1 DEF PollSendReady, Put
          <5>2. q' = QueueOf(q.max, Append(q.items, <<u, sent[u] + 1>>), q.closed,
                             None, q.sendWaker)
            BY <1>1, <5>1, QueueOps
          <5> QED
            BY <5>2 DEF QueueOf
        <4>2. CASE PollSendClosed(u)
          BY <4>2 DEF PollSendClosed
        <4> QED
          BY <2>2, <4>1, <4>2
      <3>2. /\ \E v \in {"none", "failed"} : fut' = [fut EXCEPT ![u] = v]
            /\ woken \ {u} \subseteq woken'
        BY <2>2 DEF PollSendReady, PollSendClosed
      <3> QED
        BY <1>1, <1>2, <3>1, <3>2
    <2> QED
      BY <1>3, <2>1, <2>2 DEF PollSend
  <1>4. ASSUME NEW u \in Senders, CancelSend(u) PROVE FALSE
    BY <1>1, <1>2, <1>4 DEF CancelSend
  <1>5. ASSUME NEW r \in Receivers, PollRecv(r) \/ CancelRecv(r) PROVE FALSE
    <2>1. \E v \in {"none", "pending", "failed"} : fut' = [fut EXCEPT ![r] = v]
      BY <1>5 DEF PollRecv, PollRecvClosed, PollRecvReady, PollRecvEmpty, CancelRecv
    <2>2. fut'[s] = fut[s] /\ woken \ {r} \subseteq woken'
      BY <1>1, <1>5, <2>1
         DEF PollRecv, PollRecvClosed, PollRecvReady, PollRecvEmpty, CancelRecv
    <2>3. q.sendWaker = s /\ s \notin woken
      BY <1>1, <1>2, <2>2
    <2>4. CASE PollRecvReady(r)
      BY <1>1, <1>2, <2>3, <2>4 DEF PollRecvReady, Wake
    <2>5. CASE PollRecvClosed(r) \/ PollRecvEmpty(r) \/ CancelRecv(r)
      BY <1>1, <1>2, <2>3, <2>5, QueueOps
         DEF PollRecvClosed, PollRecvEmpty, CancelRecv, QueueOf
    <2> QED
      BY <1>5, <2>4, <2>5 DEF PollRecv
  <1>6. ASSUME BlockSend \/ Close PROVE FALSE
    <2>1. UNCHANGED fut /\ woken \subseteq woken'
      BY <1>6 DEF BlockSend, Close
    <2>2. q.sendWaker = s /\ s \notin woken
      BY <1>2, <2>1
    <2>3. CASE BlockSend /\ ~ q.closed
      BY <1>1, <1>2, <2>2, <2>3, QueueOps DEF BlockSend, Put, QueueOf
    <2>4. CASE Close \/ (BlockSend /\ q.closed)
      BY <1>1, <1>2, <2>2, <2>4 DEF Close, BlockSend, Wake
    <2> QED
      BY <1>6, <2>3, <2>4
  <1>7. ASSUME UNCHANGED vars PROVE FALSE
    BY <1>2, <1>7 DEF vars
  <1> QED
    BY <1>3, <1>4, <1>5, <1>6, <1>7 DEF Next

(* Every step that leaves a waiting sender without the slot and without a  *)
(* wake-up is another sender that registers itself.                        *)
THEOREM SlotIsLostToAnother == Spec => LostToAnother
  <1>1. IInv /\ [Next]_vars =>
          [\A s \in Senders :
             Overwritten(s)' => Overwritten(s) \/ \E u \in Senders \ {s} : q'.sendWaker = u]_vars
    BY SlotStep
  <1> QED
    BY <1>1, Inductive, PTL DEF Spec, LostToAnother

(* So a queue with one async sender - the register and the acceptor queue  *)
(* of a listener, which only its reader sends to - has its waiting sender  *)
(* in the slot, and every recv and close finds it there.                   *)
THEOREM LoneSenderKeepsSlot ==
  ASSUME \A s, u \in Senders : s = u
  PROVE  Spec => [](\A s \in Senders : ~ Overwritten(s))
  <1> DEFINE Nobody == \A s \in Senders : ~ Overwritten(s)
  <1>1. Init => Nobody
    BY DEF Init, Overwritten, Tasks
  <1>2. IInv /\ Nobody /\ [Next]_vars => Nobody'
    BY SlotStep
  <1> QED
    BY <1>1, <1>2, Inductive, PTL DEF Spec
-----------------------------------------------------------------------------
(* The loop that owns a ReadHalf and shares it with nobody keeps its slot: *)
(* no wake-up of it is lost, and its queue is never deserted.              *)
THEOREM LoneReceiverKeepsSlot ==
  ASSUME \A r, u \in Receivers : r = u
  PROVE  Spec => [](displaced = {})
  <1> DEFINE Nobody == displaced = {}
  <1>1. Init => Nobody
    BY DEF Init
  <1>2. IInv /\ Nobody /\ [Next]_vars => Nobody'
    <2> SUFFICES ASSUME IInv, Nobody, [Next]_vars PROVE displaced' = {}
      OBVIOUS
    <2>1. ASSUME NEW r \in Receivers, PollRecv(r) \/ CancelRecv(r)
          PROVE  displaced' = {}
      <3>1. Wake(q.recvWaker) \subseteq Receivers
        BY QueueAssumption DEF IInv, TypeOK, Wake
      <3> QED
        BY <2>1, <3>1 DEF PollRecv, PollRecvClosed, PollRecvReady, PollRecvEmpty,
                          CancelRecv
    <2>2. ASSUME NEW s \in Senders, PollSend(s) \/ CancelSend(s)
          PROVE  displaced' = {}
      BY <2>2 DEF PollSend, PollSendClosed, PollSendFilled, PollSendReady, CancelSend
    <2>3. CASE BlockSend \/ Close \/ UNCHANGED vars
      BY <2>3 DEF BlockSend, Close, vars
    <2> QED
      BY <2>1, <2>2, <2>3 DEF Next
  <1> HIDE DEF Nobody
  <1>3. Nobody => displaced = {}
    BY DEF Nobody
  <1> QED
    BY <1>1, <1>2, <1>3, Inductive, PTL DEF Spec
=============================================================================
