--------------------------- MODULE SessionProofs ---------------------------
(***************************************************************************)
(* Theorems about Session, for any window, any timeouts, any bound on the  *)
(* datagrams, and any set of operations of the writer.                     *)
(*                                                                         *)
(* The invariants that matter are inductive together, once some facts about *)
(* who can be where are added (Placed, ClosesLast): the writer and the     *)
(* closer share the close slot, but never at the same time; the closer's   *)
(* force_close follows the end of its poll; and the send half is never     *)
(* closed alone.                                                           *)
(*                                                                         *)
(* The last part is about Kcp::send (module Message), which poll_send      *)
(* calls on an open session with room in its window.                       *)
(***************************************************************************)
EXTENDS Session, Message, Arithmetic

Placed ==
  /\ top[Reader] = "recv" /\ top[Closer] = "close"
  /\ top[Writer] \in {"send", "flush", "close"}
  /\ tpc[Reader] = "gone" <=> tpc[Writer] = "gone"
  /\ tpc[Closer] \in {"checked", "pending"} => tpc[Reader] = "gone"
  /\ tpc[Writer] \notin {"regd", "ret"} /\ tpc[Closer] \notin {"regd", "ret"}

ClosesLast ==
  /\ tpc[Closer] # "gone" => apc["closer"] = "rest"
  /\ sendClosed => recvClosed

(* An actor outside try_wake_all is at its first waker.                    *)
AtStart == \A a \in Actors : apc[a] # "wake" => next[a] = 1

IInv ==
  /\ TypeOK
  /\ AtStart
  /\ Placed
  /\ ClosesLast
  /\ PendingRegistered
  /\ ServedIsWoken
  /\ WokenOnClose
  /\ HalfClosedIsTransient
  /\ OpenIsPolled

LEMMA Positions ==
  /\ Position("send") = 1 /\ Position("recv") = 2
  /\ Position("flush") = 3 /\ Position("close") = 4
  <1>1. \A s \in Slots : \E i \in 1 .. 4 : WakeOrder[i] = s
    <2>1. WakeOrder[1] = "send" /\ WakeOrder[2] = "recv"
            /\ WakeOrder[3] = "flush" /\ WakeOrder[4] = "close"
      BY DEF WakeOrder
    <2> QED
      BY <2>1 DEF Slots
  <1>2. \A s \in Slots : Position(s) \in 1 .. 4 /\ WakeOrder[Position(s)] = s
    BY <1>1 DEF Position
  <1> QED
    BY <1>2 DEF WakeOrder, Slots

LEMMA Initially == Init => IInv
  <1> SUFFICES ASSUME Init PROVE IInv
    OBVIOUS
  <1> USE SessionAssumption DEF Init, Tasks, Users
  <1>1. TypeOK
    <2>1. /\ 0 \in 0 .. Wnd /\ 0 \in 0 .. MaxAvail /\ 0 \in 0 .. MaxIdle
          /\ 0 \in 0 .. MaxInputs /\ 1 \in 1 .. 4
      OBVIOUS
    <2>2. top \in [Tasks -> Slots]
      BY DEF Slots
    <2> QED
      BY <2>1, <2>2 DEF TypeOK
  <1>2. Placed /\ ClosesLast /\ AtStart
    BY DEF Placed, ClosesLast, Actors, AtStart
  <1>3. PendingRegistered /\ ServedIsWoken /\ WokenOnClose
    BY DEF PendingRegistered, ServedIsWoken, WokenOnClose, Parked, closed
  <1>4. HalfClosedIsTransient /\ OpenIsPolled
    BY DEF HalfClosedIsTransient, OpenIsPolled
  <1> QED
    BY <1>1, <1>2, <1>3, <1>4 DEF IInv

-----------------------------------------------------------------------------
(* Types.                                                                  *)
LEMMA TypeStep == TypeOK /\ Placed /\ [Next]_vars => TypeOK'
  <1> SUFFICES ASSUME TypeOK, Placed, [Next]_vars PROVE TypeOK'
    OBVIOUS
  <1> USE SessionAssumption
      DEF TypeOK, Tasks, Users, Actors, Slots, sessionVars, taskVars, actorVars
  <1>1. ASSUME NEW t \in Tasks, Poll(t) PROVE TypeOK'
    <2>1. PICK op \in Slots : PollClosed(t, op) \/ PollOpen(t, op)
      BY <1>1 DEF Poll
    <2>2. CASE PollClosed(t, op)
      BY <2>2 DEF PollClosed, Return
    <2>3. CASE PollOpen(t, op)
      BY <2>3 DEF PollOpen
    <2> QED
      BY <2>1, <2>2, <2>3
  <1>2. ASSUME NEW t \in Tasks, PollStep(t) PROVE TypeOK'
    <2>1. CASE SendReady(t)
      BY <2>1 DEF SendReady
    <2>2. CASE SendPending(t)
      BY <2>2 DEF SendPending, Register, closed
    <2>3. CASE RecvReady(t)
      BY <2>3 DEF RecvReady
    <2>4. CASE RecvPending(t)
      BY <2>4 DEF RecvPending, Register, closed
    <2>5. CASE RecvWakesSend(t)
      BY <2>5 DEF RecvWakesSend, TakeAndWake
    <2>6. CASE FlushReady(t) \/ FlushPending(t)
      BY <2>6 DEF FlushReady, FlushPending, Register, closed
    <2>7. CASE CloseReady(t) \/ ClosePending(t)
      BY <2>7 DEF CloseReady, ClosePending, Register, Return, closed
    <2> QED
      BY <1>2, <2>1, <2>2, <2>3, <2>4, <2>5, <2>6, <2>7 DEF PollStep
  <1>3. ASSUME NEW t \in Tasks, Abandon(t) PROVE TypeOK'
    BY <1>3 DEF Abandon
  <1>4. CASE DropStream
    BY <1>4 DEF DropStream
  <1>5. ASSUME NEW a \in Actors, ForceOrWake(a) PROVE TypeOK'
    <2>1. CASE ForceCloseCheck(a) \/ ForceCloseSet(a)
      <3>1. CASE ForceCloseCheck(a) /\ closed
        BY <3>1 DEF ForceCloseCheck
      <3>2. CASE ForceCloseCheck(a) /\ ~ closed
        BY <3>2 DEF ForceCloseCheck
      <3>3. CASE ForceCloseSet(a)
        BY <3>3 DEF ForceCloseSet
      <3> QED
        BY <2>1, <3>1, <3>2, <3>3
    <2>2. CASE WakeNext(a)
      <3>1. WakeOrder[next[a]] \in Slots
        BY DEF WakeOrder
      <3>2. /\ waker' \in [Slots -> Tasks \cup {None}]
            /\ woken' \subseteq Tasks
        BY <2>2, <3>1 DEF WakeNext, TakeAndWake
      <3>3. next' \in [Actors -> 1 .. 4]
        <4>1. \A n \in 1 .. 4 : (IF n = 4 THEN 1 ELSE n + 1) \in 1 .. 4
          OBVIOUS
        <4> QED
          BY <2>2, <4>1 DEF WakeNext
      <3>4. /\ apc' \in [Actors -> {"rest", "update", "check", "set", "wake"}]
            /\ inputErr' \in BOOLEAN
        <4>1. CASE next[a] < 4
          BY <2>2, <4>1 DEF WakeNext
        <4>2. CASE ~ (next[a] < 4)
          <5>1. /\ apc' = [apc EXCEPT ![a] = IF a = "net" /\ inputErr
                                              THEN "check" ELSE "rest"]
                /\ inputErr' = IF a = "net" THEN FALSE ELSE inputErr
            BY <2>2, <4>2 DEF WakeNext
          <5>2. inputErr' \in BOOLEAN
            BY <5>1
          <5>3. (IF a = "net" /\ inputErr THEN "check" ELSE "rest")
                  \in {"check", "rest"}
            OBVIOUS
          <5> QED
            BY <5>1, <5>2, <5>3
        <4> QED
          BY <4>1, <4>2
      <3> QED
        BY <2>2, <3>2, <3>3, <3>4 DEF WakeNext
    <2> QED
      BY <1>5, <2>1, <2>2 DEF ForceOrWake
  <1>6. CASE InputOk \/ InputErr
    <2>1. CASE InputOk
      <3>1. avail' \in 0 .. MaxAvail
        BY <2>1 DEF InputOk
      <3>2. waitsnd' \in 0 .. Wnd
        BY <2>1 DEF InputOk
      <3>3. idle' \in 0 .. MaxIdle /\ inputs' \in 0 .. MaxInputs
        BY <2>1 DEF InputOk
      <3> QED
        BY <2>1, <3>1, <3>2, <3>3 DEF InputOk
    <2>2. CASE InputErr
      <3>1. inputs' \in 0 .. MaxInputs
        BY <2>2 DEF InputErr
      <3> QED
        BY <2>2, <3>1 DEF InputErr
    <2> QED
      BY <1>6, <2>1, <2>2
  <1>7. CASE \/ ManagerCloses \/ RoundClosed \/ CancelPoller \/ PollerDropped
             \/ RoundOpen \/ PollerEnds
    <2>1. CASE ManagerCloses
      BY <2>1 DEF ManagerCloses
    <2>2. CASE RoundClosed \/ CancelPoller \/ PollerDropped
      BY <2>2 DEF RoundClosed, CancelPoller, PollerDropped
    <2>3. CASE RoundOpen
      BY <2>3 DEF RoundOpen
    <2>4. CASE PollerEnds
      BY <2>4 DEF PollerEnds
    <2> QED
      BY <1>7, <2>1, <2>2, <2>3, <2>4
  <1>8. CASE Update
    <2>1. CASE UpdateCloses
      BY <2>1 DEF UpdateCloses, TakeAndWake
    <2>2. CASE UpdateOk
      BY <2>2 DEF UpdateOk
    <2>3. ASSUME NEW slot \in {"recv", "send", "flush"}, UpdateTimesOut(slot)
          PROVE  TypeOK'
      BY <2>3 DEF UpdateTimesOut, TakeAndWake
    <2> QED
      BY <1>8, <2>1, <2>2, <2>3 DEF Update
  <1>9. CASE Tick
    BY <1>9 DEF Tick
  <1>10. CASE UNCHANGED vars
    BY <1>10 DEF vars
  <1> QED
    BY <1>1, <1>2, <1>3, <1>4, <1>5, <1>6, <1>7, <1>8, <1>9, <1>10 DEF Next

LEMMA PlacedStep == TypeOK /\ Placed /\ [Next]_vars => Placed'
  <1> SUFFICES ASSUME TypeOK, Placed, [Next]_vars PROVE Placed'
    OBVIOUS
  <1> USE SessionAssumption
      DEF TypeOK, Placed, Tasks, Users, taskVars, actorVars
  <1>1. ASSUME NEW t \in Tasks, Poll(t) PROVE Placed'
    BY <1>1 DEF Poll, PollClosed, PollOpen, Return, MayCall, Ops, Dropped
  <1>2. ASSUME NEW t \in Tasks, PollStep(t) PROVE Placed'
    <2>1. CASE SendReady(t) \/ SendPending(t)
      BY <2>1 DEF SendReady, SendPending, Register, Checked
    <2>2. CASE RecvReady(t) \/ RecvPending(t)
      BY <2>2 DEF RecvReady, RecvPending, Register, Checked
    <2>3. CASE RecvWakesSend(t)
      BY <2>3 DEF RecvWakesSend
    <2>4. CASE FlushReady(t) \/ FlushPending(t)
      BY <2>4 DEF FlushReady, FlushPending, Register, Checked
    <2>5. CASE CloseReady(t) \/ ClosePending(t)
      BY <2>5 DEF CloseReady, ClosePending, Register, Return, Checked
    <2> QED
      BY <1>2, <2>1, <2>2, <2>3, <2>4, <2>5 DEF PollStep
  <1>3. ASSUME NEW t \in Tasks, Abandon(t) PROVE Placed'
    BY <1>3 DEF Abandon
  <1>4. CASE DropStream
    BY <1>4 DEF DropStream
  <1>5. ASSUME NEW a \in Actors, ForceOrWake(a) PROVE Placed'
    BY <1>5 DEF ForceOrWake, ForceCloseCheck, ForceCloseSet, WakeNext
  <1>6. CASE InputOk \/ InputErr \/ ManagerCloses
    BY <1>6 DEF InputOk, InputErr, ManagerCloses
  <1>7. CASE \/ RoundClosed \/ CancelPoller \/ PollerDropped \/ RoundOpen
             \/ PollerEnds \/ Tick
    BY <1>7 DEF RoundClosed, CancelPoller, PollerDropped, RoundOpen,
                PollerEnds, Tick
  <1>8. CASE Update
    BY <1>8 DEF Update, UpdateCloses, UpdateOk, UpdateTimesOut
  <1>9. CASE UNCHANGED vars
    BY <1>9 DEF vars
  <1> QED
    BY <1>1, <1>2, <1>3, <1>4, <1>5, <1>6, <1>7, <1>8, <1>9 DEF Next

LEMMA ClosesLastStep == TypeOK /\ ClosesLast /\ [Next]_vars => ClosesLast'
  <1> SUFFICES ASSUME TypeOK, ClosesLast, [Next]_vars PROVE ClosesLast'
    OBVIOUS
  <1> USE SessionAssumption DEF ClosesLast
  <1>a. ASSUME UNCHANGED <<sendClosed, recvClosed, apc>>,
               tpc'[Closer] # "gone" => tpc[Closer] # "gone"
        PROVE  ClosesLast'
    BY <1>a
  <1>b. ASSUME NEW t \in Tasks, NEW pc, tpc[t] # "gone", tpc' = [tpc EXCEPT ![t] = pc]
        PROVE  tpc'[Closer] # "gone" => tpc[Closer] # "gone"
    BY <1>b DEF TypeOK, Tasks
  <1>c. ASSUME NEW t \in Tasks, tpc[t] # "gone", Return(t),
               UNCHANGED <<sendClosed, recvClosed>>
        PROVE  ClosesLast'
    <2>1. CASE t = Closer
      BY <1>c, <2>1 DEF Return, TypeOK
    <2>2. CASE t # Closer
      BY <1>a, <1>b, <1>c, <2>2 DEF Return
    <2> QED
      BY <2>1, <2>2
  <1>d. ASSUME UNCHANGED tpc, sendClosed' => recvClosed',
               tpc[Closer] # "gone" => apc'["closer"] = apc["closer"]
        PROVE  ClosesLast'
    BY <1>d
  <1>1. ASSUME NEW t \in Tasks, Poll(t) PROVE ClosesLast'
    <2>1. PICK op \in Slots : PollClosed(t, op) \/ PollOpen(t, op)
      BY <1>1 DEF Poll
    <2>2. tpc[t] # "gone"
      BY <2>1 DEF PollClosed, PollOpen, MayCall
    <2>3. CASE PollClosed(t, op)
      BY <1>c, <2>2, <2>3 DEF PollClosed, sessionVars
    <2>4. CASE PollOpen(t, op)
      BY <1>a, <1>b, <2>2, <2>4 DEF PollOpen, sessionVars, actorVars
    <2> QED
      BY <2>1, <2>3, <2>4
  <1>2. ASSUME NEW t \in Tasks, PollStep(t) PROVE ClosesLast'
    <2>1. tpc[t] # "gone"
      BY <1>2 DEF PollStep, SendReady, SendPending, RecvReady, RecvPending,
                  RecvWakesSend, FlushReady, FlushPending, CloseReady,
                  ClosePending, Checked
    <2>2. CASE CloseReady(t)
      BY <1>c, <2>1, <2>2 DEF CloseReady, sessionVars
    <2>3. CASE ~ CloseReady(t)
      <3>1. UNCHANGED <<sendClosed, recvClosed, apc>>
        BY <1>2, <2>3
           DEF PollStep, SendReady, SendPending, RecvReady, RecvPending,
               RecvWakesSend, FlushReady, FlushPending, ClosePending,
               sessionVars, actorVars
      <3>2. \E pc : tpc' = [tpc EXCEPT ![t] = pc]
        BY <1>2, <2>3
           DEF PollStep, SendReady, SendPending, RecvReady, RecvPending,
               RecvWakesSend, FlushReady, FlushPending, ClosePending, Register
      <3> QED
        BY <1>a, <1>b, <2>1, <3>1, <3>2
    <2> QED
      BY <2>2, <2>3
  <1>3. ASSUME NEW t \in Tasks, Abandon(t) \/ DropStream PROVE ClosesLast'
    BY <1>a, <1>3 DEF Abandon, DropStream, sessionVars, actorVars, TypeOK,
                      Tasks, Users
  <1>e. ASSUME NEW a \in Actors, NEW v, a # "closer", apc' = [apc EXCEPT ![a] = v],
               UNCHANGED tpc, sendClosed' => recvClosed'
        PROVE  ClosesLast'
    BY <1>d, <1>e DEF TypeOK
  <1>4. ASSUME NEW a \in Actors, ForceOrWake(a) PROVE ClosesLast'
    <2>0. UNCHANGED tpc /\ (sendClosed' => recvClosed')
      <3>1. CASE ForceCloseCheck(a)
        BY <3>1 DEF ForceCloseCheck, sessionVars, taskVars
      <3>2. CASE ForceCloseSet(a)
        BY <3>2 DEF ForceCloseSet, taskVars
      <3>3. CASE WakeNext(a)
        BY <3>3 DEF WakeNext
      <3> QED
        BY <1>4, <3>1, <3>2, <3>3 DEF ForceOrWake
    <2>1. CASE a = "closer"
      <3>1. tpc[Closer] = "gone"
        BY <1>4, <2>1 DEF ForceOrWake, ForceCloseCheck, ForceCloseSet, WakeNext
      <3> QED
        BY <1>d, <2>0, <3>1
    <2>2. CASE a # "closer"
      <3>1. CASE ForceCloseCheck(a)
        BY <1>e, <2>0, <2>2, <3>1 DEF ForceCloseCheck
      <3>2. CASE ForceCloseSet(a)
        BY <1>e, <2>0, <2>2, <3>2 DEF ForceCloseSet
      <3>3. CASE WakeNext(a)
        <4>1. CASE next[a] < 4
          BY <1>d, <2>0, <3>3, <4>1 DEF WakeNext
        <4>2. CASE ~ (next[a] < 4)
          BY <1>e, <2>0, <2>2, <3>3, <4>2 DEF WakeNext
        <4> QED
          BY <4>1, <4>2
      <3> QED
        BY <1>4, <3>1, <3>2, <3>3 DEF ForceOrWake
    <2> QED
      BY <2>1, <2>2
  <1> USE DEF sessionVars, taskVars, actorVars, Actors
  <1>5. CASE InputOk \/ InputErr \/ ManagerCloses
    <2>1. CASE InputOk
      BY <1>e, <2>1 DEF InputOk
    <2>2. CASE InputErr
      BY <1>e, <2>2 DEF InputErr
    <2>3. CASE ManagerCloses
      BY <1>e, <2>3 DEF ManagerCloses
    <2> QED
      BY <1>5, <2>1, <2>2, <2>3
  <1>6. CASE \/ RoundClosed \/ CancelPoller \/ PollerDropped \/ RoundOpen
             \/ PollerEnds \/ Tick
    <2>1. CASE RoundClosed \/ CancelPoller \/ PollerDropped \/ Tick
      BY <1>a, <2>1 DEF RoundClosed, CancelPoller, PollerDropped, Tick
    <2>2. CASE RoundOpen
      BY <1>e, <2>2 DEF RoundOpen
    <2>3. CASE PollerEnds
      BY <1>e, <2>3 DEF PollerEnds
    <2> QED
      BY <1>6, <2>1, <2>2, <2>3
  <1>7. CASE Update
    <2>1. CASE UpdateCloses
      BY <1>e, <2>1 DEF UpdateCloses
    <2>2. CASE UpdateOk
      BY <1>e, <2>2 DEF UpdateOk
    <2>3. ASSUME NEW slot \in {"recv", "send", "flush"}, UpdateTimesOut(slot)
          PROVE  ClosesLast'
      BY <1>e, <2>3 DEF UpdateTimesOut
    <2> QED
      BY <1>7, <2>1, <2>2, <2>3 DEF Update
  <1>8. CASE UNCHANGED vars
    BY <1>a, <1>8 DEF vars, sessionVars, taskVars, actorVars
  <1>9. Tasks # {}
    BY DEF Tasks
  <1> QED
    BY <1>1, <1>2, <1>3, <1>4, <1>5, <1>6, <1>7, <1>8, <1>9 DEF Next

LEMMA AtStartStep ==
  TypeOK /\ AtStart /\ ClosesLast /\ [Next]_vars => AtStart'
  <1> SUFFICES ASSUME TypeOK, AtStart, ClosesLast, [Next]_vars, NEW a \in Actors,
                      apc'[a] # "wake"
               PROVE  next'[a] = 1
    BY DEF AtStart
  <1> USE DEF TypeOK, AtStart, actorVars
  <1>1. ASSUME UNCHANGED <<apc, next>> PROVE next'[a] = 1
    BY <1>1
  <1>2. ASSUME NEW b \in Actors, NEW v, UNCHANGED next,
               apc' = [apc EXCEPT ![b] = v], v = "wake" \/ apc[b] # "wake"
        PROVE  next'[a] = 1
    BY <1>2
  <1>3. ASSUME NEW t \in Tasks, Poll(t) \/ PollStep(t) \/ Abandon(t)
        PROVE  next'[a] = 1
    <2>1. ASSUME tpc[t] # "gone", Return(t), UNCHANGED next PROVE next'[a] = 1
      <3>1. CASE t = Closer
        BY <1>2, <2>1, <3>1 DEF Return, ClosesLast, Actors
      <3>2. CASE t # Closer
        BY <1>1, <2>1, <3>2 DEF Return
      <3> QED
        BY <3>1, <3>2
    <2>2. CASE CloseReady(t)
      BY <2>1, <2>2 DEF CloseReady, Checked
    <2>3. ASSUME NEW op \in Slots, PollClosed(t, op) PROVE next'[a] = 1
      BY <2>1, <2>3 DEF PollClosed, MayCall
    <2>4. ASSUME NEW op \in Slots, PollOpen(t, op) PROVE next'[a] = 1
      BY <1>1, <2>4 DEF PollOpen
    <2>5. CASE Abandon(t)
      BY <1>1, <2>5 DEF Abandon
    <2>6. CASE PollStep(t) /\ ~ CloseReady(t)
      <3>1. UNCHANGED actorVars
        BY <2>6 DEF PollStep, SendReady, SendPending, RecvReady, RecvPending,
                    RecvWakesSend, FlushReady, FlushPending, ClosePending
      <3> QED
        BY <1>1, <3>1
    <2> QED
      BY <1>3, <2>2, <2>3, <2>4, <2>5, <2>6 DEF Poll
  <1>4. ASSUME NEW b \in Actors, ForceOrWake(b) PROVE next'[a] = 1
    <2>1. CASE ForceCloseCheck(b) \/ ForceCloseSet(b)
      BY <2>1, <1>2 DEF ForceCloseCheck, ForceCloseSet
    <2>2. CASE WakeNext(b)
      <3>1. CASE next[b] = 4
        BY <2>2, <3>1 DEF WakeNext
      <3>2. CASE next[b] # 4
        <4>1. apc' = apc /\ next' = [next EXCEPT ![b] = next[b] + 1]
          <5>1. next[b] \in 1 .. 4 /\ next[b] < 4
            BY <3>2
          <5> QED
            BY <2>2, <3>2, <5>1 DEF WakeNext
        <4>2. a # b
          BY <2>2, <4>1 DEF WakeNext
        <4> QED
          BY <4>1, <4>2
      <3> QED
        BY <3>1, <3>2
    <2> QED
      BY <1>4, <2>1, <2>2 DEF ForceOrWake
  <1>5. CASE InputOk \/ InputErr \/ ManagerCloses \/ RoundOpen \/ PollerEnds
    BY <1>2, <1>5 DEF InputOk, InputErr, ManagerCloses, RoundOpen, PollerEnds,
                      Actors
  <1>6. CASE DropStream \/ RoundClosed \/ CancelPoller \/ PollerDropped \/ Tick
    BY <1>1, <1>6 DEF DropStream, RoundClosed, CancelPoller, PollerDropped, Tick
  <1>7. CASE Update
    BY <1>2, <1>7 DEF Update, UpdateCloses, UpdateOk, UpdateTimesOut, Actors
  <1>8. CASE UNCHANGED vars
    BY <1>1, <1>8 DEF vars
  <1> QED
    BY <1>3, <1>4, <1>5, <1>6, <1>7, <1>8 DEF Next
-----------------------------------------------------------------------------
(* Emptying a slot wakes the task that is parked there, and nobody else is *)
(* affected.                                                               *)
LEMMA WakeKeeps ==
  ASSUME TypeOK, PendingRegistered, NEW slot \in Slots, TakeAndWake(slot),
         NEW t \in Tasks, tpc[t] \in {"pending", "regd"}, t \notin woken'
  PROVE  t \notin woken /\ slot # top[t] /\ waker'[top[t]] = t
  <1>1. t \notin woken /\ waker[top[t]] = t /\ tpc[t] # "gone"
    BY DEF TakeAndWake, PendingRegistered, Parked
  <1>2. slot # top[t]
    BY <1>1 DEF TakeAndWake
  <1> QED
    BY <1>1, <1>2 DEF TakeAndWake, TypeOK

(* Registering in a slot overwrites no parked task.                        *)
LEMMA RegisterKeeps ==
  ASSUME TypeOK, Placed, PendingRegistered, NEW t \in Tasks, NEW op \in Slots,
         NEW pc, Checked(t, op), Register(t, op, pc), UNCHANGED <<top, woken>>
  PROVE  PendingRegistered'
  <1> SUFFICES ASSUME NEW u \in Tasks, tpc'[u] \in {"pending", "regd"}, u \notin woken
               PROVE  waker'[top[u]] = u
    BY DEF PendingRegistered, Parked
  <1>1. CASE u = t
    BY <1>1 DEF Register, Checked, TypeOK
  <1>2. CASE u # t
    <2>1. tpc[u] \in {"pending", "regd"} /\ waker[top[u]] = u
      BY <1>2 DEF Register, TypeOK, PendingRegistered, Parked
    <2>2. top[u] # op
      BY <1>2, <2>1, SessionAssumption DEF Placed, Checked, Tasks, Users
    <2> QED
      BY <2>1, <2>2 DEF Register, TypeOK
  <1> QED
    BY <1>1, <1>2

LEMMA RegisteredStep ==
  TypeOK /\ Placed /\ PendingRegistered /\ [Next]_vars => PendingRegistered'
  <1> SUFFICES ASSUME TypeOK, Placed, PendingRegistered, [Next]_vars
               PROVE  PendingRegistered'
    OBVIOUS
  <1>a. ASSUME UNCHANGED <<waker, tpc, top, woken>> PROVE PendingRegistered'
    BY <1>a DEF PendingRegistered, Parked
  <1>b. ASSUME NEW slot \in Slots, TakeAndWake(slot), UNCHANGED <<tpc, top>>
        PROVE  PendingRegistered'
    BY <1>b, WakeKeeps DEF PendingRegistered, Parked
  <1>c. ASSUME NEW t \in Tasks, NEW pc \in {"idle", "ret", "gone", "checked"},
               tpc' = [tpc EXCEPT ![t] = pc],
               \A u \in Tasks : u # t => top'[u] = top[u],
               woken \ {t} \subseteq woken', waker' = waker
        PROVE  PendingRegistered'
    <2> SUFFICES ASSUME NEW u \in Tasks, tpc'[u] \in {"pending", "regd"},
                        u \notin woken'
                 PROVE  waker'[top'[u]] = u
      BY DEF PendingRegistered, Parked
    <2>1. u # t
      BY <1>c DEF TypeOK
    <2> QED
      BY <1>c, <2>1 DEF TypeOK, PendingRegistered, Parked
  <1>1. ASSUME NEW t \in Tasks, Poll(t) PROVE PendingRegistered'
    <2>1. PICK op \in Slots : PollClosed(t, op) \/ PollOpen(t, op)
      BY <1>1 DEF Poll
    <2>2. CASE PollClosed(t, op)
      <3>1. \E pc \in {"idle", "gone"} : tpc' = [tpc EXCEPT ![t] = pc]
        BY <2>2 DEF PollClosed, Return
      <3> QED
        BY <1>c, <2>2, <3>1 DEF PollClosed, sessionVars
    <2>3. CASE PollOpen(t, op)
      BY <1>c, <2>3 DEF PollOpen, sessionVars, TypeOK
    <2> QED
      BY <2>1, <2>2, <2>3
  <1>2. ASSUME NEW t \in Tasks, PollStep(t) PROVE PendingRegistered'
    <2>1. CASE SendReady(t)
      BY <1>c, <2>1 DEF SendReady
    <2>2. CASE SendPending(t)
      BY <2>2, RegisterKeeps DEF SendPending, Slots
    <2>3. CASE RecvReady(t)
      BY <1>c, <2>3 DEF RecvReady
    <2>4. CASE RecvPending(t)
      BY <2>4, RegisterKeeps DEF RecvPending, Slots
    <2>5. CASE RecvWakesSend(t)
      <3> SUFFICES ASSUME NEW u \in Tasks, tpc'[u] \in {"pending", "regd"},
                          u \notin woken'
                   PROVE  waker'[top[u]] = u
        BY <2>5 DEF PendingRegistered, Parked, RecvWakesSend
      <3>1. tpc[u] \in {"pending", "regd"}
        BY <2>5 DEF RecvWakesSend, TypeOK
      <3> QED
        BY <2>5, <3>1, WakeKeeps DEF RecvWakesSend, Slots
    <2>6. CASE FlushReady(t)
      BY <1>c, <2>6 DEF FlushReady, sessionVars
    <2>7. CASE FlushPending(t)
      BY <2>7, RegisterKeeps DEF FlushPending, Slots
    <2>8. CASE CloseReady(t)
      <3>1. \E pc \in {"idle", "gone"} : tpc' = [tpc EXCEPT ![t] = pc]
        BY <2>8 DEF CloseReady, Return
      <3> QED
        BY <1>c, <2>8, <3>1 DEF CloseReady, sessionVars
    <2>9. CASE ClosePending(t)
      BY <2>9, RegisterKeeps DEF ClosePending, Slots
    <2> QED
      BY <1>2, <2>1, <2>2, <2>3, <2>4, <2>5, <2>6, <2>7, <2>8, <2>9 DEF PollStep
  <1>3. ASSUME NEW t \in Tasks, Abandon(t) PROVE PendingRegistered'
    BY <1>c, <1>3 DEF Abandon, sessionVars
  <1>4. CASE DropStream
    <2> SUFFICES ASSUME NEW u \in Tasks, tpc'[u] \in {"pending", "regd"},
                        u \notin woken'
                 PROVE  waker'[top'[u]] = u
      BY DEF PendingRegistered, Parked
    <2>1. u \notin Users /\ tpc[u] = tpc'[u]
      BY <1>4 DEF DropStream
    <2> QED
      BY <1>4, <2>1 DEF DropStream, sessionVars, PendingRegistered, Parked
  <1>5. ASSUME NEW a \in Actors, ForceOrWake(a) PROVE PendingRegistered'
    <2>1. CASE ForceCloseCheck(a) \/ ForceCloseSet(a)
      BY <1>a, <2>1 DEF ForceCloseCheck, ForceCloseSet, sessionVars, taskVars
    <2>2. CASE WakeNext(a)
      <3>1. WakeOrder[next[a]] \in Slots
        BY DEF WakeOrder, TypeOK, Slots
      <3> QED
        BY <1>b, <2>2, <3>1 DEF WakeNext
    <2> QED
      BY <1>5, <2>1, <2>2 DEF ForceOrWake
  <1>6. CASE InputOk \/ InputErr \/ ManagerCloses
    BY <1>a, <1>6 DEF InputOk, InputErr, ManagerCloses, sessionVars, taskVars
  <1>7. CASE \/ RoundClosed \/ CancelPoller \/ PollerDropped \/ RoundOpen
             \/ PollerEnds \/ Tick
    BY <1>a, <1>7 DEF RoundClosed, CancelPoller, PollerDropped, RoundOpen,
                      PollerEnds, Tick, sessionVars, taskVars
  <1>8. CASE Update
    <2>1. CASE UpdateCloses
      BY <1>b, <2>1 DEF UpdateCloses, Slots
    <2>2. CASE UpdateOk
      BY <1>a, <2>2 DEF UpdateOk, sessionVars, taskVars
    <2>3. ASSUME NEW slot \in {"recv", "send", "flush"}, UpdateTimesOut(slot)
          PROVE  PendingRegistered'
      BY <1>b, <2>3 DEF UpdateTimesOut, Slots
    <2> QED
      BY <1>8, <2>1, <2>2, <2>3 DEF Update
  <1>9. CASE UNCHANGED vars
    BY <1>a, <1>9 DEF vars, sessionVars, taskVars
  <1> QED
    BY <1>1, <1>2, <1>3, <1>4, <1>5, <1>6, <1>7, <1>8, <1>9 DEF Next

LEMMA HalfClosedStep ==
  TypeOK /\ ClosesLast /\ HalfClosedIsTransient /\ [Next]_vars
    => HalfClosedIsTransient'
  <1> SUFFICES ASSUME TypeOK, ClosesLast, HalfClosedIsTransient, [Next]_vars
               PROVE  HalfClosedIsTransient'
    OBVIOUS
  <1> USE DEF HalfClosedIsTransient
  <1>a. ASSUME UNCHANGED <<sendClosed, recvClosed, apc, inputErr>>
        PROVE  HalfClosedIsTransient'
    BY <1>a
  <1>b. ASSUME NEW t \in Tasks, tpc[t] # "gone", Return(t),
               UNCHANGED <<sendClosed, recvClosed, inputErr>>
        PROVE  HalfClosedIsTransient'
    <2>1. CASE t # Closer
      BY <1>a, <1>b, <2>1 DEF Return
    <2>2. CASE t = Closer
      <3>1. apc["closer"] = "rest" /\ apc' = [apc EXCEPT !["closer"] = "check"]
        BY <1>b, <2>2 DEF Return, ClosesLast
      <3>2. \A a \in Actors : a # "closer" => apc'[a] = apc[a]
        BY <3>1 DEF TypeOK
      <3> QED
        BY <1>b, <3>1, <3>2 DEF Actors
    <2> QED
      BY <2>1, <2>2
  <1>1. ASSUME NEW t \in Tasks, Poll(t) PROVE HalfClosedIsTransient'
    <2>1. PICK op \in Slots : PollClosed(t, op) \/ PollOpen(t, op)
      BY <1>1 DEF Poll
    <2>2. tpc[t] # "gone"
      BY <2>1 DEF PollClosed, PollOpen, MayCall
    <2>3. CASE PollClosed(t, op)
      BY <1>b, <2>2, <2>3 DEF PollClosed, sessionVars
    <2>4. CASE PollOpen(t, op)
      BY <1>a, <2>4 DEF PollOpen, sessionVars, actorVars
    <2> QED
      BY <2>1, <2>3, <2>4
  <1>2. ASSUME NEW t \in Tasks, PollStep(t) PROVE HalfClosedIsTransient'
    <2>1. CASE CloseReady(t)
      BY <1>b, <2>1 DEF CloseReady, sessionVars, Checked
    <2>2. CASE ~ CloseReady(t)
      BY <1>a, <1>2, <2>2
         DEF PollStep, SendReady, SendPending, RecvReady, RecvPending,
             RecvWakesSend, FlushReady, FlushPending, ClosePending, sessionVars,
             actorVars
    <2> QED
      BY <2>1, <2>2
  <1>3. ASSUME NEW t \in Tasks, Abandon(t) \/ DropStream
        PROVE  HalfClosedIsTransient'
    BY <1>a, <1>3 DEF Abandon, DropStream, sessionVars, actorVars
  <1>4. ASSUME NEW a \in Actors, ForceOrWake(a) PROVE HalfClosedIsTransient'
    <2>1. CASE ForceCloseCheck(a)
      <3>1. CASE closed
        BY <2>1, <3>1 DEF ForceCloseCheck, closed, sessionVars
      <3>2. CASE ~ closed
        BY <2>1, <3>2 DEF ForceCloseCheck, TypeOK
      <3> QED
        BY <3>1, <3>2
    <2>2. CASE ForceCloseSet(a)
      BY <2>2 DEF ForceCloseSet
    <2>3. CASE WakeNext(a)
      <3>1. CASE next[a] < 4
        BY <1>a, <2>3, <3>1 DEF WakeNext
      <3>2. CASE ~ (next[a] < 4) /\ a = "net"
        <4>1. /\ apc' = [apc EXCEPT ![a] = IF inputErr THEN "check" ELSE "rest"]
              /\ UNCHANGED <<sendClosed, recvClosed>>
          BY <2>3, <3>2 DEF WakeNext
        <4>2. \A b \in Actors : b # "net" => apc'[b] = apc[b]
          BY <3>2, <4>1 DEF TypeOK
        <4>3. apc'["net"] = IF inputErr THEN "check" ELSE "rest"
          BY <3>2, <4>1 DEF TypeOK
        <4>4. apc["net"] = "wake"
          BY <2>3, <3>2 DEF WakeNext
        <4> QED
          BY <4>1, <4>2, <4>3, <4>4 DEF Actors
      <3>3. CASE ~ (next[a] < 4) /\ a # "net"
        <4>1. /\ apc' = [apc EXCEPT ![a] = "rest"] /\ apc[a] = "wake"
              /\ UNCHANGED <<sendClosed, recvClosed, inputErr>>
          BY <2>3, <3>3 DEF WakeNext
        <4>2. \A b \in Actors : b # a => apc'[b] = apc[b]
          BY <4>1 DEF TypeOK
        <4> QED
          BY <3>3, <4>1, <4>2 DEF Actors
      <3> QED
        BY <3>1, <3>2, <3>3
    <2> QED
      BY <1>4, <2>1, <2>2, <2>3 DEF ForceOrWake
  <1>5. CASE InputOk \/ InputErr
    <2>1. apc["net"] = "rest" /\ apc' = [apc EXCEPT !["net"] = "wake"]
      BY <1>5 DEF InputOk, InputErr
    <2>2. apc'["net"] = "wake" /\ \A b \in Actors : b # "net" => apc'[b] = apc[b]
      BY <2>1 DEF TypeOK, Actors
    <2> QED
      BY <1>5, <2>1, <2>2 DEF InputOk, InputErr, Actors
  <1>6. CASE ManagerCloses
    <2>1. \A b \in Actors : b # "manager" => apc'[b] = apc[b]
      BY <1>6 DEF ManagerCloses, TypeOK
    <2> QED
      BY <1>6, <2>1 DEF ManagerCloses, sessionVars, Actors
  <1>7. CASE RoundClosed \/ CancelPoller \/ PollerDropped \/ Tick
    BY <1>a, <1>7 DEF RoundClosed, CancelPoller, PollerDropped, Tick,
                      sessionVars, actorVars
  <1>8. CASE RoundOpen \/ PollerEnds \/ UpdateOk
    <2>1. /\ \A b \in Actors : b # "poller" => apc'[b] = apc[b]
          /\ apc["poller"] \in {"rest", "update"}
      BY <1>8 DEF RoundOpen, PollerEnds, UpdateOk, TypeOK
    <2> QED
      BY <1>8, <2>1 DEF RoundOpen, PollerEnds, UpdateOk, sessionVars, Actors
  <1>9. CASE UpdateCloses
    BY <1>9 DEF UpdateCloses
  <1>10. ASSUME NEW slot \in {"recv", "send", "flush"}, UpdateTimesOut(slot)
         PROVE  HalfClosedIsTransient'
    BY <1>10 DEF UpdateTimesOut, TypeOK, Actors
  <1>11. CASE UNCHANGED vars
    BY <1>a, <1>11 DEF vars, sessionVars, actorVars
  <1>12. Tasks # {}
    BY DEF Tasks
  <1> QED
    BY <1>1, <1>2, <1>3, <1>4, <1>5, <1>6, <1>7, <1>8, <1>9, <1>10, <1>11, <1>12
       DEF Next, Update

LEMMA OpenIsPolledStep ==
  TypeOK /\ ClosesLast /\ OpenIsPolled /\ [Next]_vars => OpenIsPolled'
  <1> SUFFICES ASSUME TypeOK, ClosesLast, OpenIsPolled, [Next]_vars
               PROVE  OpenIsPolled'
    OBVIOUS
  <1> USE DEF OpenIsPolled, closed, sessionVars, taskVars, actorVars
  <1>a. ASSUME sendClosed => sendClosed', recvClosed => recvClosed',
               cancelled => cancelled',
               inPoller' = inPoller, apc'["poller"] = apc["poller"]
        PROVE  OpenIsPolled'
    BY <1>a
  <1>b. ASSUME NEW a \in Actors, NEW v, a # "poller", apc' = [apc EXCEPT ![a] = v]
        PROVE  apc'["poller"] = apc["poller"]
    BY <1>b DEF TypeOK
  <1>c. ASSUME NEW t \in Tasks, Return(t) PROVE apc'["poller"] = apc["poller"]
    BY <1>b, <1>c DEF Return, Actors
  <1>1. ASSUME NEW t \in Tasks, Poll(t) PROVE OpenIsPolled'
    BY <1>1, <1>a, <1>c DEF Poll, PollClosed, PollOpen
  <1>2. ASSUME NEW t \in Tasks, PollStep(t) PROVE OpenIsPolled'
    BY <1>2, <1>a, <1>c
       DEF PollStep, SendReady, SendPending, RecvReady, RecvPending,
           RecvWakesSend, FlushReady, FlushPending, CloseReady, ClosePending
  <1>3. ASSUME NEW t \in Tasks, Abandon(t) \/ DropStream PROVE OpenIsPolled'
    BY <1>a, <1>3 DEF Abandon, DropStream
  <1>4. ASSUME NEW a \in Actors, ForceOrWake(a) PROVE OpenIsPolled'
    <2>1. CASE ForceCloseCheck(a)
      BY <2>1 DEF ForceCloseCheck, TypeOK
    <2>2. CASE ForceCloseSet(a)
      BY <2>2 DEF ForceCloseSet
    <2>3. CASE WakeNext(a)
      <3>1. apc'["poller"] = apc["poller"] \/ apc["poller"] = "wake"
        <4>1. CASE next[a] < 4
          BY <2>3, <4>1 DEF WakeNext
        <4>2. CASE ~ (next[a] < 4)
          <5>1. \E v : apc' = [apc EXCEPT ![a] = v]
            BY <2>3, <4>2 DEF WakeNext
          <5>2. apc[a] = "wake"
            BY <2>3 DEF WakeNext
          <5> QED
            BY <1>b, <5>1, <5>2
        <4> QED
          BY <4>1, <4>2
      <3> QED
        BY <2>3, <3>1 DEF WakeNext
    <2> QED
      BY <1>4, <2>1, <2>2, <2>3 DEF ForceOrWake
  <1>5. CASE InputOk \/ InputErr \/ ManagerCloses
    <2>1. apc'["poller"] = apc["poller"]
      BY <1>5, <1>b DEF InputOk, InputErr, ManagerCloses, Actors
    <2> QED
      BY <1>5, <1>a, <2>1 DEF InputOk, InputErr, ManagerCloses
  <1>6. CASE \/ RoundClosed \/ CancelPoller \/ PollerDropped \/ RoundOpen
             \/ PollerEnds
    BY <1>6 DEF RoundClosed, CancelPoller, PollerDropped, RoundOpen,
                PollerEnds, TypeOK, Actors
  <1>7. CASE Tick
    BY <1>a, <1>7 DEF Tick
  <1>8. CASE UpdateCloses
    BY <1>8 DEF UpdateCloses
  <1>9. CASE UpdateOk
    BY <1>9 DEF UpdateOk, TypeOK, Actors
  <1>10. ASSUME NEW slot \in {"recv", "send", "flush"}, UpdateTimesOut(slot)
         PROVE  OpenIsPolled'
    BY <1>10 DEF UpdateTimesOut, TypeOK, Actors
  <1>11. CASE UNCHANGED vars
    BY <1>a, <1>11 DEF vars
  <1>12. Tasks # {}
    BY DEF Tasks
  <1> QED
    BY <1>1, <1>2, <1>3, <1>4, <1>5, <1>6, <1>7, <1>8, <1>9, <1>10, <1>11, <1>12
       DEF Next, Update

LEMMA WokenStep ==
  /\ TypeOK /\ AtStart /\ Placed /\ ClosesLast /\ PendingRegistered /\ WokenOnClose
  /\ [Next]_vars
  => WokenOnClose'
  <1> SUFFICES ASSUME TypeOK, AtStart, Placed, ClosesLast, PendingRegistered, WokenOnClose,
                      [Next]_vars
               PROVE  WokenOnClose'
    OBVIOUS
  <1> DEFINE GoOn == \A a \in Actors :
                       apc[a] = "wake" => apc'[a] = "wake" /\ next'[a] = next[a]
             Same(t) == Parked(t)' => /\ Parked(t)
                                      /\ top'[t] = top[t] /\ late'[t] = late[t]
  <1>a. ASSUME closed' => closed, timerClosed => timerClosed', GoOn,
               NEW t \in Tasks, Same(t), closed', Parked(t)'
        PROVE  Excused(t)' \/ \E a \in Actors : WillWake(a, top[t])'
    BY <1>a DEF WokenOnClose, Excused, WillWake
  <1> HIDE DEF GoOn, Same
  <1>b. ASSUME closed' => closed, timerClosed' = timerClosed, GoOn,
               \A t \in Tasks : Same(t)
        PROVE  WokenOnClose'
    BY <1>a, <1>b DEF WokenOnClose
  <1>c. ASSUME UNCHANGED <<sendClosed, recvClosed>> PROVE closed' => closed
    BY <1>c DEF closed
  <1>d. ASSUME UNCHANGED <<apc, next>> PROVE GoOn
    BY <1>d DEF GoOn
  <1>e. ASSUME UNCHANGED taskVars, NEW t \in Tasks PROVE Same(t)
    BY <1>e DEF Same, taskVars, Parked
  <1>f. ASSUME NEW a \in Actors, NEW v, apc[a] # "wake",
               apc' = [apc EXCEPT ![a] = v], UNCHANGED next
        PROVE  GoOn
    BY <1>f DEF GoOn, TypeOK
  <1>g. ASSUME NEW t \in Tasks, tpc[t] # "gone", Return(t), UNCHANGED next
        PROVE  GoOn
    <2>1. CASE t = Closer
      BY <1>f, <1>g, <2>1 DEF Return, ClosesLast, Actors
    <2>2. CASE t # Closer
      BY <1>d, <1>g, <2>2 DEF Return
    <2> QED
      BY <2>1, <2>2
  <1>h. ASSUME NEW t \in Tasks, NEW pc \in {"idle", "ret", "gone", "checked"},
               tpc' = [tpc EXCEPT ![t] = pc], woken \ {t} \subseteq woken',
               \A u \in Tasks : u # t => top'[u] = top[u] /\ late'[u] = late[u],
               NEW u \in Tasks
        PROVE  Same(u)
    <2>1. CASE u = t
      BY <1>h, <2>1 DEF Same, Parked, TypeOK
    <2>2. CASE u # t
      BY <1>h, <2>2 DEF Same, Parked, TypeOK
    <2> QED
      BY <2>1, <2>2
  <1>i. ASSUME NEW slot \in Slots, TakeAndWake(slot), UNCHANGED <<top, late>>,
               \A u \in Tasks : tpc'[u] \in {"pending", "regd"}
                                  => tpc[u] \in {"pending", "regd"},
               NEW u \in Tasks
        PROVE  /\ Same(u)
               /\ Parked(u)' => slot # top[u]
    BY <1>i, WakeKeeps DEF Same, Parked
  <1>j. ASSUME NEW t \in Tasks, NEW op \in Slots, NEW pc, Checked(t, op),
               Register(t, op, pc), closed => op \in {"flush", "close"},
               UNCHANGED <<sendClosed, recvClosed, top, woken, actorVars>>
        PROVE  WokenOnClose'
    <2> SUFFICES ASSUME closed, NEW u \in Tasks, Parked(u)'
                 PROVE  Excused(u)' \/ \E a \in Actors : WillWake(a, top[u])'
      BY <1>c, <1>j DEF WokenOnClose
    <2>1. CASE u = t
      BY <1>j, <2>1 DEF Register, Excused, Checked, TypeOK
    <2>2. CASE u # t
      <3>1. Same(u)
        BY <1>j, <2>2 DEF Same, Register, Parked, TypeOK
      <3> QED
        <4>1. GoOn /\ (timerClosed => timerClosed')
          BY <1>d, <1>j DEF actorVars
        <4>2. closed' => closed
          BY <1>c, <1>j
        <4>3. closed'
          BY <1>j DEF closed
        <4> QED
          BY <1>a, <3>1, <4>1, <4>2, <4>3
    <2> QED
      BY <2>1, <2>2
  <1> USE DEF sessionVars, actorVars
  <1>1. ASSUME NEW t \in Tasks, Poll(t) PROVE WokenOnClose'
    <2>1. PICK op \in Slots : PollClosed(t, op) \/ PollOpen(t, op)
      BY <1>1 DEF Poll
    <2>2. tpc[t] # "gone"
      BY <2>1 DEF PollClosed, PollOpen, MayCall
    <2>3. CASE PollClosed(t, op)
      <3>1. \E pc \in {"idle", "gone"} : tpc' = [tpc EXCEPT ![t] = pc]
        BY <2>3 DEF PollClosed, Return
      <3>2. \A u \in Tasks : Same(u)
        BY <1>h, <2>3, <3>1 DEF PollClosed, TypeOK
      <3> QED
        BY <1>b, <1>c, <1>g, <2>2, <2>3, <3>2 DEF PollClosed
    <2>4. CASE PollOpen(t, op)
      <3>1. \A u \in Tasks : Same(u)
        BY <1>h, <2>4 DEF PollOpen, TypeOK
      <3> QED
        BY <1>b, <1>c, <1>d, <2>4, <3>1 DEF PollOpen
    <2> QED
      BY <2>1, <2>3, <2>4
  <1>2. ASSUME NEW t \in Tasks, PollStep(t) PROVE WokenOnClose'
    <2>1. CASE SendReady(t) \/ RecvReady(t) \/ FlushReady(t)
      <3>1. \A u \in Tasks : Same(u)
        BY <1>h, <2>1 DEF SendReady, RecvReady, FlushReady
      <3> QED
        BY <1>b, <1>c, <1>d, <2>1, <3>1 DEF SendReady, RecvReady, FlushReady
    <2>2. CASE SendPending(t)
      BY <1>j, <2>2 DEF SendPending, Slots, closed
    <2>3. CASE RecvPending(t)
      BY <1>j, <2>3 DEF RecvPending, Slots, closed
    <2>4. CASE FlushPending(t)
      BY <1>j, <2>4 DEF FlushPending, Slots
    <2>5. CASE ClosePending(t)
      BY <1>j, <2>5 DEF ClosePending, Slots
    <2>6. CASE CloseReady(t)
      <3>1. \E pc \in {"idle", "gone"} : tpc' = [tpc EXCEPT ![t] = pc]
        BY <2>6 DEF CloseReady, Return
      <3>2. \A u \in Tasks : Same(u)
        BY <1>h, <2>6, <3>1 DEF CloseReady
      <3>3. tpc[t] # "gone"
        BY <2>6 DEF CloseReady, Checked
      <3> QED
        BY <1>b, <1>c, <1>g, <2>6, <3>2, <3>3 DEF CloseReady
    <2>7. CASE RecvWakesSend(t)
      <3>1. \A u \in Tasks : tpc'[u] \in {"pending", "regd"}
                              => tpc[u] \in {"pending", "regd"}
        BY <2>7 DEF RecvWakesSend, TypeOK
      <3>2. \A u \in Tasks : Same(u)
        BY <1>i, <2>7, <3>1 DEF RecvWakesSend, Slots
      <3> QED
        BY <1>b, <1>c, <1>d, <2>7, <3>2 DEF RecvWakesSend
    <2> QED
      BY <1>2, <2>1, <2>2, <2>3, <2>4, <2>5, <2>6, <2>7 DEF PollStep
  <1>3. ASSUME NEW t \in Tasks, Abandon(t) PROVE WokenOnClose'
    <2>1. \A u \in Tasks : Same(u)
      BY <1>h, <1>3 DEF Abandon, TypeOK
    <2> QED
      BY <1>b, <1>c, <1>d, <1>3, <2>1 DEF Abandon
  <1>4. CASE DropStream
    <2>1. tpc[Reader] # "gone" /\ tpc'[Closer] = tpc[Closer]
      BY <1>4, SessionAssumption DEF DropStream, Users, Tasks
    <2>2. tpc[Closer] \notin {"pending", "regd"}
      BY <2>1 DEF Placed
    <2>3. \A u \in Tasks : ~ Parked(u)'
      BY <1>4, <2>1, <2>2 DEF DropStream, Parked, Tasks
    <2> QED
      BY <2>3 DEF WokenOnClose
  <1>5. ASSUME NEW a \in Actors, ForceOrWake(a) PROVE WokenOnClose'
    <2>1. CASE ForceCloseCheck(a)
      BY <1>b, <1>c, <1>e, <1>f, <2>1 DEF ForceCloseCheck
    <2>2. CASE ForceCloseSet(a)
      <3>0. \A u \in Tasks : top[u] \in Slots /\ top'[u] = top[u]
        BY <2>2 DEF ForceCloseSet, taskVars, TypeOK
      <3>1. /\ apc'[a] = "wake" /\ next' = next /\ next[a] = 1
        BY <2>2 DEF ForceCloseSet, TypeOK, AtStart
      <3>2. \A u \in Tasks : WillWake(a, top[u])'
        BY <3>0, <3>1, Positions DEF WillWake, Slots
      <3> QED
        BY <3>2 DEF WokenOnClose
    <2>3. CASE WakeNext(a)
      <3> DEFINE slot == WakeOrder[next[a]]
      <3>1. slot \in Slots /\ next[a] \in 1 .. 4 /\ apc[a] = "wake"
        BY <2>3 DEF WakeOrder, TypeOK, Slots, WakeNext
      <3>2. TakeAndWake(slot) /\ UNCHANGED <<tpc, top, late, sendClosed, recvClosed,
                                            timerClosed>>
        BY <2>3 DEF WakeNext
      <3> SUFFICES ASSUME closed, NEW u \in Tasks, Parked(u)'
                   PROVE  Excused(u)' \/ \E b \in Actors : WillWake(b, top[u])'
        BY <3>2 DEF WokenOnClose, closed
      <3>3. Same(u) /\ slot # top[u]
        BY <1>i, <3>1, <3>2
      <3>4. Parked(u) /\ top[u] \in Slots /\ top'[u] = top[u]
        BY <3>2, <3>3 DEF Same, TypeOK
      <3>5. Excused(u) \/ \E b \in Actors : WillWake(b, top[u])
        BY <3>4 DEF WokenOnClose
      <3>6. CASE Excused(u)
        BY <3>2, <3>6 DEF Excused
      <3>7. ASSUME NEW b \in Actors, WillWake(b, top[u]) PROVE WillWake(b, top[u])'
        <4>1. CASE b # a
          BY <2>3, <3>4, <3>7, <4>1 DEF WakeNext, WillWake, TypeOK
        <4>2. CASE b = a
          <5>1. next[a] # Position(top[u])
            BY <3>1, <3>3, <3>4, Positions DEF WakeOrder, Slots
          <5>2. Position(top[u]) \in 1 .. 4
            BY <3>4, Positions DEF Slots
          <5>3. next[a] + 1 <= Position(top[u]) /\ next[a] < 4
            BY <3>1, <3>7, <4>2, <5>1, <5>2 DEF WillWake
          <5>4. apc' = apc
            BY <2>3, <5>3 DEF WakeNext
          <5>5. next[a] \in 1 .. 4 /\ next[a] # 4
            BY <3>1, <5>3 DEF TypeOK
          <5>6. next' = [next EXCEPT ![a] = IF @ = 4 THEN 1 ELSE @ + 1]
            BY <2>3 DEF WakeNext
          <5>7. next'[a] = next[a] + 1
            BY <5>5, <5>6 DEF TypeOK
          <5> QED
            BY <3>1, <3>4, <4>2, <5>3, <5>4, <5>7 DEF WillWake, TypeOK
        <4> QED
          BY <4>1, <4>2
      <3> QED
        BY <3>5, <3>6, <3>7
    <2> QED
      BY <1>5, <2>1, <2>2, <2>3 DEF ForceOrWake
  <1>6. CASE InputOk
    BY <1>6, <1>b, <1>c, <1>e, <1>f DEF InputOk, Actors
  <1>7. CASE InputErr
    <2>1. closed' => closed
      BY <1>7 DEF InputErr, closed, ClosesLast
    <2> QED
      BY <1>7, <1>b, <1>e, <1>f, <2>1 DEF InputErr, Actors
  <1>8. CASE ManagerCloses
    BY <1>8, <1>b, <1>c, <1>e, <1>f DEF ManagerCloses, Actors
  <1>9. CASE RoundClosed \/ CancelPoller \/ PollerDropped \/ Tick
    BY <1>9, <1>b, <1>c, <1>d, <1>e DEF RoundClosed, CancelPoller,
                                        PollerDropped, Tick
  <1>10. CASE RoundOpen \/ PollerEnds
    BY <1>10, <1>b, <1>c, <1>e, <1>f DEF RoundOpen, PollerEnds, Actors
  <1>11. CASE UpdateCloses
    <2>1. ASSUME NEW u \in Tasks, Parked(u)' PROVE top[u] # "close"
      BY <1>11, <1>i, <2>1 DEF UpdateCloses, Slots
    <2> QED
      BY <1>11, <2>1 DEF UpdateCloses, WokenOnClose, Excused
  <1>12. ASSUME NEW slot \in {"recv", "send", "flush"}, UpdateTimesOut(slot)
         PROVE  WokenOnClose'
    <2>1. closed' => closed
      BY <1>12 DEF UpdateTimesOut, closed, ClosesLast
    <2>2. \A u \in Tasks : Same(u)
      BY <1>12, <1>i DEF UpdateTimesOut, Slots
    <2> QED
      BY <1>12, <1>b, <1>f, <2>1, <2>2 DEF UpdateTimesOut, Actors
  <1>13. CASE UpdateOk
    BY <1>13, <1>b, <1>c, <1>e, <1>f DEF UpdateOk, Actors
  <1>14. CASE UNCHANGED vars
    BY <1>14, <1>b, <1>c, <1>d, <1>e DEF vars
  <1> QED
    BY <1>1, <1>2, <1>3, <1>4, <1>5, <1>6, <1>7, <1>8, <1>9, <1>10, <1>11, <1>12,
       <1>13, <1>14
       DEF Next, Update
-----------------------------------------------------------------------------
(* An actor on its way to the slot of a task that stays parked stays on    *)
(* its way: it passes the slot only by waking the task.                    *)
LEMMA StaysReached ==
  ASSUME TypeOK, ClosesLast, PendingRegistered, [Next]_vars,
         NEW u \in Tasks, Parked(u), Parked(u)', top'[u] = top[u],
         NEW b \in Actors, WillWake(b, top[u])
  PROVE  WillWake(b, top[u])'
  <1> USE DEF WillWake, sessionVars, actorVars
  <1>0. apc[b] = "wake" /\ next[b] \in 1 .. 4 /\ top[u] \in Slots
    BY DEF TypeOK
  <1>1. ASSUME UNCHANGED <<apc, next>> PROVE WillWake(b, top[u])'
    BY <1>1
  <1>2. ASSUME NEW a \in Actors, NEW v, apc[a] # "wake",
               apc' = [apc EXCEPT ![a] = v], UNCHANGED next
        PROVE  WillWake(b, top[u])'
    BY <1>2 DEF TypeOK
  <1>3. ASSUME NEW t \in Tasks, tpc[t] # "gone", Return(t), UNCHANGED next
        PROVE  WillWake(b, top[u])'
    <2>1. CASE t = Closer
      BY <1>2, <1>3, <2>1 DEF Return, ClosesLast, Actors
    <2>2. CASE t # Closer
      BY <1>1, <1>3, <2>2 DEF Return
    <2> QED
      BY <2>1, <2>2
  <1>4. ASSUME NEW t \in Tasks, Poll(t) \/ PollStep(t) \/ Abandon(t)
        PROVE  WillWake(b, top[u])'
    <2>1. CASE CloseReady(t)
      BY <1>3, <2>1 DEF CloseReady, Checked
    <2>2. ASSUME NEW op \in Slots, PollClosed(t, op) PROVE WillWake(b, top[u])'
      BY <1>3, <2>2 DEF PollClosed, MayCall
    <2>3. ASSUME NEW op \in Slots, PollOpen(t, op) PROVE WillWake(b, top[u])'
      BY <1>1, <2>3 DEF PollOpen
    <2>4. CASE Abandon(t) \/ (PollStep(t) /\ ~ CloseReady(t))
      BY <1>1, <2>4
         DEF Abandon, PollStep, SendReady, SendPending, RecvReady, RecvPending,
             RecvWakesSend, FlushReady, FlushPending, ClosePending
    <2> QED
      BY <1>4, <2>1, <2>2, <2>3, <2>4 DEF Poll
  <1>5. ASSUME NEW a \in Actors, WakeNext(a) PROVE WillWake(b, top[u])'
    <2>1. CASE b # a
      BY <1>0, <1>5, <2>1 DEF WakeNext, TypeOK
    <2>2. CASE b = a
      <3> DEFINE slot == WakeOrder[next[a]]
      <3>1. slot \in Slots /\ next[a] \in 1 .. 4
        BY DEF WakeOrder, TypeOK, Slots
      <3>2. slot # top[u]
        BY <1>5, <3>1, WakeKeeps DEF WakeNext, Parked
      <3>3. next[a] # Position(top[u]) /\ Position(top[u]) \in 1 .. 4
        BY <1>0, <3>1, <3>2, Positions DEF WakeOrder, Slots
      <3>4. next[a] + 1 <= Position(top[u]) /\ next[a] < 4 /\ next[a] # 4
        BY <2>2, <3>1, <3>3
      <3>5. apc' = apc /\ next'[a] = next[a] + 1
        BY <1>5, <3>4 DEF WakeNext, TypeOK
      <3> QED
        BY <1>0, <2>2, <3>4, <3>5
    <2> QED
      BY <2>1, <2>2
  <1>6. ASSUME NEW a \in Actors, ForceCloseCheck(a) \/ ForceCloseSet(a)
        PROVE  WillWake(b, top[u])'
    BY <1>2, <1>6 DEF ForceCloseCheck, ForceCloseSet
  <1>7. CASE InputOk \/ InputErr \/ ManagerCloses \/ RoundOpen \/ PollerEnds
    BY <1>2, <1>7 DEF InputOk, InputErr, ManagerCloses, RoundOpen, PollerEnds,
                      Actors
  <1>8. CASE Update
    BY <1>2, <1>8 DEF Update, UpdateCloses, UpdateOk, UpdateTimesOut, Actors
  <1>9. CASE \/ DropStream \/ RoundClosed \/ CancelPoller \/ PollerDropped
             \/ Tick \/ UNCHANGED vars
    BY <1>1, <1>9 DEF DropStream, RoundClosed, CancelPoller, PollerDropped,
                      Tick, vars
  <1> QED
    BY <1>4, <1>5, <1>6, <1>7, <1>8, <1>9 DEF Next, ForceOrWake

(* A task is parked because it was before, or because it has just found    *)
(* nothing of what it waits for, under the lock it registers under.        *)
LEMMA ParksUnserved ==
  ASSUME TypeOK, Placed, [Next]_vars, NEW u \in Tasks, Parked(u)'
  PROVE  (Parked(u) /\ top'[u] = top[u]) \/ ~ Served(u)'
  <1> SUFFICES ASSUME ~ (Parked(u) /\ top'[u] = top[u]) PROVE ~ Served(u)'
    OBVIOUS
  <1> USE DEF Parked
  <1>1. ASSUME \A t \in Tasks : tpc'[t] \in {"pending", "regd"} =>
                  /\ tpc[t] \in {"pending", "regd"}
                  /\ t \in woken => t \in woken'
                  /\ top'[t] = top[t]
        PROVE  FALSE
    BY <1>1
  <1>2. ASSUME NEW t \in Tasks, NEW pc \in {"idle", "ret", "gone", "checked"},
               tpc' = [tpc EXCEPT ![t] = pc], woken \ {t} \subseteq woken',
               \A r \in Tasks : r # t => top'[r] = top[r]
        PROVE  FALSE
    BY <1>1, <1>2 DEF TypeOK
  <1>3. ASSUME NEW t \in Tasks, NEW op \in Slots, Checked(t, op),
               Register(t, op, "pending") \/ Register(t, op, "regd"),
               UNCHANGED <<top, woken, waitsnd, avail>>,
               ~ (op = "recv" /\ avail > 0), ~ (op = "send" /\ waitsnd < Wnd),
               ~ (op = "flush" /\ waitsnd = 0)
        PROVE  ~ Served(u)'
    <2>1. CASE u = t
      BY <1>3, <2>1 DEF Served, Checked
    <2>2. CASE u # t
      BY <1>3, <2>2 DEF Register, TypeOK
    <2> QED
      BY <2>1, <2>2
  <1>4. ASSUME NEW t \in Tasks, Poll(t) PROVE FALSE
    <2>1. PICK op \in Slots : PollClosed(t, op) \/ PollOpen(t, op)
      BY <1>4 DEF Poll
    <2>2. CASE PollClosed(t, op)
      <3>1. \E pc \in {"idle", "gone"} : tpc' = [tpc EXCEPT ![t] = pc]
        BY <2>2 DEF PollClosed, Return
      <3> QED
        BY <1>2, <2>2, <3>1 DEF PollClosed
    <2>3. CASE PollOpen(t, op)
      BY <1>2, <2>3 DEF PollOpen, TypeOK
    <2> QED
      BY <2>1, <2>2, <2>3
  <1>5. ASSUME NEW t \in Tasks, PollStep(t) PROVE ~ Served(u)'
    <2>1. CASE SendReady(t) \/ RecvReady(t) \/ FlushReady(t)
      BY <1>2, <2>1 DEF SendReady, RecvReady, FlushReady
    <2>2. CASE CloseReady(t)
      <3>1. \E pc \in {"idle", "gone"} : tpc' = [tpc EXCEPT ![t] = pc]
        BY <2>2 DEF CloseReady, Return
      <3> QED
        BY <1>2, <2>2, <3>1 DEF CloseReady
    <2>3. CASE SendPending(t)
      BY <1>3, <2>3, SessionAssumption DEF SendPending, Slots, TypeOK
    <2>4. CASE RecvPending(t)
      BY <1>3, <2>4 DEF RecvPending, Slots
    <2>5. CASE FlushPending(t)
      BY <1>3, <2>5 DEF FlushPending, Slots
    <2>6. CASE ClosePending(t)
      BY <1>3, <2>6 DEF ClosePending, Slots
    <2>7. CASE RecvWakesSend(t)
      BY <1>1, <2>7 DEF RecvWakesSend, TakeAndWake, TypeOK
    <2> QED
      BY <1>5, <2>1, <2>2, <2>3, <2>4, <2>5, <2>6, <2>7 DEF PollStep
  <1>6. ASSUME NEW t \in Tasks, Abandon(t) PROVE FALSE
    BY <1>2, <1>6 DEF Abandon
  <1>7. CASE DropStream
    BY <1>7 DEF DropStream
  <1>8. ASSUME UNCHANGED <<tpc, top>>, woken \subseteq woken' PROVE FALSE
    BY <1>1, <1>8
  <1>9. ASSUME NEW a \in Actors, ForceOrWake(a) PROVE FALSE
    BY <1>8, <1>9 DEF ForceOrWake, ForceCloseCheck, ForceCloseSet, WakeNext,
                      TakeAndWake, taskVars
  <1>10. CASE \/ InputOk \/ InputErr \/ ManagerCloses \/ RoundClosed
              \/ CancelPoller \/ PollerDropped \/ RoundOpen
                \/ PollerEnds \/ Tick
    BY <1>8, <1>10 DEF InputOk, InputErr, ManagerCloses, RoundClosed,
                       CancelPoller, PollerDropped, RoundOpen,
                       PollerEnds, Tick, taskVars
  <1>11. CASE Update
    BY <1>8, <1>11 DEF Update, UpdateCloses, UpdateOk, UpdateTimesOut,
                       TakeAndWake,
                       taskVars
  <1>12. CASE UNCHANGED vars
    BY <1>8, <1>12 DEF vars, taskVars
  <1> QED
    BY <1>4, <1>5, <1>6, <1>7, <1>9, <1>10, <1>11, <1>12 DEF Next

(* Only a datagram that kcp takes brings what tasks wait for.              *)
LEMMA OnlyInputServes ==
  ASSUME TypeOK, [Next]_vars, ~ InputOk
  PROVE  avail' <= avail /\ waitsnd' >= waitsnd
  <1> USE SessionAssumption DEF TypeOK
  <1>1. ASSUME UNCHANGED <<waitsnd, avail>> PROVE avail' <= avail /\ waitsnd' >= waitsnd
    BY <1>1
  <1>2. ASSUME NEW t \in Tasks, SendReady(t) \/ RecvReady(t)
        PROVE  avail' <= avail /\ waitsnd' >= waitsnd
    BY <1>2 DEF SendReady, RecvReady
  <1>3. ASSUME NEW t \in Tasks, Poll(t) \/ PollStep(t) \/ Abandon(t),
               ~ SendReady(t), ~ RecvReady(t)
        PROVE  UNCHANGED <<waitsnd, avail>>
    BY <1>3 DEF Poll, PollClosed, PollOpen, PollStep, SendPending, RecvPending,
                RecvWakesSend, FlushReady, FlushPending, CloseReady, ClosePending,
                Abandon, sessionVars
  <1>4. ASSUME NEW a \in Actors, ForceOrWake(a) PROVE UNCHANGED <<waitsnd, avail>>
    BY <1>4 DEF ForceOrWake, ForceCloseCheck, ForceCloseSet, WakeNext, sessionVars
  <1>5. CASE \/ DropStream \/ InputErr \/ ManagerCloses \/ RoundClosed
             \/ CancelPoller \/ PollerDropped \/ RoundOpen
             \/ PollerEnds \/ Tick \/ Update \/ UNCHANGED vars
    BY <1>1, <1>5 DEF DropStream, InputErr, ManagerCloses, RoundClosed,
                      CancelPoller, PollerDropped, RoundOpen,
                      PollerEnds, Tick, Update, UpdateCloses, UpdateOk,
                      UpdateTimesOut,
                      vars, sessionVars
  <1> QED
    BY <1>1, <1>2, <1>3, <1>4, <1>5 DEF Next

LEMMA ServedStep ==
  /\ TypeOK /\ AtStart /\ Placed /\ ClosesLast /\ PendingRegistered /\ ServedIsWoken
  /\ [Next]_vars
  => ServedIsWoken'
  <1> SUFFICES ASSUME TypeOK, AtStart, Placed, ClosesLast, PendingRegistered,
                      ServedIsWoken, [Next]_vars,
                      NEW u \in Tasks, Parked(u)', Served(u)'
               PROVE  \E a \in Actors : WillWake(a, top[u])'
    BY DEF ServedIsWoken
  <1>1. Parked(u) /\ top'[u] = top[u] /\ top[u] \in Slots
    BY ParksUnserved DEF TypeOK
  <1>2. CASE InputOk
    <2>1. apc'["net"] = "wake" /\ next'["net"] = 1 /\ "net" \in Actors
      BY <1>2 DEF InputOk, TypeOK, AtStart, Actors
    <2> QED
      BY <1>1, <2>1, Positions DEF WillWake, Slots
  <1>3. CASE ~ InputOk
    <2>1. Served(u)
      <3>1. /\ avail \in Nat /\ avail' \in Nat /\ waitsnd \in Nat /\ waitsnd' \in Nat
            /\ Wnd \in Nat
        BY TypeStep, SessionAssumption DEF TypeOK
      <3>2. avail' <= avail /\ waitsnd' >= waitsnd
        BY <1>3, OnlyInputServes
      <3> QED
        BY <1>1, <3>1, <3>2 DEF Served
    <2>2. PICK b \in Actors : WillWake(b, top[u])
      BY <1>1, <2>1 DEF ServedIsWoken
    <2> QED
      BY <1>1, <2>2, StaysReached
  <1> QED
    BY <1>2, <1>3
-----------------------------------------------------------------------------
LEMMA Inductive == Spec => []IInv
  <1>1. IInv /\ [Next]_vars => IInv'
    BY TypeStep, PlacedStep, ClosesLastStep, RegisteredStep, ServedStep,
    WokenStep,
       HalfClosedStep, OpenIsPolledStep, AtStartStep
       DEF IInv
  <1> QED
    BY Initially, <1>1, PTL DEF Spec

(* Whatever the window, the timeouts and the length of the run, the        *)
(* session, its tasks and its actors keep their types: the window is never *)
(* overrun.                                                                *)
THEOREM TypesHold == Spec => []TypeOK
  <1>1. IInv => TypeOK
    BY DEF IInv
  <1> QED
    BY Inductive, <1>1, PTL

(* No poll function and no try_wake_* loses the waker of a parked task.    *)
THEOREM NoWakerLost == Spec => []PendingRegistered
  <1>1. IInv => PendingRegistered
    BY DEF IInv
  <1> QED
    BY Inductive, <1>1, PTL

(* No wake-up is lost: however the poll functions, the datagrams and the    *)
(* try_wake_* interleave, a task never sleeps on what it waits for, unless *)
(* somebody is about to wake it.                                           *)
THEOREM NoWakeUpLost == Spec => []ServedIsWoken
  <1>1. IInv => ServedIsWoken
    BY DEF IInv
  <1> QED
    BY Inductive, <1>1, PTL

(* However force_close, update, poll_input and the poll functions          *)
(* interleave, a close wakes every parked task but those of Excused.       *)
THEOREM CloseWakesTheParked == Spec => []WokenOnClose
  <1>1. IInv => WokenOnClose
    BY DEF IInv
  <1> QED
    BY Inductive, <1>1, PTL

(* No session stays with its receive half closed and its send half open.   *)
THEOREM NeverHalfClosed == Spec => []HalfClosedIsTransient
  <1>1. IInv => HalfClosedIsTransient
    BY DEF IInv
  <1> QED
    BY Inductive, <1>1, PTL

(* Neither a round nor the orderly end of the poller forgets a session     *)
(* that is open: only a poller that was cancelled does.                    *)
THEOREM OpenSessionsArePolled == Spec => []OpenIsPolled
  <1>1. IInv => OpenIsPolled
    BY DEF IInv
  <1> QED
    BY Inductive, <1>1, PTL
-----------------------------------------------------------------------------
(* A round that has seen the session open still has it in its list.        *)
UpdatesKept == apc["poller"] = "update" => inPoller

(* How a step changes the closed flags and the poller's hold.              *)
LEMMA FlagsStay == [Next]_vars => (closed => closed')
  <1> SUFFICES ASSUME [Next]_vars PROVE closed => closed'
    OBVIOUS
  <1> USE DEF closed, sessionVars
  <1>1. ASSUME NEW t \in Tasks, Poll(t) \/ PollStep(t) \/ Abandon(t)
        PROVE  UNCHANGED <<sendClosed, recvClosed>>
    BY <1>1 DEF Poll, PollClosed, PollOpen, PollStep, SendReady, SendPending,
                RecvReady,
                RecvPending, RecvWakesSend, FlushReady, FlushPending, CloseReady,
                ClosePending, Abandon
  <1>2. ASSUME NEW a \in Actors, ForceOrWake(a) PROVE closed => closed'
    BY <1>2 DEF ForceOrWake, ForceCloseCheck, ForceCloseSet, WakeNext
  <1>3. CASE \/ DropStream \/ InputOk \/ InputErr \/ ManagerCloses
             \/ RoundClosed \/ CancelPoller \/ PollerDropped
             \/ RoundOpen \/ Update \/ PollerEnds \/ Tick \/ UNCHANGED vars
    BY <1>3 DEF DropStream, InputOk, InputErr, ManagerCloses, RoundClosed,
                CancelPoller, PollerDropped, RoundOpen,
                Update, UpdateCloses, UpdateOk, UpdateTimesOut, PollerEnds,
                Tick, vars
  <1> QED
    BY <1>1, <1>2, <1>3 DEF Next

LEMMA HoldStep ==
  ASSUME TypeOK, ClosesLast, UpdatesKept, [Next]_vars, ~ PollerDropped
  PROVE  /\ UpdatesKept'
         /\ Kept => Kept' \/ closed'
         /\ Kept' => Kept
  <1> DEFINE Goal == /\ UpdatesKept'
                     /\ Kept => Kept' \/ closed'
                     /\ Kept' => Kept
  <1> USE DEF UpdatesKept, Kept, TypeOK
  <1>a. ASSUME inPoller' = inPoller, apc'["poller"] = apc["poller"] PROVE Goal
    BY <1>a
  <1>b. ASSUME NEW a \in Actors, NEW v, a # "poller", apc' = [apc EXCEPT ![a] = v],
               inPoller' = inPoller
        PROVE  Goal
    BY <1>a, <1>b
  <1>c. ASSUME NEW t \in Tasks, Return(t), inPoller' = inPoller PROVE Goal
    BY <1>a, <1>b, <1>c DEF Return, Actors
  <1> USE DEF actorVars
  <1>1. ASSUME NEW t \in Tasks, Poll(t) \/ PollStep(t) \/ Abandon(t) PROVE Goal
    BY <1>1, <1>a, <1>c
       DEF Poll, PollClosed, PollOpen, PollStep, SendReady, SendPending,
           RecvReady,
           RecvPending, RecvWakesSend, FlushReady, FlushPending, CloseReady,
           ClosePending, Abandon
  <1>2. ASSUME NEW a \in Actors, ForceCloseCheck(a) PROVE Goal
    <2>1. CASE a # "poller"
      BY <1>2, <1>b, <2>1 DEF ForceCloseCheck
    <2>2. CASE a = "poller" /\ closed
      BY <1>2, <2>2 DEF ForceCloseCheck, closed, sessionVars
    <2>3. CASE a = "poller" /\ ~ closed
      BY <1>2, <2>3 DEF ForceCloseCheck
    <2> QED
      BY <2>1, <2>2, <2>3
  <1>3. ASSUME NEW a \in Actors, ForceCloseSet(a) PROVE Goal
    BY <1>3 DEF ForceCloseSet, closed
  <1>4. ASSUME NEW a \in Actors, WakeNext(a) PROVE Goal
    <2>1. CASE next[a] < 4
      BY <1>4, <1>a, <2>1 DEF WakeNext
    <2>2. CASE ~ (next[a] < 4) /\ a # "poller"
      <3>1. \E v : apc' = [apc EXCEPT ![a] = v]
        BY <1>4, <2>2 DEF WakeNext
      <3> QED
        BY <1>4, <1>b, <2>2, <3>1 DEF WakeNext
    <2>3. CASE ~ (next[a] < 4) /\ a = "poller"
      BY <1>4, <2>3 DEF WakeNext
    <2> QED
      BY <2>1, <2>2, <2>3
  <1>5. CASE InputOk \/ InputErr \/ ManagerCloses
    BY <1>5, <1>b DEF InputOk, InputErr, ManagerCloses, Actors
  <1>6. CASE DropStream \/ Tick \/ UNCHANGED vars
    BY <1>6, <1>a DEF DropStream, Tick, vars
  <1>7. CASE RoundClosed \/ RoundOpen \/ PollerEnds
    BY <1>7 DEF RoundClosed, RoundOpen, PollerEnds, Actors, closed, sessionVars
  <1>9. CASE CancelPoller
    BY <1>9, <1>a DEF CancelPoller
  <1>8. CASE Update
    BY <1>8 DEF Update, UpdateCloses, UpdateOk, UpdateTimesOut, Actors, closed
  <1> QED
    BY <1>1, <1>2, <1>3, <1>4, <1>5, <1>6, <1>7, <1>8, <1>9 DEF Next, ForceOrWake

LEMMA DropStep ==
  ASSUME UpdatesKept, PollerDropped
  PROVE  /\ Kept /\ ~ Kept' /\ cancelled
         /\ UNCHANGED <<closed, cancelled>>
         /\ UpdatesKept'
  BY DEF PollerDropped, UpdatesKept, Kept, closed, sessionVars

(* Only the canceler cancels, and nothing undoes it.                       *)
LEMMA CancelStep ==
  ASSUME [Next]_vars, ~ CancelPoller
  PROVE  UNCHANGED cancelled
  <1> USE DEF actorVars
  <1>1. ASSUME NEW t \in Tasks, Poll(t) \/ PollStep(t) \/ Abandon(t)
        PROVE  UNCHANGED cancelled
    BY <1>1 DEF Poll, PollClosed, PollOpen, PollStep, SendReady, SendPending,
                RecvReady, RecvPending, RecvWakesSend, FlushReady, FlushPending,
                CloseReady, ClosePending, Abandon
  <1>2. ASSUME NEW a \in Actors, ForceOrWake(a) PROVE UNCHANGED cancelled
    BY <1>2 DEF ForceOrWake, ForceCloseCheck, ForceCloseSet, WakeNext
  <1>3. CASE \/ DropStream \/ InputOk \/ InputErr \/ ManagerCloses
             \/ RoundClosed \/ PollerDropped \/ RoundOpen \/ Update
             \/ PollerEnds \/ Tick \/ UNCHANGED vars
    BY <1>3 DEF DropStream, InputOk, InputErr, ManagerCloses, RoundClosed,
                PollerDropped, RoundOpen, Update, UpdateCloses, UpdateOk,
                UpdateTimesOut, PollerEnds, Tick, vars
  <1> QED
    BY <1>1, <1>2, <1>3 DEF Next

(* Whoever closes the session, in however many steps, the poller only ever *)
(* closes what it keeps and lets go what is closed; it lets an open        *)
(* session go only when it was cancelled and its task has been dropped.    *)
THEOREM SessionKeepsCustody == Spec => KeepsCustody
  <1>1. Init => UpdatesKept
    BY DEF Init, UpdatesKept, Actors
  <1>2. IInv /\ UpdatesKept /\ [Next]_vars => UpdatesKept'
    BY HoldStep, DropStep DEF IInv
  <1>3. IInv /\ UpdatesKept /\ [Next]_vars => [custody!Next]_(custody!vars)
    <2> SUFFICES ASSUME IInv, UpdatesKept, [Next]_vars
                 PROVE  [custody!Next]_(custody!vars)
      OBVIOUS
    <2> DEFINE k == IF Kept THEN {Name} ELSE {}
               c == IF closed THEN {Name} ELSE {}
    <2>1. CASE PollerDropped
      <3>1. custody!Drop
        BY <2>1, DropStep DEF custody!Drop
      <3> QED
        BY <3>1 DEF custody!Next
    <2>2. CASE CancelPoller
      <3>1. cancelled' /\ UNCHANGED <<closed, Kept>>
        BY <2>2 DEF CancelPoller, Kept, closed, sessionVars
      <3>2. custody!Cancel
        BY <2>2, <3>1 DEF custody!Cancel, CancelPoller
      <3> QED
        BY <3>2 DEF custody!Next
    <2>3. CASE ~ PollerDropped /\ ~ CancelPoller
      <3>1. /\ UNCHANGED cancelled
            /\ closed => closed'
            /\ Kept => Kept' \/ closed'
            /\ Kept' => Kept
        BY <2>3, FlagsStay, HoldStep, CancelStep DEF IInv
      <3>2. CASE Kept' <=> Kept
        <4>1. k' = k /\ (c' = c \/ c' = c \cup {Name})
          BY <3>1, <3>2
        <4>2. CASE c' = c
          BY <3>1, <4>1, <4>2 DEF custody!vars
        <4>3. CASE c' = c \cup {Name}
          <5>1. custody!CloseOthers({Name})
            BY <3>1, <4>1, <4>3 DEF custody!CloseOthers
          <5> QED
            BY <5>1 DEF custody!Next
        <4> QED
          BY <4>1, <4>2, <4>3
      <3>3. CASE Kept /\ ~ Kept'
        <4>1. k = {Name} /\ k' = {} /\ c' = c \cup {Name}
          BY <3>1, <3>3
        <4>2. custody!LetGo({Name})
          BY <3>1, <4>1 DEF custody!LetGo
        <4> QED
          BY <4>1, <4>2 DEF custody!Next
      <3> QED
        BY <3>1, <3>2, <3>3
    <2> QED
      BY <2>1, <2>2, <2>3
  <1> QED
    BY <1>1, <1>2, <1>3, Inductive, PTL DEF Spec, KeepsCustody
-----------------------------------------------------------------------------
(* kcp never gets a message of 128 segments or more, loses nothing of a    *)
(* shorter one, and of a longer one gets as much as it takes: 127          *)
(* segments, the last one short, so that whole segments are left to send.  *)
THEOREM CutFits ==
  ASSUME NEW len \in Nat, NEW mss \in Nat \ {0}
  PROVE  /\ Count(Cut(len, mss), mss) < WndRcv
         /\ Count(len, mss) < WndRcv => Cut(len, mss) = len
         /\ Count(len, mss) >= WndRcv =>
              /\ Count(Cut(len, mss), mss) = WndRcv - 1
              /\ Cut(len, mss) \in 1 .. len
              /\ len - Cut(len, mss) = mss * (Count(len, mss) - (WndRcv - 1))
  <1> DEFINE c == Count(len, mss)
             k == c - (WndRcv - 1)
  <1>1. c \in Int /\ c * mss <= len + mss - 1 /\ len + mss - 1 < (c + 1) * mss
    BY QuotientBounds DEF Count
  <1>2. CASE c < WndRcv
    BY <1>1, <1>2 DEF Cut, WndRcv
  <1>3. CASE c >= WndRcv
    <2>1. k \in Nat \ {0} /\ mss * k \in Nat
      BY <1>1, <1>3 DEF WndRcv
    <2>2. mss * k + (WndRcv - 1) * mss = c * mss /\ c * mss \in Int
      BY <1>1 DEF WndRcv
    <2>3. c * mss >= 128 * mss
      BY <1>1, <1>3 DEF WndRcv
    <2>4. len > mss
      BY <1>1, <2>2, <2>3
    <2>5. Cut(len, mss) = len - mss * k
      BY <1>1, <1>3, <2>4 DEF Cut, WndRcv
    <2> HIDE DEF k
    <2>6. len - mss * k \in 1 .. len
      BY <1>1, <2>1, <2>2 DEF WndRcv
    <2>7. Count(len - mss * k, mss) = ((len + mss - 1) - mss * k) \div mss
      BY <2>1 DEF Count
    <2>8. Count(len - mss * k, mss) = c - k
      BY <2>1, <2>7, Shifted DEF Count
    <2>9. c - k = WndRcv - 1
      BY <1>1 DEF k, WndRcv
    <2>10. len - Cut(len, mss) = mss * k /\ Cut(len, mss) \in 1 .. len
      BY <2>1, <2>5, <2>6
    <2>11. Count(Cut(len, mss), mss) = WndRcv - 1
      BY <2>5, <2>8, <2>9
    <2>12. k = Count(len, mss) - (WndRcv - 1)
      BY DEF k
    <2>13. len - Cut(len, mss) = mss * (Count(len, mss) - (WndRcv - 1))
      BY <2>10, <2>12, Zenon
    <2>14. ~ Count(len, mss) < WndRcv /\ WndRcv - 1 < WndRcv
      BY <1>1, <1>3 DEF WndRcv
    <2> QED
      BY <2>10, <2>11, <2>13, <2>14, Zenon
  <1> QED
    BY <1>1, <1>2, <1>3 DEF WndRcv

(* A caller that sends what is left again and again, as write_all does,    *)
(* has sent the whole message after one call for every 127 segments and    *)
(* one for the rest: rest[n] is what is left after n calls.                *)
THEOREM WholeMessageGoes ==
  ASSUME NEW mss \in Nat \ {0}, NEW rest \in [Nat -> Nat],
         \A n \in Nat : rest[n + 1] = rest[n] - Cut(rest[n], mss)
  PROVE  \A n \in Nat : Count(rest[0], mss) <= n * (WndRcv - 1) => rest[n] = 0
  <1> DEFINE c(n) == Count(rest[n], mss)
             S == {n \in Nat : rest[n] = 0 \/ c(n) + n * (WndRcv - 1) <= c(0)}
  <1>1. \A n \in Nat : rest[n] \in Nat /\ c(n) \in Int
    BY QuotientBounds DEF Count
  <1>2. 0 \in S
    BY <1>1 DEF WndRcv
  <1>3. ASSUME NEW n \in S PROVE n + 1 \in S
    <2>1. n \in Nat /\ n + 1 \in Nat /\ (rest[n] = 0 \/ c(n) + n * 127 <= c(0))
      BY DEF WndRcv
    <2>2. CASE rest[n] = 0
      BY <1>1, <2>1, <2>2 DEF Cut
    <2>3. CASE rest[n] # 0 /\ c(n) < 128
      <3>1. Cut(rest[n], mss) = rest[n]
        BY <1>1, <2>1, <2>3, CutFits DEF WndRcv
      <3> QED
        BY <1>1, <2>1, <3>1
    <2>4. CASE rest[n] # 0 /\ c(n) >= 128
      <3> DEFINE j == c(n) - 127
      <3>1. rest[n] - Cut(rest[n], mss) = mss * j
        BY <1>1, <2>1, <2>4, CutFits DEF WndRcv
      <3>2. rest[n + 1] = mss * j /\ j \in Nat
        BY <1>1, <2>1, <2>4, <3>1
      <3>3. Count(mss * j, mss) = j
        <4> HIDE DEF j
        <4>1. j * mss = mss * j /\ (j + 1) * mss = mss * j + mss /\ mss * j \in Nat
          BY <3>2
        <4>2. /\ mss * j + mss - 1 \in Int /\ j \in Int
              /\ j * mss <= mss * j + mss - 1 /\ mss * j + mss - 1 < (j + 1) * mss
          BY <3>2, <4>1
        <4> QED
          BY <4>2, Quotient DEF Count
      <3>4. c(n + 1) + (n + 1) * 127 <= c(0)
        <4>1. c(n + 1) = j
          BY <3>2, <3>3
        <4> QED
          BY <1>1, <2>1, <2>4, <4>1
      <3> QED
        BY <2>1, <3>4 DEF WndRcv
    <2> QED
      BY <1>1, <2>1, <2>2, <2>3, <2>4
  <1>4. S = Nat
    <2>1. S \in SUBSET Nat
      OBVIOUS
    <2> HIDE DEF S
    <2> QED
      BY <1>2, <1>3, <2>1, Induction
  <1>5. ASSUME NEW n \in Nat, rest[n] # 0 PROVE c(n) >= 1
    <2>1. rest[n] + mss - 1 \in Int /\ rest[n] + mss - 1 >= mss
      BY <1>1, <1>5
    <2>2. c(n) \in Int /\ rest[n] + mss - 1 < (c(n) + 1) * mss
      BY <2>1, QuotientBounds DEF Count
    <2> HIDE DEF c
    <2>3. ASSUME c(n) + 1 <= 1 PROVE FALSE
      <3>1. (c(n) + 1) * mss <= mss
        BY <2>2, <2>3
      <3> QED
        BY <2>1, <2>2, <3>1
    <2> QED
      BY <2>2, <2>3
  <1>6. ASSUME NEW n \in Nat, c(0) <= n * 127, rest[n] # 0 PROVE FALSE
    <2>0. n \in S
      <3> HIDE DEF S
      <3> QED
        BY <1>4
    <2>1. c(n) + n * 127 <= c(0)
      BY <1>6, <2>0 DEF WndRcv
    <2>2. c(n) \in Int /\ c(0) \in Int /\ c(n) >= 1
      BY <1>1, <1>5, <1>6
    <2> HIDE DEF c
    <2> QED
      BY <1>6, <2>1, <2>2
  <1> QED
    BY <1>6 DEF WndRcv
=============================================================================
