------------------------------ MODULE Session ------------------------------
(***************************************************************************)
(* One kcp session, SafeKcp of src/poller.rs: the state under its mutex    *)
(* and everybody who takes that mutex.                                     *)
(*                                                                         *)
(*   - Reader and Writer, the tasks that own the KcpStream (one &mut, so   *)
(*     one of them at a time is inside a poll function);                   *)
(*   - Closer, the task of run_async_close, which polls poll_close once    *)
(*     the stream has been dropped;                                        *)
(*   - the actors that change the session or wake its tasks: "poller"      *)
(*     (poll_update and the end of poller_main), "net" (poll_input and the *)
(*     error path of its callers), "manager" (close_all_session), and      *)
(*     "closer" (the remove that follows poll_close).                      *)
(*                                                                         *)
(* The code locks and unlocks the mutex several times in one operation:    *)
(* closed() first, the operation next, then each try_wake_*.  Each of      *)
(* these critical sections is one action here, and they interleave.        *)
(* Time is the age of the last input; the 2^32 ms wrap of the clock and    *)
(* the pacing of the updates are not in this module.                       *)
(***************************************************************************)
EXTENDS Naturals, Sequences

CONSTANTS Reader, Writer, Closer,
          WriterOps,    \* what the writer calls, of {"send", "flush", "close"}
          Wnd,          \* sndwnd_size
          MaxAvail,     \* bound: messages received and not read
          Timeout,      \* recv_timeout and send_timeout
          CloseDelay,   \* close_delay
          MaxIdle,      \* bound: the age of the last input stops here
          MaxInputs,    \* bound: datagrams that reach the session
          None

Users == {Reader, Writer}
Tasks == Users \cup {Closer}
Actors == {"poller", "net", "manager", "closer"}

(* try_wake_all visits the wakers in this order.                           *)
Slots == {"send", "recv", "flush", "close"}
WakeOrder == <<"send", "recv", "flush", "close">>

ASSUME SessionAssumption ==
  /\ Reader # Writer /\ Reader # Closer /\ Writer # Closer
  /\ None \notin Tasks
  /\ WriterOps \subseteq {"send", "flush", "close"}
  /\ Wnd \in Nat \ {0}
  /\ MaxAvail \in Nat /\ MaxInputs \in Nat
  /\ Timeout \in Nat /\ CloseDelay \in Nat /\ MaxIdle \in Nat

VARIABLES sendClosed, recvClosed,
          waker,        \* per slot, the task whose waker is in it, or None
          waitsnd,      \* segments not acknowledged
          avail,        \* messages ready to be read
          idle          \* now - last_send, in units of the clock

VARIABLES tpc,          \* where a task is in its poll function
          top,          \* the operation it is in
          woken,        \* tasks scheduled by a waker and not polled since
          late          \* history: registered after the session was closed

VARIABLES apc,          \* where an actor is
          next,         \* the position in WakeOrder its wake-all is at
          inputErr,     \* the input net handles was refused by kcp
          inPoller,     \* the poller's list holds the session
          timerClosed,  \* history: the close-delay branch closed the session
          inputs,       \* datagrams so far
          cancelled     \* the Canceler of the poller's task has been used

sessionVars == <<sendClosed, recvClosed, waker, waitsnd, avail, idle>>
taskVars == <<tpc, top, woken, late>>
actorVars == <<apc, next, inputErr, inPoller, timerClosed, inputs, cancelled>>
vars == <<sessionVars, taskVars, actorVars>>

(* idle: not in a call; checked: past closed(), before the lock; regd and  *)
(* ret: poll_recv before its trailing try_wake_send, about to return       *)
(* Pending or a result; gone: the stream, or the closer's future, dropped. *)
TypeOK ==
  /\ sendClosed \in BOOLEAN /\ recvClosed \in BOOLEAN
  /\ waker \in [Slots -> Tasks \cup {None}]
  /\ waitsnd \in 0 .. Wnd /\ avail \in 0 .. MaxAvail /\ idle \in 0 .. MaxIdle
  /\ tpc \in [Tasks -> {"idle", "checked", "regd", "ret", "pending", "gone"}]
  /\ top \in [Tasks -> Slots]
  /\ woken \subseteq Tasks
  /\ late \in [Tasks -> BOOLEAN]
  /\ apc \in [Actors -> {"rest", "update", "check", "set", "wake"}]
  /\ next \in [Actors -> 1 .. 4]
  /\ inputErr \in BOOLEAN /\ inPoller \in BOOLEAN /\ timerClosed \in BOOLEAN
  /\ inputs \in 0 .. MaxInputs /\ cancelled \in BOOLEAN

(* SafeKcp::wrap, and the poller has taken the session from its register   *)
(* queue.  One that is never taken is in module Poller.                    *)
Init ==
  /\ sendClosed = FALSE /\ recvClosed = FALSE
  /\ waker = [s \in Slots |-> None]
  /\ waitsnd = 0 /\ avail = 0 /\ idle = 0
  /\ tpc = [t \in Tasks |-> "idle"]
  /\ top = [t \in Tasks |-> IF t = Reader THEN "recv" ELSE "close"]
  /\ woken = {}
  /\ late = [t \in Tasks |-> FALSE]
  /\ apc = [a \in Actors |-> "rest"]
  /\ next = [a \in Actors |-> 1]
  /\ inputErr = FALSE /\ inPoller = TRUE /\ timerClosed = FALSE
  /\ inputs = 0 /\ cancelled = FALSE

closed == recvClosed /\ sendClosed
-----------------------------------------------------------------------------
(* The poll functions.                                                     *)

Dropped == tpc[Reader] = "gone"

Ops(t) == CASE t = Reader -> {"recv"}
            [] t = Writer -> WriterOps
            [] t = Closer -> IF Dropped THEN {"close"} ELSE {}

MidCall(t) == tpc[t] \in {"checked", "regd", "ret"}

(* poll_send and poll_recv take &mut self; the owner of the stream is in   *)
(* one poll function at a time.                                            *)
MayCall(t, op) ==
  /\ op \in Ops(t)
  /\ tpc[t] = "idle" \/ (tpc[t] = "pending" /\ top[t] = op)
  /\ t \in Users => \A u \in Users : ~ MidCall(u)

(* The call returned: a user is free, the closer goes on to remove the     *)
(* session and force_close it.                                             *)
Return(t) ==
  /\ tpc' = [tpc EXCEPT ![t] = IF t = Closer THEN "gone" ELSE "idle"]
  /\ apc' = IF t = Closer THEN [apc EXCEPT !["closer"] = "check"] ELSE apc

(* The first critical section of every poll function: closed().  A task is *)
(* polled when it was woken, when it makes the call, or for no reason.     *)
PollClosed(t, op) ==
  /\ MayCall(t, op)
  /\ closed
  /\ Return(t)
  /\ woken' = woken \ {t}
  /\ late' = [late EXCEPT ![t] = FALSE]
  /\ UNCHANGED <<sessionVars, top, next, inputErr, inPoller, timerClosed, inputs,
                 cancelled>>

PollOpen(t, op) ==
  /\ MayCall(t, op)
  /\ ~ closed
  /\ tpc' = [tpc EXCEPT ![t] = "checked"]
  /\ top' = [top EXCEPT ![t] = op]
  /\ woken' = woken \ {t}
  /\ late' = [late EXCEPT ![t] = FALSE]
  /\ UNCHANGED <<sessionVars, actorVars>>

Poll(t) == \E op \in Slots : PollClosed(t, op) \/ PollOpen(t, op)

Checked(t, op) == tpc[t] = "checked" /\ top[t] = op

(* Poll::Pending: the waker goes to the slot of the operation.             *)
Register(t, op, pc) ==
  /\ waker' = [waker EXCEPT ![op] = t]
  /\ tpc' = [tpc EXCEPT ![t] = pc]
  /\ late' = [late EXCEPT ![t] = closed]

(* poll_send.  A message is one segment here; kcp flushes it to the output *)
(* queue, which is not part of the session.                                *)
SendReady(t) ==
  /\ Checked(t, "send")
  /\ sendClosed \/ waitsnd < Wnd
  /\ waitsnd' = IF sendClosed THEN waitsnd ELSE waitsnd + 1
  /\ tpc' = [tpc EXCEPT ![t] = "idle"]
  /\ UNCHANGED <<sendClosed, recvClosed, waker, avail, idle, top, woken, late,
                 actorVars>>

SendPending(t) ==
  /\ Checked(t, "send")
  /\ ~ sendClosed /\ waitsnd >= Wnd
  /\ Register(t, "send", "pending")
  /\ UNCHANGED <<sendClosed, recvClosed, waitsnd, avail, idle, top, woken,
                 actorVars>>

(* poll_recv                                                               *)
RecvReady(t) ==
  /\ Checked(t, "recv")
  /\ recvClosed \/ avail > 0
  /\ avail' = IF recvClosed THEN avail ELSE avail - 1
  /\ tpc' = [tpc EXCEPT ![t] = "ret"]
  /\ UNCHANGED <<sendClosed, recvClosed, waker, waitsnd, idle, top, woken, late,
                 actorVars>>

RecvPending(t) ==
  /\ Checked(t, "recv")
  /\ ~ recvClosed /\ avail = 0
  /\ Register(t, "recv", "regd")
  /\ UNCHANGED <<sendClosed, recvClosed, waitsnd, avail, idle, top, woken,
                 actorVars>>

(* Mutated forms stand before what they mutate, for checking that the      *)
(* properties can fail.  Here, the task of a waker is not scheduled.       *)
TakeAndForget(slot) ==
  /\ waker' = [waker EXCEPT ![slot] = None]
  /\ UNCHANGED woken

(* take() of a waker slot and wake(): both under the lock.  A waker whose  *)
(* owner has dropped the stream wakes nobody of this session.              *)
TakeAndWake(slot) ==
  /\ waker' = [waker EXCEPT ![slot] = None]
  /\ woken' = woken \cup {t \in Tasks : waker[slot] = t /\ tpc[t] # "gone"}

(* poll_recv ends with try_wake_send, whatever it returns.                 *)
RecvWakesSend(t) ==
  /\ tpc[t] \in {"regd", "ret"}
  /\ TakeAndWake("send")
  /\ tpc' = [tpc EXCEPT ![t] = IF @ = "regd" THEN "pending" ELSE "idle"]
  /\ UNCHANGED <<sendClosed, recvClosed, waitsnd, avail, idle, top, late,
                 actorVars>>

(* poll_flush does not look at the closed flags again under the lock.      *)
FlushReady(t) ==
  /\ Checked(t, "flush")
  /\ waitsnd = 0
  /\ tpc' = [tpc EXCEPT ![t] = "idle"]
  /\ UNCHANGED <<sessionVars, top, woken, late, actorVars>>

FlushPending(t) ==
  /\ Checked(t, "flush")
  /\ waitsnd > 0
  /\ Register(t, "flush", "pending")
  /\ UNCHANGED <<sendClosed, recvClosed, waitsnd, avail, idle, top, woken,
                 actorVars>>

(* Neither does poll_close.                                                *)
CloseReady(t) ==
  /\ Checked(t, "close")
  /\ waitsnd = 0 /\ idle >= CloseDelay
  /\ Return(t)
  /\ UNCHANGED <<sessionVars, top, woken, late, next, inputErr, inPoller,
                 timerClosed, inputs, cancelled>>

ClosePending(t) ==
  /\ Checked(t, "close")
  /\ waitsnd > 0 \/ idle < CloseDelay
  /\ Register(t, "close", "pending")
  /\ UNCHANGED <<sendClosed, recvClosed, waitsnd, avail, idle, top, woken,
                 actorVars>>

PollStep(t) ==
  \/ SendReady(t) \/ SendPending(t)
  \/ RecvReady(t) \/ RecvPending(t) \/ RecvWakesSend(t)
  \/ FlushReady(t) \/ FlushPending(t)
  \/ CloseReady(t) \/ ClosePending(t)

(* The caller drops the future of a call: a race, a select!, a timeout.    *)
Abandon(t) ==
  /\ t \in Users /\ tpc[t] = "pending"
  /\ tpc' = [tpc EXCEPT ![t] = "idle"]
  /\ late' = [late EXCEPT ![t] = FALSE]
  /\ UNCHANGED <<sessionVars, top, woken, actorVars>>

(* Drop of ClientImpl or ServerImpl: the closer gets the session.          *)
DropStream ==
  /\ \A u \in Users : tpc[u] \in {"idle", "pending"}
  /\ tpc' = [t \in Tasks |-> IF t \in Users THEN "gone" ELSE tpc[t]]
  /\ woken' = woken \ Users
  /\ late' = [t \in Tasks |-> FALSE]
  /\ UNCHANGED <<sessionVars, top, actorVars>>
-----------------------------------------------------------------------------
(* force_close: closed(), then the two flags, then try_wake_all.           *)
ForceCloseCheck(a) ==
  /\ apc[a] = "check"
  /\ apc' = [apc EXCEPT ![a] = IF closed THEN "rest" ELSE "set"]
  /\ UNCHANGED <<sessionVars, taskVars, next, inputErr, inPoller, timerClosed,
                 inputs, cancelled>>

ForceCloseSilent(a) ==
  /\ apc[a] = "set"
  /\ sendClosed' = TRUE /\ recvClosed' = TRUE
  /\ apc' = [apc EXCEPT ![a] = "rest"]
  /\ UNCHANGED <<waker, waitsnd, avail, idle, taskVars, next, inputErr, inPoller,
                 timerClosed, inputs, cancelled>>

ForceCloseSet(a) ==
  /\ apc[a] = "set"
  /\ sendClosed' = TRUE /\ recvClosed' = TRUE
  /\ apc' = [apc EXCEPT ![a] = "wake"]
  /\ UNCHANGED <<waker, waitsnd, avail, idle, taskVars, next, inputErr, inPoller,
                 timerClosed, inputs, cancelled>>

(* One try_wake_* of try_wake_all.  After a refused input, net's caller    *)
(* goes on to force_close.                                                 *)
WakeNext(a) ==
  /\ apc[a] = "wake"
  /\ TakeAndWake(WakeOrder[next[a]])
  /\ next' = [next EXCEPT ![a] = IF @ = 4 THEN 1 ELSE @ + 1]
  /\ IF next[a] < 4
       THEN UNCHANGED <<apc, inputErr>>
       ELSE /\ apc' = [apc EXCEPT ![a] = IF a = "net" /\ inputErr THEN "check"
                                                                  ELSE "rest"]
            /\ inputErr' = IF a = "net" THEN FALSE ELSE inputErr
  /\ UNCHANGED <<sendClosed, recvClosed, waitsnd, avail, idle, tpc, top, late,
                 inPoller, timerClosed, inputs, cancelled>>

InputOkSilent ==
  /\ apc["net"] = "rest" /\ inputs < MaxInputs
  /\ waitsnd' \in 0 .. waitsnd
  /\ avail' \in {avail} \cup {n \in 0 .. MaxAvail : n = avail + 1}
  /\ idle' = 0
  /\ inputs' = inputs + 1
  /\ UNCHANGED <<sendClosed, recvClosed, waker, taskVars, apc, next, inputErr,
                 inPoller, timerClosed, cancelled>>

(* poll_input, of a datagram of this session.                              *)
InputOk ==
  /\ apc["net"] = "rest" /\ inputs < MaxInputs
  /\ waitsnd' \in 0 .. waitsnd
  /\ avail' \in {avail} \cup {n \in 0 .. MaxAvail : n = avail + 1}
  /\ idle' = 0
  /\ apc' = [apc EXCEPT !["net"] = "wake"]
  /\ inputs' = inputs + 1
  /\ UNCHANGED <<sendClosed, recvClosed, waker, taskVars, next, inputErr,
                 inPoller, timerClosed, cancelled>>

InputErr ==
  /\ apc["net"] = "rest" /\ inputs < MaxInputs
  /\ recvClosed' = TRUE
  /\ inputErr' = TRUE
  /\ apc' = [apc EXCEPT !["net"] = "wake"]
  /\ inputs' = inputs + 1
  /\ UNCHANGED <<sendClosed, waker, waitsnd, avail, idle, taskVars, next,
                 inPoller, timerClosed, cancelled>>

(* close_all_session: the connector or the listener goes away, or the      *)
(* client's socket failed.  On a closed session it does nothing.           *)
ManagerCloses ==
  /\ apc["manager"] = "rest" /\ ~ closed
  /\ apc' = [apc EXCEPT !["manager"] = "check"]
  /\ UNCHANGED <<sessionVars, taskVars, next, inputErr, inPoller, timerClosed,
                 inputs, cancelled>>
-----------------------------------------------------------------------------
(* poll_update for this session: closed(), then update, which begins with  *)
(* closed() too.  A session that is closed leaves the poller's list.       *)
RoundClosed ==
  /\ inPoller /\ apc["poller"] = "rest" /\ closed
  /\ inPoller' = FALSE
  /\ UNCHANGED <<sessionVars, taskVars, apc, next, inputErr, timerClosed, inputs,
                 cancelled>>

RoundOpen ==
  /\ inPoller /\ apc["poller"] = "rest" /\ ~ closed
  /\ apc' = [apc EXCEPT !["poller"] = "update"]
  /\ UNCHANGED <<sessionVars, taskVars, next, inputErr, inPoller, timerClosed,
                 inputs, cancelled>>

(* update under the lock.  The close delay: both flags, and the closer is  *)
(* the only task woken, because force_close then finds the session closed. *)
CloseDelayOverOnceAcked ==
  waker["close"] # None /\ idle > CloseDelay /\ waitsnd = 0

CloseDelayOver == waker["close"] # None /\ idle > CloseDelay

UpdateCloses ==
  /\ apc["poller"] = "update"
  /\ CloseDelayOver
  /\ sendClosed' = TRUE /\ recvClosed' = TRUE
  /\ TakeAndWake("close")
  /\ apc' = [apc EXCEPT !["poller"] = "rest"]
  /\ inPoller' = FALSE
  /\ timerClosed' = TRUE
  /\ UNCHANGED <<waitsnd, avail, idle, tpc, top, late, next, inputErr, inputs,
                 cancelled>>

TimedOutSendersOnly(slot) ==
  /\ slot # "recv"
  /\ waker[slot] # None /\ idle > Timeout /\ ~ CloseDelayOver

TimedOutReadersOnly(slot) ==
  /\ slot = "recv"
  /\ waker[slot] # None /\ idle > Timeout /\ ~ CloseDelayOver

(* A timeout closes the receive half and wakes one task; the poller then   *)
(* calls force_close.  The wake-up comes after the unlock, with nothing in *)
(* between.                                                                *)
TimedOut(slot) ==
  /\ waker[slot] # None /\ idle > Timeout /\ ~ CloseDelayOver
  /\ slot \in {"send", "flush"} => waker["recv"] = None
  /\ slot = "flush" => waker["send"] = None

UpdateTimesOutHalf(slot) ==
  /\ apc["poller"] = "update"
  /\ TimedOut(slot)
  /\ recvClosed' = TRUE
  /\ TakeAndWake(slot)
  /\ apc' = [apc EXCEPT !["poller"] = "rest"]
  /\ UNCHANGED <<sendClosed, waitsnd, avail, idle, tpc, top, late, next, inputErr,
                 inPoller, timerClosed, inputs, cancelled>>

UpdateTimesOut(slot) ==
  /\ apc["poller"] = "update"
  /\ TimedOut(slot)
  /\ recvClosed' = TRUE
  /\ TakeAndWake(slot)
  /\ apc' = [apc EXCEPT !["poller"] = "check"]
  /\ inPoller' = FALSE
  /\ UNCHANGED <<sendClosed, waitsnd, avail, idle, tpc, top, late, next, inputErr,
                 timerClosed, inputs, cancelled>>

(* Nothing is due: kcp is updated and every task is woken.                 *)
UpdateOk ==
  /\ apc["poller"] = "update"
  /\ ~ CloseDelayOver
  /\ \A slot \in {"recv", "send", "flush"} : ~ TimedOut(slot)
  /\ apc' = [apc EXCEPT !["poller"] = "wake"]
  /\ UNCHANGED <<sessionVars, taskVars, next, inputErr, inPoller, timerClosed,
                 inputs, cancelled>>

PollerEndsAtOnce ==
  /\ inPoller /\ apc["poller"] = "rest"
  /\ inPoller' = FALSE
  /\ UNCHANGED <<sessionVars, taskVars, apc, next, inputErr, timerClosed, inputs,
                 cancelled>>

(* poller_main ends (stop, or an error) and force_closes what it holds.    *)
PollerEnds ==
  /\ inPoller /\ apc["poller"] = "rest"
  /\ apc' = [apc EXCEPT !["poller"] = "check"]
  /\ inPoller' = FALSE
  /\ UNCHANGED <<sessionVars, taskVars, next, inputErr, timerClosed, inputs,
                 cancelled>>

(* The Drop of the connector or the listener cancels the poller's task.    *)
(* When the session has left the poller that changes nothing.              *)
CancelPoller ==
  /\ inPoller /\ ~ cancelled
  /\ cancelled' = TRUE
  /\ UNCHANGED <<sessionVars, taskVars, apc, next, inputErr, inPoller, timerClosed,
                 inputs>>

(* Drop of GuardedUpdate, between two polls of the task: what poller_main  *)
(* holds goes as it is, nobody is woken.                                   *)
PollerDropped ==
  /\ cancelled /\ inPoller /\ apc["poller"] = "rest"
  /\ inPoller' = FALSE
  /\ UNCHANGED <<sessionVars, taskVars, apc, next, inputErr, timerClosed, inputs,
                 cancelled>>

Tick ==
  /\ idle < MaxIdle
  /\ idle' = idle + 1
  /\ UNCHANGED <<sendClosed, recvClosed, waker, waitsnd, avail, taskVars,
                 actorVars>>

Update ==
  UpdateCloses \/ UpdateOk
    \/ \E slot \in {"recv", "send", "flush"} : UpdateTimesOut(slot)

ForceOrWake(a) == ForceCloseCheck(a) \/ ForceCloseSet(a) \/ WakeNext(a)

Next ==
  \/ \E t \in Tasks : Poll(t) \/ PollStep(t) \/ Abandon(t)
  \/ DropStream
  \/ \E a \in Actors : ForceOrWake(a)
  \/ InputOk \/ InputErr \/ ManagerCloses
  \/ RoundClosed \/ RoundOpen \/ Update
  \/ PollerEnds \/ CancelPoller \/ PollerDropped
  \/ Tick

Spec == Init /\ [][Next]_vars
-----------------------------------------------------------------------------
(* The executor runs what is runnable: a woken task is polled (the mutex   *)
(* between the halves of a split stream is strong, a busy half does not    *)
(* starve the other), the closer polls the session of a dropped stream, a  *)
(* poll or an actor that has begun goes on, the poller comes back after    *)
(* its sleep, and time passes.  No datagram ever has to arrive and no call *)
(* has to be made.                                                         *)
(*                                                                         *)
(* The poller sleeps for milliseconds between two rounds, so again and     *)
(* again a round finds every woken task polled and parked.  Without that,  *)
(* a task that is always registered between update and try_wake_all would  *)
(* never be seen to time out.                                              *)
Settled == woken \cap {t \in Tasks : tpc[t] = "pending"} = {}
             /\ \A t \in Tasks : ~ MidCall(t)

Fairness ==
  /\ \A t \in Tasks : /\ SF_vars(t \in woken /\ Poll(t))
                      /\ WF_vars(PollStep(t))
  /\ WF_vars(tpc[Closer] = "idle" /\ Poll(Closer))
  /\ \A a \in Actors : WF_vars(ForceOrWake(a))
  /\ WF_vars(RoundClosed \/ RoundOpen)
  /\ WF_vars(Update)
  /\ WF_vars(Tick)
  /\ []<>(~ inPoller \/ (apc["poller"] = "update" /\ Settled))

FairSpec == Spec /\ Fairness
-----------------------------------------------------------------------------
(* A task that returned Poll::Pending, or is about to, and that no waker   *)
(* has scheduled since it was last polled.                                 *)
Parked(t) == tpc[t] \in {"pending", "regd"} /\ t \notin woken

(* A parked task has its own waker in the slot of its operation: nobody    *)
(* overwrote it and nobody took it out without waking it (poll_* and the   *)
(* try_wake_* functions).                                                  *)
PendingRegistered == \A t \in Tasks : Parked(t) => waker[top[t]] = t

(* The position of a slot in WakeOrder, and an actor that will still reach *)
(* it.                                                                     *)
Position(slot) == CHOOSE i \in 1 .. 4 : WakeOrder[i] = slot
WillWake(a, slot) == apc[a] = "wake" /\ next[a] <= Position(slot)

(* What the call of a task waits for is there: a message, room in the      *)
(* window, or nothing left to be acknowledged.  The close delay only needs *)
(* time, which wakes nobody: the next round does.                          *)
Served(t) ==
  \/ top[t] = "recv" /\ avail > 0
  \/ top[t] = "send" /\ waitsnd < Wnd
  \/ top[t] = "flush" /\ waitsnd = 0

(* No wake-up is lost: whenever what a parked task waits for has come, an  *)
(* actor is on its way to its slot (the lock that poll_send, poll_recv and *)
(* poll_flush look and register under, and try_wake_all in poll_input).    *)
ServedIsWoken ==
  \A t \in Tasks :
    Parked(t) /\ Served(t) => \E a \in Actors : WillWake(a, top[t])

(* The two ways to sleep on a closed session.  A task passed closed()      *)
(* before the close and registered after it, which poll_flush and          *)
(* poll_close allow; or the close-delay branch of update, which wakes no   *)
(* task but the one that waits for the close, closed the session.          *)
Excused(t) ==
  \/ late[t] /\ top[t] \in {"flush", "close"}
  \/ timerClosed /\ top[t] # "close"

(* Once the session is closed, every other parked task is woken, by an     *)
(* actor that is on its way to its slot (force_close and try_wake_all).    *)
WokenOnClose ==
  closed =>
    \A t \in Tasks :
      Parked(t) => Excused(t) \/ \E a \in Actors : WillWake(a, top[t])

(* A session whose receive half alone is closed (a timeout, a refused      *)
(* input) is about to be closed for good: no session stays half open.      *)
HalfClosedIsTransient ==
  recvClosed /\ ~ sendClosed =>
    \/ \E a \in Actors : apc[a] = "set"
    \/ apc["poller"] = "check" \/ apc["net"] = "check"
    \/ apc["net"] = "wake" /\ inputErr

(* The poller drops from its list only sessions that are closed, or that   *)
(* it is closing: an open session gets its updates, unless the task was    *)
(* cancelled and dropped with it.                                          *)
OpenIsPolled ==
  ~ inPoller => closed \/ apc["poller"] \in {"check", "set"} \/ cancelled

(* A session keeps to Custody, which the other models take pollers for:    *)
(* once the poller has taken it, a step of a round, of a close by anybody  *)
(* or of the orderly end of the poller closes it, or lets it go when it is *)
(* closed, or neither; only the drop of a cancelled poller lets it go      *)
(* open.  It is kept until the poller has done with it: a round lets it go *)
(* some steps before force_close has closed it.                            *)
Name == "session"
Kept == inPoller \/ apc["poller"] \in {"check", "set"}
custody == INSTANCE Custody
             WITH Sessions <- {Name}, accepting <- FALSE, queued <- {},
                  kept <- IF Kept THEN {Name} ELSE {},
                  closed <- IF closed THEN {Name} ELSE {}

KeepsCustody == [][custody!Next]_(custody!vars)

(* The cancelled poller was dropped with the session, and nobody has       *)
(* closed it: close_all_session does that for the sessions of the table.   *)
Lost == cancelled /\ ~ inPoller /\ ~ closed

(* A read that waits returns, with data or with an error, when the peer    *)
(* has fallen silent: by the timeout, or by the close.  Only a session     *)
(* that is lost for good makes it wait on.                                 *)
ReadReturns ==
  tpc[Reader] = "pending" ~> tpc[Reader] \in {"idle", "gone"} \/ []Lost

(* So does a write that found the window full.                             *)
SendReturns ==
  tpc[Writer] = "pending" /\ top[Writer] = "send"
    ~> tpc[Writer] \in {"idle", "gone"} \/ []Lost

(* The session of a dropped stream is closed and leaves the poller, also   *)
(* when the peer never acknowledges what is in flight.                     *)
DroppedIsReclaimed == Dropped ~> (closed /\ ~ inPoller) \/ []Lost

=============================================================================
