---------------------------- MODULE PollerProofs ----------------------------
(***************************************************************************)
(* Theorems about Poller, for any number of callers of open and close.     *)
(*                                                                         *)
(* What makes TaskNotForgotten inductive is what the task has behind it    *)
(* while it is still in a poll (Watched): past recv of the register queue  *)
(* its waker is in there, past the timer it is armed, unless a waker has   *)
(* scheduled the task already; of the reader its part of TaskNotForgotten  *)
(* is inductive by itself.  What makes EndedClosesAll follow from          *)
(* NoSessionLost is the order of the end (Ends): the signal is closed      *)
(* before the queue, and nothing is held when poller_main is done.         *)
(***************************************************************************)
EXTENDS Poller, TLAPS

Watched ==
  Task \notin woken =>
    /\ pc \in {"sleep", "signal", "idle"} /\ ~ paused =>
         reg.items = << >> /\ ~ reg.closed /\ reg.recvWaker = Task
    /\ pc \in {"signal", "idle"} /\ ~ paused /\ held # {} => sleep = "armed"
    /\ pc = "idle" => sig.items = << >> /\ ~ sig.closed /\ sig.recvWaker = Task

ReaderWatched ==
  rpc = "on" /\ Reader \notin woken =>
    rsig.items = << >> /\ ~ rsig.closed /\ rsig.recvWaker = Reader

Ends ==
  /\ mainDone => /\ held = {} /\ reg.closed
                 /\ pc \in {"leave", "stop", "final", "ended"}
  /\ pc \in {"stop", "final", "ended"} => sig.closed
  /\ pc \in {"final", "ended"} => reg.closed
  /\ pc = "ended" => held = {}
  /\ outcome # "none" <=> pc = "ended"

IInv ==
  /\ TypeOK
  /\ Watched
  /\ ReaderWatched
  /\ Ends
  /\ NoSessionLost
-----------------------------------------------------------------------------
(* A queue after each critical section.                                    *)
LEMMA Pushed ==
  ASSUME NEW S, NEW r, NEW q \in QueueOf(S, r), NEW x \in S, ~ Filled(q)
  PROVE  /\ PushBack(q, x) \in QueueOf(S, r)
         /\ q.items = << >> /\ PushBack(q, x).items = <<x>>
         /\ PushBack(q, x).closed = q.closed
         /\ PushBack(q, x).recvWaker = None
         /\ PushBack(q, x).sendWaker = q.sendWaker
  <1>1. q.items = << >>
    <2>1. ASSUME NEW y \in S, q.items = <<y>>
          PROVE  FALSE
      <3>1. Len(<<y>>) = 1
        OBVIOUS
      <3> QED
        BY <2>1, <3>1 DEF Filled, QueueOf
    <2> QED
      BY <2>1 DEF QueueOf
  <1>2. Append(<< >>, x) = <<x>>
    OBVIOUS
  <1> QED
    BY <1>1, <1>2 DEF PushBack, QueueOf

LEMMA Popped ==
  ASSUME NEW S, NEW r, NEW q \in QueueOf(S, r), q.items # << >>
  PROVE  /\ PopFront(q) \in QueueOf(S, r)
         /\ Head(q.items) \in S /\ q.items = <<Head(q.items)>>
         /\ PopFront(q).items = << >>
         /\ PopFront(q).closed = q.closed
         /\ PopFront(q).recvWaker = q.recvWaker
         /\ PopFront(q).sendWaker = None
  <1>1. PICK y \in S : q.items = <<y>>
    BY DEF QueueOf
  <1>2. Head(<<y>>) = y /\ Tail(<<y>>) = << >>
    OBVIOUS
  <1> QED
    BY <1>1, <1>2 DEF PopFront, QueueOf

LEMMA Registered ==
  ASSUME NEW S, NEW r, NEW q \in QueueOf(S, r), NEW c \in Callers
  PROVE  /\ RegisterSend(q, c) \in QueueOf(S, r)
         /\ RegisterSend(q, c).items = q.items
         /\ RegisterSend(q, c).closed = q.closed
         /\ RegisterSend(q, c).recvWaker = q.recvWaker
  BY DEF RegisterSend, QueueOf

LEMMA ClosedQueue ==
  ASSUME NEW S, NEW r, NEW q \in QueueOf(S, r)
  PROVE  /\ CloseQueue(q) \in QueueOf(S, r)
         /\ CloseQueue(q).items = q.items
         /\ CloseQueue(q).closed = TRUE
  BY DEF CloseQueue, QueueOf

(* Who may be woken, and that a registered task is.                        *)
LEMMA Woken ==
  ASSUME NEW S, NEW r \in {Task, Reader}, NEW q \in QueueOf(S, r)
  PROVE  /\ Wake(q.recvWaker) \subseteq {r}
         /\ Wake(q.sendWaker) \subseteq Callers
         /\ q.recvWaker = r => r \in Wake(q.recvWaker)
  BY PollerAssumption DEF Wake, QueueOf

LEMMA NotTask ==
  /\ Task \notin Callers /\ Reader \notin Callers /\ Task # Reader
  /\ None \notin {Task, Reader}
  BY PollerAssumption
-----------------------------------------------------------------------------
LEMMA Initially == Init => IInv
  <1> SUFFICES ASSUME Init PROVE IInv
    OBVIOUS
  <1>1. Capacity(10) = 1 /\ Capacity(255) = 1 /\ Capacity(QuebufSize) \in 0 .. 1
    BY PollerAssumption DEF Capacity
  <1>2. TypeOK
    <2>1. ASSUME NEW S, NEW r, NEW n, Capacity(n) \in 0 .. 1
          PROVE  NewQueue(n) \in QueueOf(S, r)
      BY <2>1 DEF NewQueue, QueueOf
    <2>2. /\ reg \in QueueOf(Openers, Task)
          /\ rsig \in QueueOf({"resume", "quit"}, Reader)
          /\ sig \in QueueOf({"resume", "stop"}, Task)
      <3>1. 1 \in 0 .. 1
        OBVIOUS
      <3> QED
        BY <1>1, <2>1, <3>1 DEF Init
    <2> QED
      BY <2>2 DEF Init, TypeOK, Stages
  <1>3. Watched /\ ReaderWatched /\ Ends
    BY DEF Init, Watched, ReaderWatched, Ends, NewQueue
  <1>4. NoSessionLost
    BY DEF Init, NoSessionLost, Accepted, Callers
  <1> QED
    BY <1>2, <1>3, <1>4 DEF IInv

LEMMA StutterKeeps == ASSUME IInv, UNCHANGED vars PROVE IInv'
  BY DEF IInv, TypeOK, Watched, ReaderWatched, Ends, NoSessionLost, Accepted,
  vars, callerVars,
         taskVars, endVars, queues

(* The callers of open.                                                    *)
LEMMA OpenersKeep ==
  ASSUME IInv, NEW o \in Openers, Register(o) \/ CloseSession(o)
  PROVE  IInv'
  <1> USE NotTask DEF IInv, callerVars, taskVars, endVars, queues, Accepted, Stages
  <1>0. o \in Callers /\ o # Task /\ reg \in QueueOf(Openers, Task)
    BY DEF Callers, TypeOK
  <1>1. CASE RegisterReady(o)
    <2>1. /\ reg' \in QueueOf(Openers, Task) /\ reg.items = << >> /\ reg'.items = <<o>>
          /\ reg'.closed = reg.closed
      BY <1>0, <1>1, Pushed DEF RegisterReady
    <2>2. Wake(reg.recvWaker) \subseteq {Task}
          /\ (reg.recvWaker = Task => Task \in woken')
      BY <1>0, <1>1, Woken DEF RegisterReady
    <2>3. TypeOK'
      BY <1>0, <1>1, <2>1, <2>2 DEF RegisterReady, TypeOK
    <2>4. Watched' /\ ReaderWatched' /\ Ends'
      BY <1>0, <1>1, <2>1, <2>2 DEF RegisterReady, Watched, ReaderWatched,
                                    Ends, TypeOK
    <2>5. NoSessionLost'
      BY <1>0, <1>1, <2>1 DEF RegisterReady, NoSessionLost, TypeOK
    <2> QED
      BY <2>3, <2>4, <2>5
  <1>2. CASE RegisterFilled(o)
    <2>1. /\ reg' \in QueueOf(Openers, Task) /\ reg'.items = reg.items
          /\ reg'.closed = reg.closed /\ reg'.recvWaker = reg.recvWaker
      BY <1>0, <1>2, Registered DEF RegisterFilled
    <2>2. TypeOK'
      BY <1>0, <1>2, <2>1 DEF RegisterFilled, TypeOK
    <2>3. Watched' /\ ReaderWatched' /\ Ends'
      BY <1>0, <1>2, <2>1 DEF RegisterFilled, Watched, ReaderWatched, Ends
    <2>4. NoSessionLost'
      BY <1>0, <1>2, <2>1 DEF RegisterFilled, Registering, NoSessionLost, TypeOK
    <2> QED
      BY <2>2, <2>3, <2>4
  <1>3. CASE RegisterClosed(o)
    BY <1>0, <1>3 DEF RegisterClosed, TypeOK, Watched, ReaderWatched, Ends,
                      NoSessionLost
  <1>4. CASE CloseSession(o)
    BY <1>0, <1>4 DEF CloseSession, TypeOK, Watched, ReaderWatched, Ends,
                      NoSessionLost
  <1> QED
    BY <1>1, <1>2, <1>3, <1>4 DEF Register

(* Everybody who sends a signal.                                           *)
LEMMA SignalKeeps ==
  ASSUME IInv, NEW c \in Callers, Signal(c)
  PROVE  IInv'
  <1> USE NotTask DEF IInv, callerVars, taskVars, endVars, queues, Accepted, Stages
  <1>0. c # Task /\ sig \in QueueOf({"resume", "stop"}, Task)
    BY DEF TypeOK
  <1>1. CASE SignalReady(c)
    <2> DEFINE x == IF c \in Stoppers THEN "stop" ELSE "resume"
    <2>1. /\ sig' \in QueueOf({"resume", "stop"}, Task) /\ sig.items = << >>
          /\ sig'.closed = sig.closed
      <3>1. x \in {"resume", "stop"} /\ sig' = PushBack(sig, x) /\ ~ Filled(sig)
        BY <1>1 DEF SignalReady
      <3> HIDE DEF x
      <3> QED
        BY <1>0, <3>1, Pushed
    <2>2. Wake(sig.recvWaker) \subseteq {Task}
          /\ (sig.recvWaker = Task => Task \in woken')
      BY <1>0, <1>1, Woken DEF SignalReady
    <2>3. TypeOK'
      BY <1>0, <1>1, <2>1, <2>2 DEF SignalReady, TypeOK
    <2>4. Watched' /\ ReaderWatched' /\ Ends'
      BY <1>0, <1>1, <2>1, <2>2 DEF SignalReady, Watched, ReaderWatched, Ends,
                                    TypeOK
    <2>5. NoSessionLost'
      BY <1>0, <1>1, PollerAssumption DEF SignalReady, Signalling,
                                          NoSessionLost, TypeOK, Callers
    <2> QED
      BY <2>3, <2>4, <2>5
  <1>2. CASE SignalFilled(c)
    <2>1. /\ sig' \in QueueOf({"resume", "stop"}, Task) /\ sig'.items = sig.items
          /\ sig'.closed = sig.closed /\ sig'.recvWaker = sig.recvWaker
      BY <1>0, <1>2, Registered DEF SignalFilled
    <2>2. TypeOK'
      BY <1>0, <1>2, <2>1 DEF SignalFilled, TypeOK
    <2>3. Watched' /\ ReaderWatched' /\ Ends'
      BY <1>0, <1>2, <2>1 DEF SignalFilled, Watched, ReaderWatched, Ends
    <2>4. NoSessionLost'
      BY <1>0, <1>2, PollerAssumption DEF SignalFilled, Signalling,
                                          NoSessionLost, TypeOK, Callers
    <2> QED
      BY <2>2, <2>3, <2>4
  <1>3. CASE SignalRefused(c)
    BY <1>0, <1>3 DEF SignalRefused, TypeOK, Watched, ReaderWatched, Ends,
                      NoSessionLost
  <1> QED
    BY <1>1, <1>2, <1>3 DEF Signal

(* And before it one to the reader.                                        *)
LEMMA TellKeeps ==
  ASSUME IInv, NEW c \in Callers, Tell(c)
  PROVE  IInv'
  <1> USE NotTask DEF IInv, callerVars, taskVars, endVars, queues, Accepted, Stages
  <1>0. c # Reader /\ rsig \in QueueOf({"resume", "quit"}, Reader)
    BY DEF TypeOK
  <1>1. CASE TellReady(c)
    <2> DEFINE x == IF c \in Stoppers THEN "quit" ELSE "resume"
    <2>1. /\ rsig' \in QueueOf({"resume", "quit"}, Reader) /\ rsig.items = << >>
          /\ rsig'.closed = rsig.closed
      <3>1. x \in {"resume", "quit"} /\ rsig' = PushBack(rsig, x) /\ ~ Filled(rsig)
        BY <1>1 DEF TellReady
      <3> HIDE DEF x
      <3> QED
        BY <1>0, <3>1, Pushed
    <2>2. Wake(rsig.recvWaker) \subseteq {Reader}
          /\ (rsig.recvWaker = Reader => Reader \in woken')
      BY <1>0, <1>1, Woken DEF TellReady
    <2>3. TypeOK'
      BY <1>0, <1>1, <2>1, <2>2 DEF TellReady, TypeOK
    <2>4. Watched' /\ ReaderWatched' /\ Ends'
      BY <1>0, <1>1, <2>1, <2>2 DEF TellReady, Watched, ReaderWatched, Ends,
                                    TypeOK
    <2>5. NoSessionLost'
      BY <1>0, <1>1, PollerAssumption DEF TellReady, Telling, NoSessionLost,
                                          TypeOK, Callers
    <2> QED
      BY <2>3, <2>4, <2>5
  <1>2. CASE TellFilled(c)
    <2>1. /\ rsig' \in QueueOf({"resume", "quit"}, Reader) /\ rsig'.items = rsig.items
          /\ rsig'.closed = rsig.closed /\ rsig'.recvWaker = rsig.recvWaker
      BY <1>0, <1>2, Registered DEF TellFilled
    <2>2. TypeOK'
      BY <1>0, <1>2, <2>1 DEF TellFilled, TypeOK
    <2>3. Watched' /\ ReaderWatched' /\ Ends'
      BY <1>0, <1>2, <2>1 DEF TellFilled, Watched, ReaderWatched, Ends
    <2>4. NoSessionLost'
      BY <1>0, <1>2, PollerAssumption DEF TellFilled, Telling, NoSessionLost,
                                          TypeOK, Callers
    <2> QED
      BY <2>2, <2>3, <2>4
  <1>3. CASE TellRefused(c)
    <2>1. TypeOK'
      BY <1>0, <1>3 DEF TellRefused, TypeOK
    <2>2. Watched' /\ ReaderWatched' /\ Ends'
      BY <1>0, <1>3 DEF TellRefused, Watched, ReaderWatched, Ends
    <2>3. NoSessionLost'
      BY <1>0, <1>3, PollerAssumption DEF TellRefused, Telling, NoSessionLost,
                                          TypeOK, Callers
    <2> QED
      BY <2>1, <2>2, <2>3
  <1> QED
    BY <1>1, <1>2, <1>3 DEF Tell

LEMMA AbandonKeeps ==
  ASSUME IInv, NEW c \in Callers, Abandon(c)
  PROVE  IInv'
  <1> USE NotTask DEF IInv, callerVars, taskVars, endVars, queues, Accepted, Stages
  <1>1. TypeOK'
    BY DEF Abandon, TypeOK
  <1>2. Watched' /\ ReaderWatched' /\ Ends'
    BY DEF Abandon, Watched, ReaderWatched, Ends
  <1>3. NoSessionLost'
    BY DEF Abandon, NoSessionLost, TypeOK
  <1> QED
    BY <1>1, <1>2, <1>3

(* Whoever stops or cancels the poller.                                    *)
LEMMA EndersKeep ==
  ASSUME IInv, StopPoller \/ CloseReadSignal \/ CloseSignal \/ Cancel
  PROVE  IInv'
  <1> USE NotTask DEF IInv, callerVars, taskVars, endVars, queues, Accepted, Stages
  <1>0. reg \in QueueOf(Openers, Task) /\ sig \in QueueOf({"resume", "stop"}, Task)
    BY DEF TypeOK
  <1>1. CASE StopPoller
    <2>1. reg' \in QueueOf(Openers, Task) /\ reg'.items = reg.items /\ reg'.closed
      <3>1. reg' = CloseQueue(reg)
        BY <1>1 DEF StopPoller
      <3> QED
        BY <1>0, <3>1, ClosedQueue
    <2>2. woken' \subseteq woken \cup {Task} \cup Callers /\ woken \subseteq woken'
          /\ (reg.recvWaker = Task => Task \in woken')
      BY <1>0, <1>1, Woken DEF StopPoller
    <2>3. TypeOK'
      BY <1>1, <2>1, <2>2 DEF StopPoller, TypeOK
    <2>4. Watched' /\ ReaderWatched' /\ Ends' /\ NoSessionLost'
      BY <1>1, <2>1, <2>2 DEF StopPoller, Watched, ReaderWatched, Ends,
                              NoSessionLost
    <2> QED
      BY <2>3, <2>4
  <1>2. CASE CloseSignal
    <2>1. sig' \in QueueOf({"resume", "stop"}, Task) /\ sig'.items = sig.items /\ sig'.closed
      BY <1>0, <1>2, ClosedQueue DEF CloseSignal
    <2>2. woken' \subseteq woken \cup {Task} \cup Callers /\ woken \subseteq woken'
          /\ (sig.recvWaker = Task => Task \in woken')
      BY <1>0, <1>2, Woken DEF CloseSignal
    <2>3. TypeOK'
      BY <1>2, <2>1, <2>2 DEF CloseSignal, TypeOK
    <2>4. Watched' /\ ReaderWatched' /\ Ends' /\ NoSessionLost'
      BY <1>2, <2>1, <2>2 DEF CloseSignal, Watched, ReaderWatched, Ends,
                              NoSessionLost
    <2> QED
      BY <2>3, <2>4
  <1>4. CASE CloseReadSignal
    <2>0. rsig \in QueueOf({"resume", "quit"}, Reader)
      BY DEF TypeOK
    <2>1. rsig' \in QueueOf({"resume", "quit"}, Reader) /\ rsig'.closed
      BY <2>0, <1>4, ClosedQueue DEF CloseReadSignal
    <2>2. woken' \subseteq woken \cup {Reader} \cup Callers /\ woken \subseteq woken'
          /\ (rsig.recvWaker = Reader => Reader \in woken')
      BY <2>0, <1>4, Woken DEF CloseReadSignal
    <2>3. TypeOK'
      BY <1>4, <2>1, <2>2 DEF CloseReadSignal, TypeOK
    <2>4. Watched' /\ ReaderWatched' /\ Ends' /\ NoSessionLost'
      BY <1>4, <2>1, <2>2 DEF CloseReadSignal, Watched, ReaderWatched, Ends,
         NoSessionLost
    <2> QED
      BY <2>3, <2>4
  <1>3. CASE Cancel
    BY <1>3 DEF Cancel, TypeOK, Watched, ReaderWatched, Ends, NoSessionLost
  <1> QED
    BY <1>1, <1>2, <1>3, <1>4
-----------------------------------------------------------------------------
(* The task is dropped, before it runs or after.                           *)
LEMMA DropKeeps ==
  ASSUME IInv, StartDetached \/ DropTask
  PROVE  IInv'
  <1> USE NotTask DEF IInv, callerVars, taskVars, endVars, queues, Accepted, Stages
  <1>0. /\ reg \in QueueOf(Openers, Task) /\ sig \in QueueOf({"resume", "stop"}, Task)
        /\ DropWakes /\ pc \in {"start", "idle"}
        /\ UNCHANGED <<rsig, callerVars, paused, mainDone, rpc, endVars>>
    BY DEF TypeOK, StartDetached, DropTask
  <1>1. /\ reg' \in QueueOf(Openers, Task) /\ reg'.items = reg.items /\ reg'.closed
        /\ sig' \in QueueOf({"resume", "stop"}, Task) /\ sig'.closed
    BY <1>0, ClosedQueue DEF DropWakes
  <1>2. woken' \subseteq woken \cup Callers
    BY <1>0, Woken DEF DropWakes
  <1>3. TypeOK'
    BY <1>0, <1>1, <1>2 DEF DropWakes, TypeOK
  <1>4. Watched' /\ ReaderWatched' /\ Ends' /\ NoSessionLost'
    BY <1>0, <1>1 DEF DropWakes, Watched, ReaderWatched, Ends, NoSessionLost
  <1> QED
    BY <1>3, <1>4

(* poller_main.                                                            *)
LEMMA MainKeeps ==
  ASSUME IInv, MainStep
  PROVE  IInv'
  <1> USE NotTask DEF IInv, callerVars, taskVars, endVars, queues, Accepted, Stages
  <1>0. reg \in QueueOf(Openers, Task)
    BY DEF TypeOK
  <1>1. CASE MainReceives
    <2>1. /\ reg' \in QueueOf(Openers, Task) /\ Head(reg.items) \in Openers
          /\ reg.items = <<Head(reg.items)>> /\ reg'.closed = reg.closed
      BY <1>0, <1>1, Popped DEF MainReceives
    <2>2. woken' \subseteq woken \cup Callers
      BY <1>0, <1>1, Woken DEF MainReceives
    <2>3. TypeOK'
      BY <1>1, <2>1, <2>2 DEF MainReceives, TypeOK
    <2>4. Watched' /\ ReaderWatched' /\ Ends'
      BY <1>1, <2>1 DEF MainReceives, Watched, ReaderWatched, Ends
    <2>5. NoSessionLost'
      <3> SUFFICES ASSUME NEW o \in Openers, Accepted(o)', outcome' # "dropped",
                          o \notin closed'
                   PROVE  o \in held'
        BY DEF NoSessionLost
      <3>1. reg.items = <<o>> \/ o \in held
        BY <1>1 DEF MainReceives, NoSessionLost
      <3>2. Head(<<o>>) = o
        OBVIOUS
      <3> QED
        BY <1>1, <3>1, <3>2 DEF MainReceives
    <2> QED
      BY <2>3, <2>4, <2>5
  <1>2. CASE MainWaits
    <2>1. /\ reg' \in QueueOf(Openers, Task) /\ reg'.items = reg.items
          /\ reg'.closed = reg.closed /\ reg'.recvWaker = Task
      BY <1>0, <1>2 DEF MainWaits, RegisterRecv, QueueOf
    <2> QED
      BY <1>2, <2>1 DEF MainWaits, TypeOK, Watched, ReaderWatched, Ends,
                        NoSessionLost
  <1>3. CASE MainEnds
    BY <1>3 DEF MainEnds, TypeOK, Watched, ReaderWatched, Ends, NoSessionLost
  <1>4. CASE NothingToUpdate
    BY <1>4 DEF NothingToUpdate, TypeOK, Watched, ReaderWatched, Ends,
                NoSessionLost
  <1>5. CASE Round
    <2>1. PICK due \in SUBSET (held \ closed) :
            closed' = closed \cup due /\ held' = held \ (closed \cup due)
      BY <1>5 DEF Round
    <2>2. TypeOK'
      BY <1>5, <2>1 DEF Round, TypeOK
    <2>3. Watched' /\ ReaderWatched' /\ Ends'
      BY <1>5, <2>1 DEF Round, Watched, ReaderWatched, Ends
    <2>4. NoSessionLost'
      BY <1>5, <2>1 DEF Round, NoSessionLost
    <2> QED
      BY <2>2, <2>3, <2>4
  <1>6. CASE SleepOver
    BY <1>6 DEF SleepOver, TypeOK, Watched, ReaderWatched, Ends, NoSessionLost
  <1>7. CASE SleepOn
    BY <1>7 DEF SleepOn, TypeOK, Watched, ReaderWatched, Ends, NoSessionLost
  <1> QED
    BY <1>1, <1>2, <1>3, <1>4, <1>5, <1>6, <1>7 DEF MainStep

(* run_async_update_internal: the signal.                                  *)
LEMMA SignalStepKeeps ==
  ASSUME IInv, SignalStep
  PROVE  IInv'
  <1> USE NotTask DEF IInv, callerVars, taskVars, endVars, queues, Accepted, Stages
  <1>0. sig \in QueueOf({"resume", "stop"}, Task)
    BY DEF TypeOK
  <1>1. ASSUME sig.items # << >>, sig' = PopFront(sig),
               woken' = woken \cup Wake(sig.sendWaker)
        PROVE  /\ sig' \in QueueOf({"resume", "stop"}, Task) /\ sig'.closed = sig.closed
               /\ woken' \subseteq woken \cup Callers
    BY <1>0, <1>1, Popped, Woken
  <1>2. <<"resume">> # << >> /\ <<"stop">> # << >>
    OBVIOUS
  <1>3. CASE TakeResume
    <2>1. sig' \in QueueOf({"resume", "stop"}, Task) /\ sig'.closed = sig.closed
          /\ woken' \subseteq woken \cup Callers
      BY <1>1, <1>2, <1>3 DEF TakeResume
    <2> QED
      BY <1>3, <2>1 DEF TakeResume, TypeOK, Watched, ReaderWatched, Ends,
                        NoSessionLost
  <1>4. CASE TakeStop
    <2>1. sig' \in QueueOf({"resume", "stop"}, Task) /\ sig'.closed = sig.closed
          /\ woken' \subseteq woken \cup Callers
      BY <1>1, <1>2, <1>4 DEF TakeStop
    <2> QED
      BY <1>4, <2>1 DEF TakeStop, TypeOK, Watched, ReaderWatched, Ends,
                        NoSessionLost
  <1>5. CASE SignalIsClosed
    BY <1>5 DEF SignalIsClosed, TypeOK, Watched, ReaderWatched, Ends,
                NoSessionLost
  <1>6. CASE NoSignal
    <2>1. /\ sig' \in QueueOf({"resume", "stop"}, Task) /\ sig'.items = sig.items
          /\ sig'.closed = sig.closed /\ sig'.recvWaker = Task
      BY <1>0, <1>6 DEF NoSignal, RegisterRecv, QueueOf
    <2> QED
      BY <1>6, <2>1 DEF NoSignal, TypeOK, Watched, ReaderWatched, Ends,
                        NoSessionLost
  <1> QED
    BY <1>3, <1>4, <1>5, <1>6 DEF SignalStep

(* The end of the task by itself.                                          *)
LEMMA EndKeeps ==
  ASSUME IInv, EndStep
  PROVE  IInv'
  <1> USE NotTask DEF IInv, callerVars, taskVars, endVars, queues, Accepted, Stages
  <1>0. reg \in QueueOf(Openers, Task) /\ sig \in QueueOf({"resume", "stop"}, Task)
    BY DEF TypeOK
  <1>1. CASE LeaveLoop
    <2>1. sig' \in QueueOf({"resume", "stop"}, Task) /\ sig'.closed
          /\ woken' \subseteq woken \cup {Task} \cup Callers
      BY <1>0, <1>1, ClosedQueue, Woken DEF LeaveLoop
    <2> QED
      BY <1>1, <2>1 DEF LeaveLoop, TypeOK, Watched, ReaderWatched, Ends,
                        NoSessionLost
  <1>2. CASE StopOwnQueue
    <2>1. reg' \in QueueOf(Openers, Task) /\ reg'.closed /\ reg'.items = reg.items
          /\ woken' \subseteq woken \cup {Task} \cup Callers
      BY <1>0, <1>2, ClosedQueue, Woken DEF StopOwnQueue
    <2> QED
      BY <1>2, <2>1 DEF StopOwnQueue, TypeOK, Watched, ReaderWatched, Ends,
                        NoSessionLost
  <1>3. CASE FinalPoll
    BY <1>3 DEF FinalPoll, TypeOK, Watched, ReaderWatched, Ends, NoSessionLost
  <1>4. CASE FinalPollPanics
    BY <1>4 DEF FinalPollPanics, TypeOK, Watched, ReaderWatched, Ends,
                NoSessionLost
  <1> QED
    BY <1>1, <1>2, <1>3, <1>4 DEF EndStep

(* The reader.                                                             *)
LEMMA ReaderKeeps ==
  ASSUME IInv, ReaderStep \/ DropReader
  PROVE  IInv'
  <1> USE NotTask DEF IInv, callerVars, taskVars, endVars, queues, Accepted
  <1>0. rsig \in QueueOf({"resume", "quit"}, Reader)
    BY DEF TypeOK
  <1>1. CASE StartReader
    BY <1>1 DEF StartReader, TypeOK, Watched, ReaderWatched, Ends, NoSessionLost
  <1>2. CASE ReaderDetached \/ ReaderLeaves \/ DropReader
    <2>1. ReaderGoes /\ UNCHANGED endVars
      BY <1>2 DEF ReaderDetached, ReaderLeaves, DropReader
    <2>2. rsig' \in QueueOf({"resume", "quit"}, Reader)
          /\ woken' \subseteq woken \cup Callers /\ woken \subseteq woken' \cup {Reader}
      BY <1>0, <2>1, ClosedQueue, Woken DEF ReaderGoes
    <2> QED
      BY <2>1, <2>2 DEF ReaderGoes, TypeOK, Watched, ReaderWatched, Ends,
                        NoSessionLost
  <1>3. CASE ReaderTakes
    <2>1. rsig' \in QueueOf({"resume", "quit"}, Reader)
          /\ woken' \subseteq woken \cup Callers /\ woken \subseteq woken'
      BY <1>0, <1>3, Popped, Woken DEF ReaderTakes
    <2> QED
      BY <1>3, <2>1 DEF ReaderTakes, ReaderOn, TypeOK, Watched, ReaderWatched,
                        Ends,
         NoSessionLost
  <1>4. CASE ReaderWaits
    <2>1. rsig' \in QueueOf({"resume", "quit"}, Reader) /\ rsig'.items = rsig.items
          /\ rsig'.closed = rsig.closed /\ rsig'.recvWaker = Reader
      BY <1>0, <1>4 DEF ReaderWaits, RegisterRecv, QueueOf
    <2> QED
      BY <1>4, <2>1 DEF ReaderWaits, TypeOK, Watched, ReaderWatched, Ends,
                        NoSessionLost
  <1>5. CASE ReaderRefused
    BY <1>5 DEF ReaderRefused, TypeOK, Watched, ReaderWatched, Ends, NoSessionLost
  <1> QED
    BY <1>1, <1>2, <1>3, <1>4, <1>5 DEF ReaderStep

LEMMA NextKeeps == IInv /\ [Next]_vars => IInv'
  <1> SUFFICES ASSUME IInv, [Next]_vars PROVE IInv'
    OBVIOUS
  <1> USE NotTask DEF IInv, callerVars, taskVars, endVars, queues, Accepted
  <1>1. CASE StartTask
    BY <1>1 DEF StartTask, TypeOK, Watched, ReaderWatched, Ends, NoSessionLost
  <1>2. CASE PolledTask
    BY <1>2 DEF PolledTask, TypeOK, Watched, ReaderWatched, Ends, NoSessionLost
  <1>3. CASE Elapse
    BY <1>3 DEF Elapse, TypeOK, Watched, ReaderWatched, Ends, NoSessionLost
  <1> QED
    BY <1>1, <1>2, <1>3, StutterKeeps, OpenersKeep, TellKeeps, SignalKeeps,
       AbandonKeeps, EndersKeep, DropKeeps, MainKeeps, SignalStepKeeps, EndKeeps,
       ReaderKeeps DEF Next, TaskStep

LEMMA Invariant == Spec => []IInv
  BY Initially, NextKeeps, PTL DEF Spec
-----------------------------------------------------------------------------
(* The types of the poller task, the reader, the queues and the callers.   *)
THEOREM TypesHold == Spec => []TypeOK
  BY Invariant, PTL DEF IInv

(* A poller task at rest that nobody has woken has nothing to do, nor has  *)
(* a reader: the queues of src/queue.rs and the timer lose no wake-up      *)
(* between the polls of run_async_update_internal, poller_main and         *)
(* run_async_read.                                                         *)
THEOREM TaskIsWoken == Spec => []TaskNotForgotten
  <1>1. IInv => TaskNotForgotten
    BY DEF IInv, Watched, ReaderWatched, TaskNotForgotten
  <1> QED
    BY <1>1, Invariant, PTL

(* A session that register has accepted is queued, held or closed, unless  *)
(* the task is dropped with it.                                            *)
THEOREM SessionsAreKept == Spec => []NoSessionLost
  BY Invariant, PTL DEF IInv

(* A poller that ends by itself closes its queues and what it has taken.   *)
THEOREM EndClosesSessions == Spec => []EndedClosesAll
  <1>1. IInv => EndedClosesAll
    BY DEF IInv, Ends, NoSessionLost, EndedClosesAll
  <1> QED
    BY <1>1, Invariant, PTL
-----------------------------------------------------------------------------
(* Without multi_thread every way to an end begins with somebody who asked *)
(* for it: a closed queue, a Stop on its way, a poller past its loop, or a *)
(* cancelled task.                                                         *)
Ending ==
  \/ reg.closed \/ rsig.closed \/ sig.closed \/ cancelled
  \/ rsig.items = <<"quit">> \/ rpc \in {"leave", "ended"}
  \/ sig.items = <<"stop">>
  \/ pc \in {"leave", "stop", "final", "ended"}
  \/ \E o \in Openers : cpc[o] = "failed"

Asked == Ending => EndAsked

LEMMA AskedInitially == Init => Asked
  <1> SUFFICES ASSUME Init PROVE ~ Ending
    BY DEF Asked
  <1>1. << >> # <<"stop">> /\ << >> # <<"quit">>
    OBVIOUS
  <1> QED
    BY <1>1 DEF Init, Ending, NewQueue, Callers

LEMMA EndStaysAsked == TypeOK /\ EndAsked /\ [Next]_vars => EndAsked'
  <1> SUFFICES ASSUME TypeOK, EndAsked, [Next]_vars PROVE EndAsked'
    OBVIOUS
  <1> USE DEF EndAsked, callerVars, taskVars, endVars
  <1>1. ASSUME NEW c \in Callers, Tell(c) \/ Signal(c) \/ Abandon(c)
        PROVE  EndAsked'
    <2>1. asked' = asked /\ \E v \in Stages \ {"start"} : cpc' = [cpc EXCEPT ![c] = v]
      BY <1>1 DEF Tell, TellReady, TellFilled, TellRefused, Signal, SignalReady,
         SignalFilled, SignalRefused, Abandon, Stages
    <2> QED
      BY <2>1 DEF TypeOK, Callers
  <1>2. ASSUME NEW o \in Openers, Register(o) PROVE EndAsked'
    BY <1>2 DEF Register, RegisterReady, RegisterFilled, RegisterClosed,
                TypeOK, Callers
  <1>3. CASE UNCHANGED <<cpc, asked>>
    BY <1>3
  <1>4. CASE StopPoller \/ CloseReadSignal
    BY <1>4 DEF StopPoller, CloseReadSignal
  <1>5. ASSUME NEW o \in Openers, CloseSession(o) PROVE EndAsked'
    BY <1>3, <1>5 DEF CloseSession
  <1>6. CASE TaskStep \/ Elapse \/ DropTask
    BY <1>3, <1>6 DEF TaskStep, StartTask, StartDetached, PolledTask, MainStep,
       MainReceives, MainWaits, MainEnds, NothingToUpdate, Round, SleepOver,
       SleepOn,
       SignalStep, TakeResume, TakeStop, SignalIsClosed, NoSignal, EndStep,
       LeaveLoop,
       StopOwnQueue, FinalPoll, FinalPollPanics, Elapse, DropTask
  <1>7. CASE ReaderStep \/ DropReader \/ CloseSignal \/ Cancel
    BY <1>3, <1>7 DEF ReaderStep, StartReader, ReaderDetached, ReaderGoes,
                      ReaderTakes,
       ReaderWaits, ReaderRefused, ReaderLeaves, DropReader, CloseSignal, Cancel
  <1> QED
    BY <1>1, <1>2, <1>3, <1>4, <1>5, <1>6, <1>7 DEF Next, vars

LEMMA AskedKeeps ==
  ASSUME Builds \subseteq {"plain"}, IInv, Asked, [Next]_vars
  PROVE  Asked'
  <1> SUFFICES ASSUME ~ EndAsked, Ending' PROVE EndAsked'
    BY EndStaysAsked DEF Asked, IInv
  <1>0. ~ Ending
    BY DEF Asked
  <1> USE <1>0 DEF Ending, EndAsked, queues, callerVars, taskVars, endVars, IInv
  <1>1. ASSUME NEW c \in Callers, Signal(c) PROVE EndAsked'
    <2>1. c \in Openers /\ c \notin Stoppers
      BY <1>1, PollerAssumption DEF Signal, SignalReady, SignalFilled,
                                    SignalRefused,
         Signalling, Callers
    <2>2. CASE SignalReady(c)
      <3>1. sig \in QueueOf({"resume", "stop"}, Task)
        BY DEF TypeOK
      <3>2. sig'.items = <<"resume">> /\ sig'.closed = sig.closed
        BY <2>1, <2>2, <3>1, Pushed DEF SignalReady
      <3>3. <<"resume">> # <<"stop">>
        OBVIOUS
      <3> QED
        BY <2>2, <3>2, <3>3 DEF SignalReady, TypeOK
    <2>3. CASE SignalFilled(c)
      <3>1. sig'.items = sig.items /\ sig'.closed = sig.closed
        BY <2>3, Registered DEF SignalFilled, TypeOK
      <3> QED
        BY <2>3, <3>1 DEF SignalFilled, TypeOK
    <2>4. CASE SignalRefused(c)
      BY <2>4 DEF SignalRefused
    <2> QED
      BY <1>1, <2>2, <2>3, <2>4 DEF Signal
  <1>2. ASSUME NEW c \in Callers, Tell(c) PROVE EndAsked'
    <2>1. CASE c \in Stoppers
      <3>1. cpc'[c] # "start"
        BY <1>2 DEF Tell, TellReady, TellFilled, TellRefused, TypeOK
      <3> QED
        BY <2>1, <3>1
    <2>2. CASE c \notin Stoppers /\ TellReady(c)
      <3>1. rsig \in QueueOf({"resume", "quit"}, Reader)
        BY DEF TypeOK
      <3>2. rsig'.items = <<"resume">> /\ rsig'.closed = rsig.closed
        BY <2>2, <3>1, Pushed DEF TellReady
      <3>3. <<"resume">> # <<"quit">>
        OBVIOUS
      <3> QED
        BY <2>2, <3>2, <3>3 DEF TellReady, TypeOK
    <2>3. CASE c \notin Stoppers /\ TellFilled(c)
      <3>1. rsig'.items = rsig.items /\ rsig'.closed = rsig.closed
        BY <2>3, Registered DEF TellFilled, TypeOK
      <3> QED
        BY <2>3, <3>1 DEF TellFilled, TypeOK
    <2>4. CASE TellRefused(c)
      BY <2>4 DEF TellRefused
    <2> QED
      BY <1>2, <2>1, <2>2, <2>3, <2>4 DEF Tell
  <1>3. ASSUME NEW o \in Openers, Register(o) PROVE EndAsked'
    <2>1. CASE RegisterReady(o)
      <3>1. reg'.closed = reg.closed
        BY <2>1, Pushed DEF RegisterReady, TypeOK
      <3> QED
        BY <2>1, <3>1 DEF RegisterReady, TypeOK
    <2>2. CASE RegisterFilled(o)
      <3>1. o \in Callers /\ reg \in QueueOf(Openers, Task) /\ reg' = RegisterSend(reg, o)
        BY <2>2 DEF RegisterFilled, TypeOK, Callers
      <3>2. reg'.closed = reg.closed
        BY <3>1, Registered
      <3> QED
        BY <2>2, <3>2 DEF RegisterFilled, TypeOK
    <2>3. CASE RegisterClosed(o)
      BY <2>3 DEF RegisterClosed
    <2> QED
      BY <1>3, <2>1, <2>2, <2>3 DEF Register
  <1>4. ASSUME NEW c \in Callers, Abandon(c) PROVE EndAsked'
    BY <1>4 DEF Abandon, TypeOK
  <1>5. CASE StopPoller \/ CloseReadSignal \/ CloseSignal \/ Cancel
    BY <1>5 DEF StopPoller, CloseReadSignal, CloseSignal, Cancel
  <1>6. ASSUME NEW o \in Openers, CloseSession(o) PROVE EndAsked'
    BY <1>6 DEF CloseSession
  <1>7. CASE StartDetached \/ DropTask \/ ReaderDetached \/ DropReader
    BY <1>7 DEF StartDetached, DropTask, ReaderDetached, DropReader, TypeOK
  <1>8. CASE MainReceives
    BY <1>8, Popped DEF MainReceives, TypeOK
  <1>9. CASE MainWaits
    BY <1>9, Registered DEF MainWaits, TypeOK, RegisterRecv, QueueOf
  <1>10. CASE TakeResume
    <2>1. sig'.closed = sig.closed /\ sig'.items = << >>
      <3>1. sig.items # << >>
        BY <1>10 DEF TakeResume
      <3> QED
        BY <1>10, <3>1, Popped DEF TakeResume, TypeOK
    <2>2. << >> # <<"stop">>
      OBVIOUS
    <2> QED
      BY <1>10, <2>1, <2>2 DEF TakeResume
  <1>11. CASE NoSignal
    BY <1>11 DEF NoSignal, TypeOK, RegisterRecv, QueueOf
  <1>12. CASE EndStep \/ TakeStop \/ SignalIsClosed \/ MainEnds
    BY <1>12 DEF EndStep, LeaveLoop, StopOwnQueue, FinalPoll, FinalPollPanics,
                 TakeStop,
       SignalIsClosed, MainEnds
  <1>13. CASE \/ StartTask \/ PolledTask \/ NothingToUpdate \/ Round \/ SleepOver
              \/ SleepOn \/ Elapse \/ StartReader
    BY <1>13 DEF StartTask, PolledTask, NothingToUpdate, Round, SleepOver,
                 SleepOn,
       Elapse, StartReader
  <1>14. CASE ReaderTakes
    <2>1. rsig.items # << >> /\ rsig \in QueueOf({"resume", "quit"}, Reader)
      BY <1>14 DEF ReaderTakes, TypeOK
    <2>2. /\ rsig'.closed = rsig.closed /\ rsig'.items = << >>
          /\ rsig.items = <<Head(rsig.items)>>
      BY <1>14, <2>1, Popped DEF ReaderTakes
    <2>3. Head(rsig.items) # "quit" /\ << >> # <<"quit">>
      BY <2>2
    <2> QED
      BY <1>14, <2>2, <2>3 DEF ReaderTakes, ReaderOn
  <1>15. CASE ReaderWaits
    BY <1>15 DEF ReaderWaits, TypeOK, RegisterRecv, QueueOf
  <1>16. CASE ReaderRefused \/ ReaderLeaves
    BY <1>16 DEF ReaderRefused, ReaderLeaves
  <1>17. CASE UNCHANGED vars
    BY <1>17 DEF vars
  <1> QED
    BY <1>1, <1>2, <1>3, <1>4, <1>5, <1>6, <1>7, <1>8, <1>9, <1>10, <1>11, <1>12,
       <1>13, <1>14, <1>15, <1>16, <1>17
       DEF Next, TaskStep, MainStep, SignalStep, ReaderStep

(* Without the feature multi_thread open fails only after somebody has     *)
(* closed, stopped or dropped the connector (with it the run               *)
(* poller_multi_thread shows the contrary).                                *)
THEOREM OpenSucceeds ==
  ASSUME Builds \subseteq {"plain"}
  PROVE  Spec => []OpenFailsOnlyIfAsked
  <1>1. Init => Asked
    BY AskedInitially
  <1>2. IInv /\ Asked /\ [Next]_vars => Asked'
    BY AskedKeeps
  <1>3. Asked => OpenFailsOnlyIfAsked
    BY DEF Asked, Ending, OpenFailsOnlyIfAsked
  <1> QED
    BY <1>1, <1>2, <1>3, Invariant, PTL DEF Spec
-----------------------------------------------------------------------------
(* A session whose open is not past register is nowhere yet (New), so it   *)
(* is accepted only once; and a poller that was not started keeps nothing. *)
New ==
  /\ pc = "start" => held = {}
  /\ \A o \in Openers :
       cpc[o] \in {"start", "registering"} => o \notin held \cup closed \cup Queued

CustodyStep == [custody!Next]_(custody!vars)

LEMMA QueuedIs ==
  ASSUME NEW S, NEW r, NEW q \in QueueOf(S, r)
  PROVE  \/ q.items = << >> /\ {q.items[i] : i \in DOMAIN q.items} = {}
         \/ \E x \in S : q.items = <<x>> /\ {q.items[i] : i \in DOMAIN q.items} = {x}
  <1>1. ASSUME NEW x PROVE DOMAIN <<x>> = {1} /\ <<x>>[1] = x
    OBVIOUS
  <1>2. DOMAIN << >> = {}
    OBVIOUS
  <1> QED
    BY <1>1, <1>2 DEF QueueOf

(* The steps of a custody.                                                 *)
LEMMA CAccepts ==
  ASSUME IInv, New, NEW o \in Openers, RegisterReady(o)
  PROVE  CustodyStep /\ New'
  <1> USE NotTask DEF IInv, TypeOK, taskVars, endVars
  <1>1. /\ reg' \in QueueOf(Openers, Task) /\ reg.items = << >> /\ reg'.items = <<o>>
        /\ reg'.closed = reg.closed
    BY Pushed DEF RegisterReady
  <1>2. Queued = {} /\ Queued' = {o}
    <2>1. DOMAIN << >> = {} /\ DOMAIN <<o>> = {1} /\ <<o>>[1] = o
      OBVIOUS
    <2> QED
      BY <1>1, <2>1 DEF Queued
  <1>3. /\ ~ reg.closed /\ cpc[o] \in {"start", "registering"}
        /\ cpc' = [cpc EXCEPT ![o] = "managing"]
        /\ UNCHANGED <<held, closed, cancelled, pc>>
    BY DEF RegisterReady, Registering
  <1>4. o \notin held \cup closed
    BY <1>3 DEF New
  <1>5. custody!Accept(o)
    BY <1>1, <1>2, <1>3, <1>4 DEF custody!Accept
  <1>6. New'
    BY <1>2, <1>3 DEF New, Callers
  <1> QED
    BY <1>5, <1>6 DEF CustodyStep, custody!Next

LEMMA CTakes ==
  ASSUME IInv, New, MainReceives
  PROVE  CustodyStep /\ New'
  <1> USE DEF IInv, TypeOK, callerVars, endVars
  <1>1. PICK x \in Openers : reg.items = <<x>> /\ Queued = {x}
    BY QueuedIs DEF MainReceives, Queued
  <1>2. /\ reg' \in QueueOf(Openers, Task) /\ reg'.items = << >> /\ reg'.closed = reg.closed
    BY Popped DEF MainReceives
  <1>3. Head(<<x>>) = x /\ DOMAIN << >> = {}
    OBVIOUS
  <1>4. Queued' = {} /\ held' = held \cup {x}
    BY <1>1, <1>2, <1>3 DEF MainReceives, Queued
  <1>5. ~ reg.closed /\ UNCHANGED <<closed, cancelled, cpc, pc>> /\ pc = "main"
    BY DEF MainReceives
  <1>6. custody!Take(x)
    BY <1>1, <1>2, <1>4, <1>5 DEF custody!Take
  <1>7. New'
    BY <1>1, <1>4, <1>5 DEF New
  <1> QED
    BY <1>6, <1>7 DEF CustodyStep, custody!Next

LEMMA CLetsGo ==
  ASSUME IInv, New, Round \/ MainEnds \/ FinalPoll
  PROVE  CustodyStep /\ New'
  <1> USE DEF queues, callerVars, endVars
  <1>1. PICK S \in SUBSET held :
          closed' = closed \cup S /\ held' \subseteq held /\ held \ held' \subseteq closed'
    <2>1. CASE Round
      <3>1. PICK due \in SUBSET (held \ closed) :
              closed' = closed \cup due /\ held' = held \ (closed \cup due)
        BY <2>1 DEF Round
      <3> QED
        BY <3>1
    <2>2. CASE MainEnds \/ FinalPoll
      BY <2>2 DEF MainEnds, FinalPoll
    <2> QED
      BY <2>1, <2>2
  <1>2. UNCHANGED <<reg, cancelled, cpc, Queued>> /\ pc # "start" /\ pc' # "start"
    BY DEF Round, MainEnds, FinalPoll, Queued
  <1>3. custody!LetGo(S)
    BY <1>1, <1>2 DEF custody!LetGo
  <1>4. New'
    BY <1>1, <1>2 DEF New
  <1> QED
    BY <1>1, <1>3, <1>4 DEF CustodyStep, custody!Next

LEMMA CCloses ==
  ASSUME New, NEW o \in Openers, CloseSession(o)
  PROVE  CustodyStep /\ New'
  <1> USE DEF queues, taskVars, endVars
  <1>1. /\ closed' = closed \cup {o} /\ cpc[o] \notin {"start", "registering"}
        /\ UNCHANGED <<reg, held, cancelled, cpc, pc, Queued>>
    BY DEF CloseSession, Queued
  <1>2. custody!CloseOthers({o})
    BY <1>1 DEF custody!CloseOthers
  <1> QED
    BY <1>1, <1>2 DEF CustodyStep, custody!Next, New

LEMMA CRefuses ==
  ASSUME New, reg' = CloseQueue(reg), UNCHANGED <<held, closed, cancelled, cpc>>,
         pc' # "start" \/ UNCHANGED pc
  PROVE  CustodyStep /\ New'
  <1>1. reg'.closed = TRUE /\ UNCHANGED Queued
    BY DEF CloseQueue, Queued
  <1>2. custody!Refuse
    BY <1>1 DEF custody!Refuse
  <1> QED
    BY <1>1, <1>2 DEF CustodyStep, custody!Next, New

LEMMA CDrops ==
  ASSUME New, StartDetached \/ DropTask
  PROVE  CustodyStep /\ New'
  <1> USE DEF callerVars, endVars
  <1>1. /\ reg' = CloseQueue(reg) /\ held' = {} /\ pc' = "ended"
        /\ UNCHANGED <<closed, cancelled, cpc>>
    BY DEF StartDetached, DropTask, DropWakes
  <1>2. CASE StartDetached
    BY <1>1, <1>2, CRefuses DEF StartDetached, New
  <1>3. CASE DropTask
    <2>1. reg'.closed = TRUE /\ UNCHANGED Queued /\ cancelled
      BY <1>1, <1>3 DEF CloseQueue, Queued, DropTask
    <2>2. custody!Drop
      BY <1>1, <2>1 DEF custody!Drop
    <2> QED
      BY <1>1, <2>1, <2>2 DEF CustodyStep, custody!Next, New
  <1> QED
    BY <1>2, <1>3

(* Everything else leaves the sessions where they are.                     *)
LEMMA CStutters ==
  ASSUME New, UNCHANGED <<Queued, reg.closed, held, closed, cancelled>>,
         pc' # "start" \/ UNCHANGED pc,
         \A o \in Openers : cpc'[o] \in {"start", "registering"} => cpc[o] \in {"start", "registering"}
  PROVE  CustodyStep /\ New'
  BY DEF CustodyStep, custody!vars, New

LEMMA CNext == IInv /\ New /\ [Next]_vars => CustodyStep /\ New'
  <1> SUFFICES ASSUME IInv, New, [Next]_vars PROVE CustodyStep /\ New'
    OBVIOUS
  <1> USE DEF queues, callerVars, taskVars, endVars
  <1>0. /\ cpc \in [Callers -> Stages]
        /\ reg \in QueueOf(Openers, Task) /\ Openers \subseteq Callers
    BY DEF IInv, TypeOK, Callers
  <1>1. ASSUME NEW o \in Openers, Register(o)
        PROVE  CustodyStep /\ New'
    <2>1. CASE RegisterFilled(o)
      <3>1. UNCHANGED <<Queued, reg.closed>>
        <4>1. reg'.items = reg.items /\ reg'.closed = reg.closed
          BY <1>0, <2>1, Registered DEF RegisterFilled
        <4> QED
          BY <4>1 DEF Queued
      <3> QED
        BY <1>0, <2>1, <3>1, CStutters DEF RegisterFilled, Registering
    <2>2. CASE RegisterClosed(o)
      <3>1. UNCHANGED <<Queued, reg.closed>>
        BY <2>2 DEF RegisterClosed, Queued
      <3> QED
        BY <1>0, <2>2, <3>1, CStutters DEF RegisterClosed
    <2> QED
      BY <1>1, <2>1, <2>2, CAccepts DEF Register
  <1>2. ASSUME NEW c \in Callers, Tell(c) \/ Signal(c) \/ Abandon(c)
        PROVE  CustodyStep /\ New'
    <2>1. UNCHANGED <<Queued, reg.closed, held, closed, cancelled, pc>>
      BY <1>2 DEF Tell, TellReady, TellFilled, TellRefused, Signal, SignalReady,
         SignalFilled, SignalRefused, Abandon, Queued
    <2>2. \E v \in Stages \ {"start", "registering"} : cpc' = [cpc EXCEPT ![c] = v]
      BY <1>2 DEF Tell, TellReady, TellFilled, TellRefused, Signal, SignalReady,
         SignalFilled, SignalRefused, Abandon, Stages
    <2> QED
      BY <1>0, <2>1, <2>2, CStutters
  <1>3. CASE StopPoller \/ StopOwnQueue
    BY <1>3, CRefuses DEF StopPoller, StopOwnQueue
  <1>4. CASE Cancel
    <2>1. cancelled' = TRUE /\ UNCHANGED <<reg, held, closed, cpc, pc, Queued>>
      BY <1>4 DEF Cancel, Queued
    <2>2. custody!Cancel
      BY <2>1 DEF custody!Cancel
    <2> QED
      BY <2>1, <2>2 DEF CustodyStep, custody!Next, New
  <1>5. CASE MainWaits
    <2>1. UNCHANGED <<Queued, reg.closed>>
      BY <1>0, <1>5 DEF MainWaits, RegisterRecv, QueueOf, Queued
    <2> QED
      BY <1>5, <2>1, CStutters DEF MainWaits
  <1>6. CASE \/ CloseSignal \/ CloseReadSignal \/ ReaderStep \/ DropReader
             \/ Elapse \/ StartTask \/ PolledTask \/ NothingToUpdate \/ SleepOver
             \/ SleepOn \/ SignalStep \/ LeaveLoop \/ FinalPollPanics
             \/ UNCHANGED vars
    <2>1. UNCHANGED <<reg, held, closed, cancelled, cpc>> /\ (pc' # "start" \/ UNCHANGED pc)
      BY <1>6 DEF CloseSignal, CloseReadSignal, ReaderStep, StartReader,
                  ReaderDetached,
         ReaderGoes, ReaderTakes, ReaderWaits, ReaderRefused, ReaderLeaves,
         DropReader,
         Elapse, StartTask, PolledTask, NothingToUpdate, SleepOver, SleepOn,
         SignalStep,
         TakeResume, TakeStop, SignalIsClosed, NoSignal, LeaveLoop,
         FinalPollPanics, vars
    <2>2. UNCHANGED <<Queued, reg.closed>>
      BY <2>1 DEF Queued
    <2> QED
      BY <2>1, <2>2, CStutters
  <1> QED
    BY <1>1, <1>2, <1>3, <1>4, <1>5, <1>6, CTakes, CLetsGo, CCloses, CDrops
       DEF Next, TaskStep, MainStep, EndStep

(* The poller accepts a session once, keeps it until it is closed, and     *)
(* lets an open one go only when it was cancelled, whatever signals, stops *)
(* and timers do (src/poller.rs).                                          *)
THEOREM PollerIsCustody == Spec => ImplementsCustody
  <1>1. Init => custody!Init /\ New
    <2> SUFFICES ASSUME Init PROVE custody!Init /\ New
      OBVIOUS
    <2>1. DOMAIN << >> = {}
      OBVIOUS
    <2>2. Queued = {} /\ reg.closed = FALSE
      BY <2>1 DEF Init, NewQueue, Queued
    <2> QED
      BY <2>2 DEF Init, custody!Init, New
  <1> QED
    BY <1>1, CNext, Invariant, PTL DEF Spec, ImplementsCustody, custody!Spec,
                                       CustodyStep
=============================================================================
