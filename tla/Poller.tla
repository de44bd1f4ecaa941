------------------------------- MODULE Poller -------------------------------
(***************************************************************************)
(* The poller task of a connector or a listener (src/poller.rs):           *)
(* GuardedUpdate, which runs run_async_update_internal, which runs         *)
(* poller_main, and the two queues other tasks reach it by - the register  *)
(* queue of KcpPoller and the KcpUpdateSig signal (src/signal.rs).         *)
(*                                                                         *)
(* Around it: one caller of open per session (register, Resume to the      *)
(* reader, Resume to the poller), the caller of KcpConnector::close (Quit  *)
(* to the reader, Stop to the poller), the task of run_async_read, which   *)
(* takes its signals one at a time, stop_all_processor, and the Cancelers  *)
(* that make the runtime drop the tasks.  This is a connector's order: a   *)
(* listener has no signal for its reader, which itself sends the one       *)
(* Resume before it registers anything.                                    *)
(*                                                                         *)
(* A poll of the task goes through both queues and the timer again and     *)
(* again until everything is pending; other threads run between any two of *)
(* these steps, so each is an action.  A session is its name here; what    *)
(* the poller does to one is in module Session.  No code sends             *)
(* KcpUpdateSig::Pause.  The state Stop of GuardedUpdate is never kept: it *)
(* is for a poller_main that is pending after the stop, and that one finds *)
(* its queue closed and ends.                                              *)
(***************************************************************************)
EXTENDS QueueImpl

CONSTANTS Openers,    \* callers of open, each named as the session it opens
          Stoppers,   \* callers of close: at most one
          Task,       \* the background task of the poller
          Reader,     \* and that of the reader
          QuebufSize, \* quebuf_size of the Config
          Builds,     \* of {"multi_thread", "plain"}: the builds considered,
                      \* with the crate feature multi_thread (the default) and
                      \* without
          Events      \* what may come from outside, of AllEvents

Callers == Openers \cup Stoppers
AllEvents == {"abandon", "close_session", "stop", "fail", "cancel"}

ASSUME PollerAssumption ==
  /\ Openers \cap Stoppers = {}
  /\ Task # Reader /\ Task \notin Callers /\ Reader \notin Callers
  /\ None \notin Callers \cup {Task, Reader}
  /\ QuebufSize \in Nat
  /\ Builds \subseteq {"multi_thread", "plain"}
  /\ Events \subseteq AllEvents

VARIABLES reg,        \* the register queue: sessions
          rsig,       \* the reader's signal: "resume" and "quit"
          sig,        \* the update signal: "resume" and "stop"
          woken,      \* tasks scheduled by a waker and not polled since
          cpc,        \* where each caller is
          closed      \* sessions closed, by anybody

VARIABLES pc,         \* where the task is; "idle" when its poll returned
          paused,     \* pause_poller
          held,       \* the sessions of poller_main
          sleep,      \* sleep_fut: none, made and not polled, armed, fired
          mainDone,   \* poller_main has completed
          outcome     \* how the task ended

VARIABLE rpc          \* where the reader is; "on" in its loop

VARIABLES cancelled,  \* the Cancelers have closed their signals
          asked,      \* history: somebody asked for an end: close, stop, cancel
          build       \* how the program was built; never changes

queues == <<reg, rsig, sig>>
callerVars == <<cpc, closed>>
taskVars == <<pc, paused, held, sleep, mainDone, outcome>>
endVars == <<cancelled, asked, build>>
vars == <<queues, woken, callerVars, taskVars, rpc, endVars>>

QueueOf(items, receiver) ==
  [max : 0 .. 1, items : {<< >>} \cup {<<x>> : x \in items}, closed : BOOLEAN,
   recvWaker : {receiver, None}, sendWaker : Callers \cup {None}]

(* managing: registered; telling: waits to signal the reader; resuming:    *)
(* has told the reader; signalling: waits to signal the poller.            *)
Stages == {"start", "registering", "managing", "telling", "resuming",
           "signalling", "done", "failed", "gone"}

TypeOK ==
  /\ reg \in QueueOf(Openers, Task)
  /\ rsig \in QueueOf({"resume", "quit"}, Reader)
  /\ sig \in QueueOf({"resume", "stop"}, Task)
  /\ woken \subseteq Callers \cup {Task, Reader}
  /\ cpc \in [Callers -> Stages]
  /\ closed \subseteq Openers
  /\ pc \in {"start", "idle", "main", "sleep", "signal", "leave", "stop",
            "final", "ended"}
  /\ rpc \in {"start", "on", "leave", "ended"}
  /\ paused \in BOOLEAN /\ mainDone \in BOOLEAN
  /\ cancelled \in BOOLEAN /\ asked \in BOOLEAN
  /\ build \in Builds
  /\ held \subseteq Openers
  /\ sleep \in {"none", "new", "armed", "fired"}
  /\ outcome \in {"none", "returned", "panicked", "dropped"}

(* KcpConnector::new has called Runner::start.  The queues are made with   *)
(* room for 10 and 255, that of the reader with room for quebuf_size.      *)
Init ==
  /\ reg = NewQueue(10)
  /\ rsig = NewQueue(QuebufSize)
  /\ sig = NewQueue(255)
  /\ woken = {}
  /\ cpc = [c \in Callers |-> "start"]
  /\ closed = {}
  /\ pc = "start" /\ paused = TRUE
  /\ held = {} /\ sleep = "none" /\ mainDone = FALSE
  /\ outcome = "none" /\ rpc = "start"
  /\ cancelled = FALSE /\ asked = FALSE
  /\ build \in Builds
-----------------------------------------------------------------------------
(* The callers.                                                            *)

(* KcpPoller::register.                                                    *)
Registering(o) == o \in Openers /\ cpc[o] \in {"start", "registering"}

(* Mutated forms stand before what they mutate, for checking that the      *)
(* properties can fail.  Here: the queue is not bounded.                   *)
RegisterReadyAnyway(o) ==
  /\ Registering(o)
  /\ ~ reg.closed
  /\ reg' = PushBack(reg, o)
  /\ cpc' = [cpc EXCEPT ![o] = "managing"]
  /\ woken' = (woken \ {o}) \cup Wake(reg.recvWaker)
  /\ UNCHANGED <<rsig, sig, closed, taskVars, rpc, endVars>>

RegisterReady(o) ==
  /\ Registering(o)
  /\ ~ reg.closed /\ ~ Filled(reg)
  /\ reg' = PushBack(reg, o)
  /\ cpc' = [cpc EXCEPT ![o] = "managing"]
  /\ woken' = (woken \ {o}) \cup Wake(reg.recvWaker)
  /\ UNCHANGED <<rsig, sig, closed, taskVars, rpc, endVars>>

RegisterFilled(o) ==
  /\ Registering(o)
  /\ ~ reg.closed /\ Filled(reg)
  /\ reg' = RegisterSend(reg, o)
  /\ cpc' = [cpc EXCEPT ![o] = "registering"]
  /\ woken' = woken \ {o}
  /\ UNCHANGED <<rsig, sig, closed, taskVars, rpc, endVars>>

RegisterClosed(o) ==
  /\ Registering(o)
  /\ reg.closed
  /\ cpc' = [cpc EXCEPT ![o] = "failed"]
  /\ woken' = woken \ {o}
  /\ UNCHANGED <<queues, closed, taskVars, rpc, endVars>>

Register(o) == RegisterReady(o) \/ RegisterFilled(o) \/ RegisterClosed(o)

(* manage sends Resume to the reader, close sends it Quit and does not     *)
(* mind an error.  SigWrite::send: its flags read_closed and send_closed   *)
(* are only set when the queue is closed, and mean an error like it.       *)
Telling(c) ==
  \/ c \in Openers /\ cpc[c] \in {"managing", "telling"}
  \/ c \in Stoppers /\ cpc[c] \in {"start", "telling"}

TellReady(c) ==
  /\ Telling(c)
  /\ ~ rsig.closed /\ ~ Filled(rsig)
  /\ rsig' = PushBack(rsig, IF c \in Stoppers THEN "quit" ELSE "resume")
  /\ cpc' = [cpc EXCEPT ![c] = "resuming"]
  /\ woken' = (woken \ {c}) \cup Wake(rsig.recvWaker)
  /\ UNCHANGED <<reg, sig, closed, taskVars, rpc, endVars>>

TellFilled(c) ==
  /\ Telling(c)
  /\ ~ rsig.closed /\ Filled(rsig)
  /\ rsig' = RegisterSend(rsig, c)
  /\ cpc' = [cpc EXCEPT ![c] = "telling"]
  /\ woken' = woken \ {c}
  /\ UNCHANGED <<reg, sig, closed, taskVars, rpc, endVars>>

TellRefused(c) ==
  /\ Telling(c)
  /\ rsig.closed
  /\ cpc' = [cpc EXCEPT ![c] = IF c \in Stoppers THEN "resuming" ELSE "failed"]
  /\ woken' = woken \ {c}
  /\ UNCHANGED <<queues, closed, taskVars, rpc, endVars>>

Tell(c) == TellReady(c) \/ TellFilled(c) \/ TellRefused(c)

(* Then Resume or Stop goes to the poller.                                 *)
Signalling(c) == cpc[c] \in {"resuming", "signalling"}

SignalReady(c) ==
  /\ Signalling(c)
  /\ ~ sig.closed /\ ~ Filled(sig)
  /\ sig' = PushBack(sig, IF c \in Stoppers THEN "stop" ELSE "resume")
  /\ cpc' = [cpc EXCEPT ![c] = "done"]
  /\ woken' = (woken \ {c}) \cup Wake(sig.recvWaker)
  /\ UNCHANGED <<reg, rsig, closed, taskVars, rpc, endVars>>

SignalFilled(c) ==
  /\ Signalling(c)
  /\ ~ sig.closed /\ Filled(sig)
  /\ sig' = RegisterSend(sig, c)
  /\ cpc' = [cpc EXCEPT ![c] = "signalling"]
  /\ woken' = woken \ {c}
  /\ UNCHANGED <<reg, rsig, closed, taskVars, rpc, endVars>>

SignalRefused(c) ==
  /\ Signalling(c)
  /\ sig.closed
  /\ cpc' = [cpc EXCEPT ![c] = "failed"]
  /\ woken' = woken \ {c}
  /\ UNCHANGED <<queues, closed, taskVars, rpc, endVars>>

Signal(c) == SignalReady(c) \/ SignalFilled(c) \/ SignalRefused(c)

(* The caller of open, or of close, gives up while a send waits.           *)
Abandon(c) ==
  /\ "abandon" \in Events
  /\ cpc[c] \in {"registering", "telling", "signalling"}
  /\ cpc' = [cpc EXCEPT ![c] = "gone"]
  /\ woken' = woken \ {c}
  /\ UNCHANGED <<queues, closed, taskVars, rpc, endVars>>

(* stop_all_processor, of Drop and of a reader whose socket failed, stops  *)
(* the poller and closes the signals, in that order.  A failed output of   *)
(* kcp closes the signals without the stop.  Whoever begins goes on.       *)
StopPoller ==
  /\ "stop" \in Events
  /\ ~ reg.closed
  /\ reg' = CloseQueue(reg)
  /\ woken' = woken \cup Wake(reg.recvWaker) \cup Wake(reg.sendWaker)
  /\ asked' = TRUE
  /\ UNCHANGED <<rsig, sig, callerVars, taskVars, rpc, cancelled, build>>

CloseReadSignal ==
  /\ \/ "fail" \in Events /\ ~ asked
     \/ asked /\ ~ rsig.closed
  /\ rsig' = CloseQueue(rsig)
  /\ woken' = woken \cup Wake(rsig.recvWaker) \cup Wake(rsig.sendWaker)
  /\ asked' = TRUE
  /\ UNCHANGED <<reg, sig, callerVars, taskVars, rpc, cancelled, build>>

CloseSignal ==
  /\ asked /\ rsig.closed /\ ~ sig.closed
  /\ sig' = CloseQueue(sig)
  /\ woken' = woken \cup Wake(sig.recvWaker) \cup Wake(sig.sendWaker)
  /\ UNCHANGED <<reg, rsig, callerVars, taskVars, rpc, endVars>>

(* Canceler::cancel, of the two tasks: the select! of the runtime is woken.*)
(* Only Drop cancels, after stop_all_processor.                            *)
Cancel ==
  /\ "cancel" \in Events
  /\ ~ cancelled /\ sig.closed /\ {pc, rpc} # {"ended"}
  /\ cancelled' = TRUE
  /\ woken' = woken \cup {Task, Reader}
  /\ UNCHANGED <<queues, callerVars, taskVars, rpc, asked, build>>

(* force_close by somebody else than the poller.                           *)
CloseSession(o) ==
  /\ "close_session" \in Events
  /\ o \in Openers \ closed
  /\ cpc[o] \notin {"start", "registering"}
  /\ closed' = closed \cup {o}
  /\ UNCHANGED <<queues, woken, cpc, taskVars, rpc, endVars>>
-----------------------------------------------------------------------------
(* The task.                                                               *)

(* The task is dropped: Drop of GuardedUpdate stops the poller, SigRead is *)
(* dropped, and the sessions of poller_main are dropped as they are.       *)
DropWakes ==
  /\ reg' = CloseQueue(reg)
  /\ sig' = CloseQueue(sig)
  /\ woken' = (woken \ {Task}) \cup Wake(reg.sendWaker) \cup Wake(sig.sendWaker)
  /\ held' = {} /\ sleep' = "none"
  /\ outcome' = "dropped"
  /\ pc' = "ended"

(* Runner::start of the tokio runtime spawns the task.  With multi_thread  *)
(* the closure of the new thread only makes the closure that would run the *)
(* task; both are dropped, and the task with them, unpolled.               *)
StartTask ==
  /\ pc = "start" /\ build = "plain"
  /\ pc' = "idle"
  /\ woken' = woken \cup {Task}
  /\ UNCHANGED <<queues, callerVars, paused, held, sleep, mainDone, outcome,
                 rpc, endVars>>

StartDetached ==
  /\ pc = "start" /\ build = "multi_thread"
  /\ DropWakes
  /\ UNCHANGED <<rsig, callerVars, paused, mainDone, rpc, endVars>>

(* Anyone::poll: the data future first, and nothing of it while paused.    *)
PolledTask ==
  /\ pc = "idle" /\ Task \in woken
  /\ woken' = woken \ {Task}
  /\ pc' = IF paused THEN "signal" ELSE "main"
  /\ UNCHANGED <<queues, callerVars, paused, held, sleep, mainDone, outcome,
                 rpc, endVars>>

(* poller_main: recv of the register queue.  An error ends the loop, and   *)
(* the sessions are closed.                                                *)
MainReceives ==
  /\ pc = "main"
  /\ ~ reg.closed /\ reg.items # << >>
  /\ held' = held \cup {Head(reg.items)}
  /\ reg' = PopFront(reg)
  /\ woken' = woken \cup Wake(reg.sendWaker)
  /\ UNCHANGED <<rsig, sig, callerVars, pc, paused, sleep, mainDone, outcome,
                 rpc, endVars>>

MainWaits ==
  /\ pc = "main"
  /\ ~ reg.closed /\ reg.items = << >>
  /\ reg' = RegisterRecv(reg, Task)
  /\ pc' = "sleep"
  /\ UNCHANGED <<rsig, sig, woken, callerVars, paused, held, sleep, mainDone,
                 outcome, rpc, endVars>>

MainEnds ==
  /\ pc = "main"
  /\ reg.closed
  /\ closed' = closed \cup held
  /\ held' = {} /\ sleep' = "none"
  /\ mainDone' = TRUE
  /\ pc' = "leave"
  /\ UNCHANGED <<queues, woken, cpc, paused, outcome, rpc, endVars>>

(* poller_main: the timer.                                                 *)
NothingToUpdate ==
  /\ pc = "sleep" /\ sleep = "none" /\ held = {}
  /\ pc' = "signal"
  /\ UNCHANGED <<queues, woken, callerVars, paused, held, sleep, mainDone,
                 outcome, rpc, endVars>>

(* poll_update: the sessions that are closed leave, and those it finds     *)
(* due are closed and leave.  The timer made is not polled yet.            *)
RoundForgets ==
  /\ pc = "sleep" /\ sleep = "none" /\ held # {}
  /\ \E due \in SUBSET (held \ closed) : held' = held \ (closed \cup due)
  /\ sleep' = "new"
  /\ pc' = "main"
  /\ UNCHANGED <<queues, woken, callerVars, paused, mainDone, outcome, rpc,
                 endVars>>

RoundWithoutTimer ==
  /\ pc = "sleep" /\ sleep = "none" /\ held # {}
  /\ \E due \in SUBSET (held \ closed) :
       /\ closed' = closed \cup due
       /\ held' = held \ (closed \cup due)
  /\ pc' = "signal"
  /\ UNCHANGED <<queues, woken, cpc, paused, sleep, mainDone, outcome, rpc,
                 endVars>>

Round ==
  /\ pc = "sleep" /\ sleep = "none" /\ held # {}
  /\ \E due \in SUBSET (held \ closed) :
       /\ closed' = closed \cup due
       /\ held' = held \ (closed \cup due)
  /\ sleep' = "new"
  /\ pc' = "main"
  /\ UNCHANGED <<queues, woken, cpc, paused, mainDone, outcome, rpc, endVars>>

SleepOver ==
  /\ pc = "sleep" /\ sleep = "fired"
  /\ sleep' = "none"
  /\ pc' = "main"
  /\ UNCHANGED <<queues, woken, callerVars, paused, held, mainDone, outcome,
                 rpc, endVars>>

SleepOn ==
  /\ pc = "sleep" /\ sleep \in {"new", "armed"}
  /\ sleep' = "armed"
  /\ pc' = "signal"
  /\ UNCHANGED <<queues, woken, callerVars, paused, held, mainDone, outcome,
                 rpc, endVars>>

(* The timer of the runtime: it wakes the task that polled it.             *)
Elapse ==
  /\ sleep \in {"new", "armed"}
  /\ sleep' = "fired"
  /\ woken' = IF sleep = "armed" THEN woken \cup {Task} ELSE woken
  /\ UNCHANGED <<queues, callerVars, pc, paused, held, mainDone, outcome, rpc,
                 endVars>>

(* run_async_update_internal: recv of the signal, then from the beginning. *)
TakeResumeLate ==
  /\ pc = "signal"
  /\ ~ sig.closed /\ sig.items = <<"resume">>
  /\ sig' = PopFront(sig)
  /\ woken' = woken \cup Wake(sig.sendWaker)
  /\ paused' = FALSE
  /\ pc' = "idle"
  /\ UNCHANGED <<reg, rsig, callerVars, held, sleep, mainDone, outcome, rpc,
                 endVars>>

TakeResumeAsStop ==
  /\ pc = "signal"
  /\ ~ sig.closed /\ sig.items = <<"resume">>
  /\ sig' = PopFront(sig)
  /\ woken' = woken \cup Wake(sig.sendWaker)
  /\ pc' = "leave"
  /\ UNCHANGED <<reg, rsig, callerVars, paused, held, sleep, mainDone, outcome,
                 rpc, endVars>>

TakeResume ==
  /\ pc = "signal"
  /\ ~ sig.closed /\ sig.items = <<"resume">>
  /\ sig' = PopFront(sig)
  /\ woken' = woken \cup Wake(sig.sendWaker)
  /\ paused' = FALSE
  /\ pc' = "main"
  /\ UNCHANGED <<reg, rsig, callerVars, held, sleep, mainDone, outcome, rpc,
                 endVars>>

TakeStopAsPause ==
  /\ pc = "signal"
  /\ ~ sig.closed /\ sig.items = <<"stop">>
  /\ sig' = PopFront(sig)
  /\ woken' = woken \cup Wake(sig.sendWaker)
  /\ paused' = TRUE
  /\ UNCHANGED <<reg, rsig, callerVars, pc, held, sleep, mainDone, outcome,
                 rpc, endVars>>

TakeStop ==
  /\ pc = "signal"
  /\ ~ sig.closed /\ sig.items = <<"stop">>
  /\ sig' = PopFront(sig)
  /\ woken' = woken \cup Wake(sig.sendWaker)
  /\ pc' = "leave"
  /\ UNCHANGED <<reg, rsig, callerVars, paused, held, sleep, mainDone, outcome,
                 rpc, endVars>>

SignalIsClosed ==
  /\ pc = "signal"
  /\ sig.closed
  /\ pc' = "leave"
  /\ UNCHANGED <<queues, woken, callerVars, paused, held, sleep, mainDone,
                 outcome, rpc, endVars>>

(* Both futures are pending: the poll returns.                             *)
NoSignal ==
  /\ pc = "signal"
  /\ ~ sig.closed /\ sig.items = << >>
  /\ sig' = RegisterRecv(sig, Task)
  /\ pc' = "idle"
  /\ UNCHANGED <<reg, rsig, woken, callerVars, paused, held, sleep, mainDone,
                 outcome, rpc, endVars>>

LeaveLoopOpen ==
  /\ pc = "leave"
  /\ pc' = "stop"
  /\ UNCHANGED <<queues, woken, callerVars, paused, held, sleep, mainDone,
                 outcome, rpc, endVars>>

(* run_async_update_internal returns: its SigRead is dropped.              *)
LeaveLoop ==
  /\ pc = "leave"
  /\ sig' = CloseQueue(sig)
  /\ woken' = woken \cup Wake(sig.recvWaker) \cup Wake(sig.sendWaker)
  /\ pc' = "stop"
  /\ UNCHANGED <<reg, rsig, callerVars, paused, held, sleep, mainDone, outcome,
                 rpc, endVars>>

(* GuardedUpdate::poll: stop, then a last poll of poller_main.             *)
StopOwnQueue ==
  /\ pc = "stop"
  /\ reg' = CloseQueue(reg)
  /\ woken' = woken \cup Wake(reg.recvWaker) \cup Wake(reg.sendWaker)
  /\ pc' = "final"
  /\ UNCHANGED <<rsig, sig, callerVars, paused, held, sleep, mainDone, outcome,
                 rpc, endVars>>

FinalPoll ==
  /\ pc = "final" /\ ~ mainDone
  /\ closed' = closed \cup held
  /\ held' = {} /\ sleep' = "none"
  /\ mainDone' = TRUE
  /\ outcome' = "returned"
  /\ pc' = "ended"
  /\ UNCHANGED <<queues, woken, cpc, paused, rpc, endVars>>

(* The last poll comes after poller_main has completed on its own: an      *)
(* async fn that is polled again panics.                                   *)
FinalPollPanics ==
  /\ pc = "final" /\ mainDone
  /\ outcome' = "panicked"
  /\ pc' = "ended"
  /\ UNCHANGED <<queues, woken, callerVars, paused, held, sleep, mainDone, rpc,
                 endVars>>

(* select! drops the cancelled task between two polls.                     *)
DropTask ==
  /\ pc = "idle" /\ cancelled
  /\ DropWakes
  /\ UNCHANGED <<rsig, callerVars, paused, mainDone, rpc, endVars>>

-----------------------------------------------------------------------------
(* The reader: run_async_read, as far as its signals go.  A poll that      *)
(* handles datagrams looks at the signal last, like any other, and finds   *)
(* its waker still there; it is left out.  It is woken until it has found  *)
(* its signal empty, so there is no step for the beginning of a poll.      *)
(* A failed socket is stop_all_processor, and the signal closed by it.     *)
(* Pause is sent by nobody.                                                *)
StartReader ==
  /\ rpc = "start" /\ build = "plain"
  /\ rpc' = "on"
  /\ woken' = woken \cup {Reader}
  /\ UNCHANGED <<queues, callerVars, taskVars, endVars>>

(* Its SigRead goes with it.                                               *)
ReaderGoes ==
  /\ rsig' = CloseQueue(rsig)
  /\ woken' = (woken \ {Reader}) \cup Wake(rsig.sendWaker)
  /\ rpc' = "ended"
  /\ UNCHANGED <<reg, sig, callerVars, taskVars>>

ReaderDetached ==
  /\ rpc = "start" /\ build = "multi_thread"
  /\ ReaderGoes
  /\ UNCHANGED endVars

ReaderOn == rpc = "on" /\ Reader \in woken

ReaderTakesOne ==
  /\ ReaderOn
  /\ ~ rsig.closed /\ rsig.items # << >>
  /\ rsig' = PopFront(rsig)
  /\ rpc' = IF Head(rsig.items) = "quit" THEN "leave" ELSE "on"
  /\ woken' = (woken \ {Reader}) \cup Wake(rsig.sendWaker)
  /\ UNCHANGED <<reg, sig, callerVars, taskVars, endVars>>

ReaderTakes ==
  /\ ReaderOn
  /\ ~ rsig.closed /\ rsig.items # << >>
  /\ rsig' = PopFront(rsig)
  /\ rpc' = IF Head(rsig.items) = "quit" THEN "leave" ELSE "on"
  /\ woken' = woken \cup Wake(rsig.sendWaker)
  /\ UNCHANGED <<reg, sig, callerVars, taskVars, endVars>>

ReaderWaits ==
  /\ ReaderOn
  /\ ~ rsig.closed /\ rsig.items = << >>
  /\ rsig' = RegisterRecv(rsig, Reader)
  /\ woken' = woken \ {Reader}
  /\ UNCHANGED <<reg, sig, callerVars, taskVars, rpc, endVars>>

ReaderRefused ==
  /\ ReaderOn /\ rsig.closed
  /\ rpc' = "leave"
  /\ UNCHANGED <<queues, woken, callerVars, taskVars, endVars>>

ReaderLeaves == rpc = "leave" /\ ReaderGoes /\ UNCHANGED endVars

DropReader ==
  /\ rpc = "on" /\ cancelled
  /\ ReaderGoes
  /\ UNCHANGED endVars

ReaderStep ==
  \/ StartReader \/ ReaderDetached
  \/ ReaderTakes \/ ReaderWaits \/ ReaderRefused \/ ReaderLeaves

MainStep ==
  \/ MainReceives \/ MainWaits \/ MainEnds
  \/ NothingToUpdate \/ Round \/ SleepOver \/ SleepOn
SignalStep == TakeResume \/ TakeStop \/ SignalIsClosed \/ NoSignal
EndStep == LeaveLoop \/ StopOwnQueue \/ FinalPoll \/ FinalPollPanics
TaskStep ==
  \/ StartTask \/ StartDetached \/ PolledTask
  \/ MainStep \/ SignalStep \/ EndStep

Next ==
  \/ \E o \in Openers : Register(o) \/ CloseSession(o)
  \/ \E c \in Callers : Tell(c) \/ Signal(c) \/ Abandon(c)
  \/ StopPoller \/ CloseReadSignal \/ CloseSignal \/ Cancel
  \/ TaskStep \/ Elapse \/ DropTask
  \/ ReaderStep \/ DropReader

Spec == Init /\ [][Next]_vars
-----------------------------------------------------------------------------
(* The executor polls what is woken and finishes the polls it has begun, a *)
(* caller of open or close that has not given up goes on, and timers fire. *)
(* The reader comes to its signals: its socket is not ready for ever.      *)
(* Nobody has to call open, close or stop, but who begins to stop the      *)
(* processors goes on.  The last conjunct: the timer of a round sleeps for *)
(* milliseconds, so it is not over again and again before its first poll,  *)
(* and polls of poller_main come to an end.                                *)
Fairness ==
  /\ WF_vars(TaskStep) /\ WF_vars(Elapse) /\ WF_vars(ReaderStep)
  /\ WF_vars(asked /\ CloseReadSignal) /\ WF_vars(CloseSignal)
  /\ \A o \in Openers : WF_vars(o \in woken /\ Register(o))
  /\ \A c \in Callers :
       /\ WF_vars((c \in woken \/ cpc[c] = "managing") /\ Tell(c))
       /\ WF_vars((c \in woken \/ cpc[c] = "resuming") /\ Signal(c))
  /\ []<>(pc \notin {"main", "sleep"})

FairSpec == Spec /\ Fairness
-----------------------------------------------------------------------------
(* A task whose poll returned Pending and that no waker has scheduled      *)
(* since has nothing to do, and whatever comes will find its waker: no     *)
(* signal; if it is not paused, no session to register, and a running      *)
(* timer when it holds sessions (run_async_update_internal, poller_main).  *)
(* The same of the reader and its signal.                                  *)
TaskNotForgotten ==
  /\ pc = "idle" /\ Task \notin woken =>
       /\ sig.items = << >> /\ ~ sig.closed /\ sig.recvWaker = Task
       /\ ~ paused =>
            /\ reg.items = << >> /\ ~ reg.closed /\ reg.recvWaker = Task
            /\ held # {} => sleep = "armed"
  /\ rpc = "on" /\ Reader \notin woken =>
       rsig.items = << >> /\ ~ rsig.closed /\ rsig.recvWaker = Reader

(* A session accepted by register is in the queue, or held, or closed -    *)
(* unless the task was dropped with it.  What stays in a queue that was    *)
(* closed stays there for good.                                            *)
Accepted(o) ==
  cpc[o] \in {"managing", "telling", "resuming", "signalling", "done"}
NoSessionLost ==
  \A o \in Openers :
    Accepted(o) =>
      \/ reg.items = <<o>> \/ o \in held \/ o \in closed
      \/ outcome = "dropped"

(* However the task ends by itself - Stop, a closed signal, a closed       *)
(* queue, even a panic - every session it took from the queue is closed,   *)
(* and nobody can register or signal any more.                             *)
EndedClosesAll ==
  outcome \in {"returned", "panicked"} =>
    /\ reg.closed /\ sig.closed
    /\ \A o \in Openers : Accepted(o) => o \in closed \/ reg.items = <<o>>

(* open fails only after somebody has asked for an end: a connector that   *)
(* nobody closed, stopped or dropped opens sessions.                       *)
EndAsked == asked \/ \E c \in Stoppers : cpc[c] # "start"
OpenFailsOnlyIfAsked == (\E o \in Openers : cpc[o] = "failed") => EndAsked

(* open returns, with the session or with an error, and so does close,     *)
(* unless another caller that waits has overwritten its waker: each of the *)
(* three queues they go through has one slot for all.                      *)
Overwritten(c) ==
  /\ c \notin woken
  /\ \/ cpc[c] = "registering" /\ reg.sendWaker # c
     \/ cpc[c] = "telling" /\ rsig.sendWaker # c
     \/ cpc[c] = "signalling" /\ sig.sendWaker # c

OpenReturns ==
  \A c \in Callers :
    cpc[c] \in {"registering", "managing", "telling", "resuming", "signalling"}
      ~> cpc[c] \in {"done", "failed", "gone"} \/ Overwritten(c)

(* A session opened is taken from the queue, unless the queue is closed    *)
(* over it.                                                                *)
OpenedIsServed ==
  \A o \in Openers : cpc[o] = "done" ~> reg.items # <<o>> \/ reg.closed

(* A poller that holds sessions comes to its next round.                   *)
HeldIsUpdated ==
  held # {} ~> held = {} \/ (pc = "sleep" /\ sleep = "none")

(* close ends the poller, once its second send has gone through; a close   *)
(* given up between the two has stopped only the reader.                   *)
StopEnds == \A c \in Stoppers : cpc[c] = "done" ~> pc = "ended"
-----------------------------------------------------------------------------
(* The poller implements Custody: a session enters by the register queue,  *)
(* once, is taken by poller_main and leaves it closed, whatever signals,   *)
(* stops and timers do in between.                                         *)
Queued == {reg.items[i] : i \in DOMAIN reg.items}
custody == INSTANCE Custody
             WITH Sessions <- Openers, accepting <- ~ reg.closed,
                  queued <- Queued, kept <- held

ImplementsCustody == custody!Spec
=============================================================================
