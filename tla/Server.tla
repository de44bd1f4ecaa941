------------------------------- MODULE Server -------------------------------
(***************************************************************************)
(* The server, src/server.rs: the reader, which makes a session for the    *)
(* first datagram of a peer and conv; the acceptor queue; accept, streams  *)
(* and their Drop; the Drop of the listener; together with the closer      *)
(* task of module Closer, whose keys are here pairs of a peer and a conv.  *)
(*                                                                         *)
(* The poller is here as what it does to sessions: it takes them from its  *)
(* register queue, updates them - a test of closed(), and then under a     *)
(* second lock a timeout or a flush into the sender queue - and closes     *)
(* what it holds when its signal is closed (module Poller).                *)
(*                                                                         *)
(* The build is the one without multi_thread: with it no task runs at all. *)
(***************************************************************************)
EXTENDS Closer

VARIABLES spc,        \* where each session, and then its stream, is
          key,        \* its peer and conv
          acceptor,   \* the stream in the acceptor queue, or None
          queued,     \* the session in the poller's register queue
          held,       \* the sessions of the poller
          poller,     \* running, stopped (its queue is closed), ended
          updating,   \* the session update has found open, before its lock
          reader,     \* where the reader is
          subject,    \* the session it has in hand, or None
          stage,      \* how far the Drop of the listener is
          aborted     \* history: outputs that found their queue closed, by
                      \* what put them out and for which session

streamVars == <<spc, key, acceptor>>
pollerVars == <<queued, held, poller, updating>>
readerVars == <<reader, subject>>
vars == <<cvars, streamVars, pollerVars, readerVars, stage, aborted>>

(* new: not used yet; made: it has a kcp and waits to register; inserted:  *)
(* in the table, its stream waits for room in the acceptor queue; waiting: *)
(* its stream is in that queue; open, dropped: accept has returned it, the *)
(* application has dropped it; gone: it never came that far.               *)
InHand == {"made", "registered", "inserted"}

TypeOK ==
  /\ CloserTypeOK
  /\ spc \in [Streams -> InHand \cup {"new", "waiting", "open", "dropped", "gone"}]
  /\ key \in [Streams -> Keys \cup {None}]
  /\ acceptor \in Streams \cup {None}
  /\ queued \in Streams \cup {None}
  /\ held \subseteq Streams
  /\ poller \in {"running", "stopped", "ended"}
  /\ updating \in Streams \cup {None}
  /\ reader \in InHand \cup {"starting", "reading", "found", "quit"}
  /\ subject \in Streams \cup {None}
  /\ stage \in 0 .. 5
  /\ aborted \subseteq {"write", "update"} \X Streams

Init ==
  /\ CloserInit
  /\ spc = [s \in Streams |-> "new"]
  /\ key = [s \in Streams |-> None]
  /\ acceptor = None
  /\ queued = None /\ held = {} /\ poller = "running" /\ updating = None
  /\ reader = "starting" /\ subject = None
  /\ stage = 0
  /\ aborted = {}

(* The Drop of the listener has closed the sender queue, the poller's      *)
(* signal, and at last cancelled the tasks.                                *)
SenderClosed == stage >= 3
SignalClosed == stage >= 4
Cancelled == stage = 5
-----------------------------------------------------------------------------
(* The reader, kcp_async_recv.                                             *)

(* Resume to the poller; there is room for it.                             *)
ReaderStarts ==
  /\ reader = "starting"
  /\ reader' = IF SignalClosed THEN "quit" ELSE "reading"
  /\ UNCHANGED <<cvars, streamVars, pollerVars, subject, stage, aborted>>

(* A datagram of a session in the table.  The reader keeps the session,    *)
(* whatever becomes of the table.  Errors of the socket are retried at     *)
(* once, and change nothing.                                               *)
Found(k) ==
  /\ reader = "reading" /\ table[k] # None
  /\ reader' = "found" /\ subject' = table[k]
  /\ UNCHANGED <<cvars, streamVars, pollerVars, stage, aborted>>

Back == reader' = "reading" /\ subject' = None

(* poll_input, and force_close when kcp refuses the datagram: the session  *)
(* is closed, and stays in the table.                                      *)
InputTaken ==
  /\ reader = "found"
  /\ Back
  /\ UNCHANGED <<cvars, streamVars, pollerVars, stage, aborted>>

InputRefused ==
  /\ reader = "found"
  /\ closed' = closed \cup {subject}
  /\ Back
  /\ UNCHANGED <<table, drained, closerVars, streamVars, pollerVars, stage, aborted>>

(* The first datagram of a peer and conv.  Sessions are named in the order *)
(* in which they are made.                                                 *)
NextNew == CHOOSE s \in Streams : spc[s] = "new"

FirstInput(k) ==
  /\ reader = "reading" /\ table[k] = None
  /\ \E s \in Streams :
       /\ spc[s] = "new" /\ s = NextNew
       /\ spc' = [spc EXCEPT ![s] = "made"]
       /\ key' = [key EXCEPT ![s] = k]
       /\ subject' = s
  /\ reader' = "made"
  /\ UNCHANGED <<cvars, acceptor, pollerVars, stage, aborted>>

(* kcp refuses it: the session is closed and forgotten.                    *)
FirstInputRefused(k) ==
  /\ reader = "reading" /\ table[k] = None
  /\ \E s \in Streams :
       /\ spc[s] = "new" /\ s = NextNew
       /\ spc' = [spc EXCEPT ![s] = "gone"]
       /\ closed' = closed \cup {s}
  /\ UNCHANGED <<table, drained, closerVars, key, acceptor, pollerVars, readerVars,
                 stage, aborted>>

(* manage: register, which waits for room in the poller's queue, and then  *)
(* the insertion.                                                          *)
Register ==
  /\ reader = "made" /\ poller = "running" /\ queued = None
  /\ queued' = subject
  /\ spc' = [spc EXCEPT ![subject] = "registered"]
  /\ reader' = "registered"
  /\ UNCHANGED <<cvars, key, acceptor, held, poller, updating, subject, stage, aborted>>

RegisterFails ==
  /\ reader = "made" /\ poller # "running"
  /\ spc' = [spc EXCEPT ![subject] = "gone"]
  /\ reader' = "quit" /\ subject' = None
  /\ UNCHANGED <<cvars, key, acceptor, pollerVars, stage, aborted>>

Insert ==
  /\ reader = "registered"
  /\ table' = [table EXCEPT ![key[subject]] = subject]
  /\ spc' = [spc EXCEPT ![subject] = "inserted"]
  /\ reader' = "inserted"
  /\ UNCHANGED <<closed, drained, closerVars, key, acceptor, pollerVars, subject,
                 stage, aborted>>

(* The send of the acceptor queue, which holds one stream.                 *)
Offer ==
  /\ reader = "inserted" /\ acceptor = None
  /\ acceptor' = subject
  /\ spc' = [spc EXCEPT ![subject] = "waiting"]
  /\ Back
  /\ UNCHANGED <<cvars, key, pollerVars, stage, aborted>>

(* The cancelled reader is dropped where it waits: for a datagram, or for  *)
(* room in one of the two queues.  What it has in hand goes with it, and   *)
(* with the last end of the acceptor queue the stream in it, even when the *)
(* reader has quit before.  Their Drop finds the closer's queue closed.    *)
ReaderDropped ==
  /\ Cancelled
  /\ \/ reader \in {"starting", "reading", "made", "inserted"}
     \/ reader = "quit" /\ acceptor # None
  /\ spc' = [s \in Streams |-> IF s \in {subject, acceptor} THEN "gone" ELSE spc[s]]
  /\ reader' = "quit" /\ subject' = None
  /\ acceptor' = None
  /\ UNCHANGED <<cvars, key, pollerVars, stage, aborted>>

ReaderGoesOn ==
  \/ ReaderStarts \/ InputTaken \/ InputRefused
  \/ Register \/ RegisterFails \/ Insert \/ Offer
-----------------------------------------------------------------------------
(* The application.                                                        *)
Accept ==
  /\ stage = 0 /\ acceptor # None
  /\ spc' = [spc EXCEPT ![acceptor] = "open"]
  /\ acceptor' = None
  /\ UNCHANGED <<cvars, key, pollerVars, readerVars, stage, aborted>>

(* KcpOutput::output unwraps the result of block_send.                     *)
Output(by, s) ==
  aborted' = IF SenderClosed THEN aborted \cup {<<by, s>>} ELSE aborted

(* poll_send: closed or not is decided under the lock it sends under.      *)
WriteUnlocked(s) ==
  /\ spc[s] = "open"
  /\ Output("write", s)
  /\ UNCHANGED <<cvars, streamVars, pollerVars, readerVars, stage>>

Write(s) ==
  /\ spc[s] = "open" /\ s \notin closed
  /\ Output("write", s)
  /\ UNCHANGED <<cvars, streamVars, pollerVars, readerVars, stage>>

(* Drop of ServerImpl.                                                     *)
DropStream(s) ==
  /\ spc[s] = "open"
  /\ spc' = [spc EXCEPT ![s] = "dropped"]
  /\ RequestClose(key[s])
  /\ UNCHANGED <<tableVars, drained, closing, futures, clpc, cur, passVars, key,
                 acceptor, pollerVars, readerVars, stage, aborted>>
-----------------------------------------------------------------------------
(* The poller, as far as sessions go.  A mutated form stands before what   *)
(* it mutates, for checking that the properties can fail.  Here, what it   *)
(* takes stays in its queue.                                               *)
PollerTakesAndKeeps ==
  /\ poller = "running" /\ updating = None /\ queued # None
  /\ held' = held \cup {queued}
  /\ UNCHANGED <<cvars, streamVars, queued, poller, updating, readerVars, stage, aborted>>

PollerTakes ==
  /\ poller = "running" /\ updating = None /\ queued # None
  /\ held' = held \cup {queued}
  /\ queued' = None
  /\ UNCHANGED <<cvars, streamVars, poller, updating, readerVars, stage, aborted>>

LeavesPollerOpen(s) ==
  /\ poller = "running" /\ updating = None /\ s \in held \ closed
  /\ held' = held \ {s}
  /\ UNCHANGED <<cvars, streamVars, queued, poller, updating, readerVars, stage, aborted>>

LeavesPoller(s) ==
  /\ poller = "running" /\ updating = None /\ s \in held \cap closed
  /\ held' = held \ {s}
  /\ UNCHANGED <<cvars, streamVars, queued, poller, updating, readerVars, stage, aborted>>

UpdateStarts(s) ==
  /\ poller = "running" /\ updating = None /\ s \in held \ closed
  /\ updating' = s
  /\ UNCHANGED <<cvars, streamVars, queued, held, poller, readerVars, stage, aborted>>

(* A timeout needs a waker in the session: of the stream that was handed   *)
(* out, or of the closer.  The force_close that follows adds nothing.      *)
UpdateTimesOut(s) ==
  /\ updating = s /\ spc[s] \in {"open", "dropped"}
  /\ closed' = closed \cup {s}
  /\ held' = held \ {s}
  /\ updating' = None
  /\ UNCHANGED <<table, drained, closerVars, streamVars, queued, poller, readerVars,
                 stage, aborted>>

(* ikcp_update: it may have something to send, or nothing.                 *)
UpdateDone(s) ==
  /\ updating = s
  /\ updating' = None
  /\ Output("update", s) \/ UNCHANGED aborted
  /\ UNCHANGED <<cvars, streamVars, queued, held, poller, readerVars, stage>>

(* The signal is closed: the poller stops its queue, and then closes what  *)
(* it holds - or it is dropped with it by the Canceler.                    *)
PollerStops ==
  /\ poller = "running" /\ updating = None /\ SignalClosed
  /\ poller' = "stopped"
  /\ UNCHANGED <<cvars, streamVars, queued, held, updating, readerVars, stage, aborted>>

PollerEnds ==
  /\ poller = "stopped"
  /\ poller' = "ended"
  /\ closed' = closed \cup held
  /\ held' = {}
  /\ UNCHANGED <<table, drained, closerVars, streamVars, queued, updating, readerVars,
                 stage, aborted>>

PollerDropped ==
  /\ poller = "running" /\ updating = None /\ Cancelled
  /\ poller' = "ended"
  /\ held' = {}
  /\ UNCHANGED <<cvars, streamVars, queued, updating, readerVars, stage, aborted>>

PollerGoesOn ==
  \/ PollerTakes \/ PollerStops \/ PollerEnds \/ PollerDropped
  \/ \E s \in Streams : UpdateTimesOut(s) \/ UpdateDone(s)
-----------------------------------------------------------------------------
(* The Drop of the listener: close_all_session, the three closes of        *)
(* stop_all_processor, and the cancellation of the tasks.                  *)
ForgetAllSessions ==
  /\ stage = 0
  /\ table' = [k \in Keys |-> None]
  /\ stage' = 1
  /\ UNCHANGED <<closed, drained, closerVars, streamVars, pollerVars, readerVars, aborted>>

CloseAllSessions ==
  /\ stage = 0
  /\ closed' = closed \cup InTable
  /\ table' = [k \in Keys |-> None]
  /\ stage' = 1
  /\ UNCHANGED <<drained, closerVars, streamVars, pollerVars, readerVars, aborted>>

StopTheCloser ==
  /\ stage = 1
  /\ closing' = TRUE
  /\ stage' = 2
  /\ UNCHANGED <<tableVars, drained, requests, futures, clpc, cur, passVars, streamVars,
                 pollerVars, readerVars, aborted>>

CloseSender ==
  /\ stage = 2 /\ stage' = 3
  /\ UNCHANGED <<cvars, streamVars, pollerVars, readerVars, aborted>>

CloseSignal ==
  /\ stage = 3 /\ stage' = 4
  /\ UNCHANGED <<cvars, streamVars, pollerVars, readerVars, aborted>>

CancelTasks ==
  /\ stage = 4 /\ stage' = 5
  /\ UNCHANGED <<cvars, streamVars, pollerVars, readerVars, aborted>>

DropGoesOn == StopTheCloser \/ CloseSender \/ CloseSignal \/ CancelTasks

serverVars == <<streamVars, pollerVars, readerVars, stage, aborted>>

(* Nobody polls poll_close of a session before its stream is dropped.      *)
DrainDropped(s) == spc[s] = "dropped" /\ Drain(s) /\ UNCHANGED serverVars

Next ==
  \/ \E k \in Keys : Found(k) \/ FirstInput(k) \/ FirstInputRefused(k)
  \/ ReaderGoesOn \/ ReaderDropped
  \/ Accept
  \/ \E s \in Streams :
       \/ Write(s) \/ DropStream(s) \/ LeavesPoller(s) \/ UpdateStarts(s)
       \/ DrainDropped(s)
  \/ PollerGoesOn
  \/ CloseAllSessions \/ DropGoesOn
  \/ CloserStep /\ UNCHANGED serverVars

Spec == Init /\ [][Next]_vars
-----------------------------------------------------------------------------
(* The tasks go on: the poller looks at its queue before every round, and  *)
(* the closer is woken by what module Closer names.  Nobody has to send a  *)
(* datagram, and the application need not accept, drop or write anything.  *)
Served == IF poller = "running" THEN held ELSE {}

Fairness ==
  /\ WF_vars(ReaderGoesOn) /\ WF_vars(PollerGoesOn) /\ SF_vars(PollerTakes)
  /\ WF_vars(CloserMoves /\ UNCHANGED serverVars)
  /\ WF_vars(CloserIsWoken(Served) /\ UNCHANGED serverVars)
  /\ \A s \in Streams : WF_vars(DrainDropped(s))

FairSpec == Spec /\ Fairness
-----------------------------------------------------------------------------
(* A peer and conv have one open session, wherever the reader, the poller  *)
(* and the closer are with it: the reader makes a second one only when the *)
(* first is out of the table, and what leaves the table is closed.         *)
OneSessionPerPeer ==
  \A s, t \in Streams \ closed :
    key[s] # None /\ key[s] = key[t] /\ "gone" \notin {spc[s], spc[t]} => s = t

(* A session in the table keeps its peer from getting a new one, even when *)
(* it is closed.  So it has an owner that will take it out: its stream is  *)
(* waiting or open, or the close of that stream is on its way through the  *)
(* closer.  The exception is a pass that found several futures ready.      *)
CloseUnderWay(s) ==
  \/ cur = key[s] \/ \E i \in DOMAIN requests : requests[i] = key[s]
  \/ \E i \in DOMAIN futures : futures[i].stream = s

MappedIsOwned ==
  \A k \in Keys :
    LET s == table[k]
    IN s # None /\ ~ closing =>
         \/ spc[s] \in {"inserted", "waiting", "open"}
         \/ spc[s] = "dropped" /\ (CloseUnderWay(s) \/ s \in missed)

(* The Drop of the listener closes every stream the application holds,     *)
(* whatever the reader was about to insert and the closer to remove.       *)
DropClosesAll ==
  stage >= 1 => \A s \in Streams : spc[s] \in {"open", "dropped"} => s \in closed

(* The program aborts on an output that finds the sender queue closed only *)
(* in two races with the Drop of the listener: the session was closed      *)
(* between the two locks of its update, or the reader had it in hand, or   *)
(* in the acceptor queue.  A write of an application never does it.        *)
AbortsOnlyInRace ==
  \A a \in aborted :
    /\ a[1] = "update"
    /\ a[2] \in closed \/ spc[a[2]] \notin {"open", "dropped"}

(* The reader comes back to its socket, however many peers it has: there   *)
(* is room with the poller for the session it has made.  The exception is  *)
(* an application that has stopped to accept: then the reader waits at the *)
(* full acceptor queue, and no datagram of any peer is read any more.      *)
ReaderReturns ==
  reader \in InHand ~>
    \/ reader \notin InHand \/ stage > 0
    \/ [](reader = "inserted" /\ acceptor # None)

(* The peer of a dropped stream may return: the session leaves the table.  *)
(* The exceptions: its removal was missed; or others closed it between the *)
(* two locks of a poll_close, and the closer, which has put its waker in   *)
(* too late, sleeps from then on (kcp_async_close).                        *)
Mapped(s) == key[s] # None /\ table[key[s]] = s

PeerMayReturn ==
  \A s \in Streams :
    spc[s] = "dropped" ~>
      \/ ~ Mapped(s) \/ closing
      \/ s \in missed \/ []Asleep(s)
-----------------------------------------------------------------------------
(* What module Poller proves of the poller is what it does to sessions     *)
(* here, seen through the same abstract specification.                     *)
custody == INSTANCE Custody
             WITH Sessions <- Streams, accepting <- poller = "running",
                  queued <- {queued} \ {None}, kept <- held, cancelled <- Cancelled

ImplementsCustody == custody!Spec
=============================================================================
