------------------------------- MODULE Client -------------------------------
(***************************************************************************)
(* The client, src/client.rs: calls of KcpConnector::open, the allocation  *)
(* of convs, streams and their Drop, the reader's handling of a refused    *)
(* datagram and of a failed socket, KcpConnector::close and the Drop of    *)
(* the connector, together with the closer task of module Closer.          *)
(*                                                                         *)
(* The poller is here as what it does to sessions: it takes them from its  *)
(* queue, closes them when they time out, and closes what it holds when it *)
(* is stopped (module Poller).                                             *)
(***************************************************************************)
EXTENDS Closer, FiniteSets

CONSTANTS MaxConv,      \* the largest conv, 2^32 - 1 in the code
          MaxOpening,   \* bound: calls of open in progress at a time
          MaxRefused,   \* bound: sessions that kcp refuses a datagram of
          Stoppers      \* who closes everything: the reader whose socket
                        \* failed, the owner that drops the connector

ASSUME ClientAssumption ==
  /\ MaxConv \in Nat \ {0}
  /\ Keys = 1 .. MaxConv
  /\ MaxOpening \in Nat \ {0} /\ MaxRefused \in Nat
  /\ Stoppers \subseteq {"reader", "owner"} /\ "owner" \in Stoppers

VARIABLES spc,        \* where each call of open, and then its stream, is
          conv,       \* the conv of its session
          nextConv,   \* KcpConv's counter
          queued,     \* the session in the poller's queue
          held,       \* the sessions of the poller
          poller,     \* running, stopped (its queue is closed), ended
          reader,     \* reading, with a refused datagram, failing, quit
          refused,    \* the conv of the refused datagram
          evicted,    \* history: the sessions removed for a refused datagram
          stage       \* how far each caller of stop_all_processor is

streamVars == <<spc, conv, nextConv>>
pollerVars == <<queued, held, poller>>
readerVars == <<reader, refused, evicted, stage>>
vars == <<cvars, streamVars, pollerVars, readerVars>>

(* made: it has a kcp and waits to register; registered, mapped: before    *)
(* and after the insertion in the table; told: the reader has its Resume.  *)
Opening == {"made", "registered", "mapped", "told"}

TypeOK ==
  /\ CloserTypeOK
  /\ spc \in [Streams -> Opening \cup {"none", "open", "dropped", "failed"}]
  /\ conv \in [Streams -> Keys \cup {None}]
  /\ nextConv \in Keys
  /\ queued \in Streams \cup {None}
  /\ held \subseteq Streams
  /\ poller \in {"running", "stopped", "ended"}
  /\ reader \in {"reading", "refused", "failing", "quit"}
  /\ refused \in Keys \cup {None} /\ evicted \subseteq Streams
  /\ stage \in [Stoppers -> 0 .. 5]

Init ==
  /\ CloserInit
  /\ spc = [s \in Streams |-> "none"]
  /\ conv = [s \in Streams |-> None]
  /\ nextConv = 1
  /\ queued = None /\ held = {} /\ poller = "running"
  /\ reader = "reading" /\ refused = None /\ evicted = {}
  /\ stage = [p \in Stoppers |-> 0]

(* The signals of the reader and the poller are closed by the end of their *)
(* task, or by stop_all_processor.                                         *)
ReadSignalClosed == reader = "quit" \/ \E p \in Stoppers : stage[p] >= 4
Cancelled == stage["owner"] = 5
SignalClosed == poller = "ended" \/ \E p \in Stoppers : stage[p] = 5
-----------------------------------------------------------------------------
(* KcpConnector::open.                                                     *)
InProgress == {t \in Streams : spc[t] \in Opening}

MayOpen(s) ==
  /\ spc[s] = "none" /\ stage["owner"] = 0
  /\ Cardinality(InProgress) < MaxOpening

(* Mutated forms stand before what they mutate, for checking that the      *)
(* properties can fail.  Here, the last conv is handed out even when used. *)
FreeOrLast(n) ==
  n = MaxConv - 1 \/ table[((nextConv - 1 + n) % MaxConv) + 1] = None

(* KcpConv::allocate starts at the counter and goes round over 1 to        *)
(* MaxConv (the overflow goes to 1) until a conv is not in the table.      *)
Nth(n) == ((nextConv - 1 + n) % MaxConv) + 1
Free(n) == table[Nth(n)] = None

MakeKcp(s) ==
  /\ MayOpen(s)
  /\ \E n \in 0 .. MaxConv - 1 :
       /\ Free(n) /\ \A m \in 0 .. n - 1 : ~ Free(m)
       /\ nextConv' = Nth(n)
       /\ conv' = [conv EXCEPT ![s] = Nth(n)]
  /\ spc' = [spc EXCEPT ![s] = "made"]
  /\ UNCHANGED <<cvars, pollerVars, readerVars>>

NoMoreConv(s) ==
  /\ MayOpen(s)
  /\ \A n \in 0 .. MaxConv - 1 : ~ Free(n)
  /\ spc' = [spc EXCEPT ![s] = "failed"]
  /\ UNCHANGED <<cvars, conv, nextConv, pollerVars, readerVars>>

(* The poller's queue holds one session at a time.                         *)
Register(s) ==
  /\ spc[s] = "made"
  /\ poller = "running" /\ queued = None
  /\ queued' = s
  /\ spc' = [spc EXCEPT ![s] = "registered"]
  /\ UNCHANGED <<cvars, conv, nextConv, held, poller, readerVars>>

RegisterFails(s) ==
  /\ spc[s] = "made" /\ poller # "running"
  /\ spc' = [spc EXCEPT ![s] = "failed"]
  /\ UNCHANGED <<cvars, conv, nextConv, pollerVars, readerVars>>

(* manage: the insertion replaces whatever had the conv.                   *)
Insert(s) ==
  /\ spc[s] = "registered"
  /\ table' = [table EXCEPT ![conv[s]] = s]
  /\ spc' = [spc EXCEPT ![s] = "mapped"]
  /\ UNCHANGED <<closed, drained, closerVars, conv, nextConv, pollerVars,
                 readerVars>>

(* manage then sends a Resume to the reader and one to the poller, each to *)
(* a queue of one that may wait (module Poller); a closed signal ends the  *)
(* call.  The session stays in the table.                                  *)
TellReader(s) ==
  /\ spc[s] = "mapped"
  /\ spc' = [spc EXCEPT ![s] = IF ReadSignalClosed THEN "failed" ELSE "told"]
  /\ UNCHANGED <<cvars, conv, nextConv, pollerVars, readerVars>>

TellPoller(s) ==
  /\ spc[s] = "told"
  /\ spc' = [spc EXCEPT ![s] = IF SignalClosed THEN "failed" ELSE "open"]
  /\ UNCHANGED <<cvars, conv, nextConv, pollerVars, readerVars>>

(* The caller drops the future while register or a signal waits.           *)
GiveUp(s) ==
  /\ spc[s] \in {"made", "mapped", "told"}
  /\ spc' = [spc EXCEPT ![s] = "failed"]
  /\ UNCHANGED <<cvars, conv, nextConv, pollerVars, readerVars>>

DropStreamFrees(s) ==
  /\ spc[s] = "open"
  /\ spc' = [spc EXCEPT ![s] = "dropped"]
  /\ RequestClose(conv[s])
  /\ TakeOut(conv[s])
  /\ UNCHANGED <<drained, closing, futures, clpc, cur, passVars, conv, nextConv,
                 pollerVars, readerVars>>

(* Drop of ClientImpl.                                                     *)
DropStream(s) ==
  /\ spc[s] = "open"
  /\ spc' = [spc EXCEPT ![s] = "dropped"]
  /\ RequestClose(conv[s])
  /\ UNCHANGED <<tableVars, drained, closing, futures, clpc, cur, passVars, conv,
                 nextConv, pollerVars, readerVars>>
-----------------------------------------------------------------------------
(* The poller, as far as sessions go.                                      *)
PollerTakes ==
  /\ poller = "running" /\ queued # None
  /\ held' = held \cup {queued}
  /\ queued' = None
  /\ UNCHANGED <<cvars, streamVars, poller, readerVars>>

(* A timeout of a session whose stream waits.                              *)
TimesOut(s) ==
  /\ poller = "running" /\ s \in held \ closed
  /\ closed' = closed \cup {s}
  /\ UNCHANGED <<table, drained, closerVars, streamVars, pollerVars, readerVars>>

(* The queue was closed: what the poller holds is closed, what waits in    *)
(* the queue stays there.  The mutated form only lets go.                  *)
PollerLetsGo ==
  /\ poller = "stopped"
  /\ poller' = "ended"
  /\ held' = {}
  /\ UNCHANGED <<cvars, streamVars, queued, readerVars>>

PollerEnds ==
  /\ poller = "stopped"
  /\ poller' = "ended"
  /\ closed' = closed \cup held /\ held' = {}
  /\ UNCHANGED <<table, drained, closerVars, streamVars, queued, readerVars>>

(* The Drop of the connector cancels the task before it has seen the stop: *)
(* what it holds is dropped as it is.                                      *)
PollerDropped ==
  /\ poller = "stopped" /\ Cancelled
  /\ poller' = "ended"
  /\ held' = {}
  /\ UNCHANGED <<cvars, streamVars, queued, readerVars>>
-----------------------------------------------------------------------------
(* The reader.  A datagram of a session in the table is refused by kcp,    *)
(* and the session is removed by its conv.  That the reader waits for the  *)
(* first Resume is left out: it may read, and fail, somewhat earlier here. *)
RefuseInput(k) ==
  /\ reader = "reading" /\ table[k] # None /\ Cardinality(evicted) < MaxRefused
  /\ reader' = "refused" /\ refused' = k
  /\ UNCHANGED <<cvars, streamVars, pollerVars, evicted, stage>>

RemoveRefused ==
  /\ reader = "refused"
  /\ TakeOut(refused)
  /\ evicted' = evicted \cup ({table[refused]} \ {None})
  /\ reader' = IF Cancelled THEN "quit" ELSE "reading"
  /\ refused' = None
  /\ UNCHANGED <<drained, closerVars, streamVars, pollerVars, stage>>

(* The socket fails.                                                       *)
SocketFails ==
  /\ reader = "reading" /\ "reader" \in Stoppers
  /\ reader' = "failing"
  /\ UNCHANGED <<cvars, streamVars, pollerVars, refused, evicted, stage>>

(* KcpConnector::close: Quit to the reader, Stop to the poller; or an      *)
(* output that fails and closes both signals.  Each task takes its signal  *)
(* in its own time; the closer goes on.                                    *)
QuitReader ==
  /\ reader = "reading"
  /\ reader' = "quit"
  /\ UNCHANGED <<cvars, streamVars, pollerVars, refused, evicted, stage>>

StopPoller ==
  /\ poller = "running"
  /\ poller' = "stopped"
  /\ UNCHANGED <<cvars, streamVars, queued, held, readerVars>>
-----------------------------------------------------------------------------
(* close_all_session and stop_all_processor, by the failing reader or by   *)
(* the Drop of the connector, which nothing borrows any more.              *)
MayStop(p) ==
  \/ p = "reader" /\ reader = "failing"
  \/ p = "owner" /\ InProgress = {}

CloseAllSessions(p) ==
  /\ MayStop(p) /\ stage[p] = 0
  /\ CloseAll
  /\ stage' = [stage EXCEPT ![p] = 1]
  /\ UNCHANGED <<drained, closerVars, streamVars, pollerVars, reader, refused, evicted>>

StopThePoller(p) ==
  /\ stage[p] = 1
  /\ poller' = IF poller = "running" THEN "stopped" ELSE poller
  /\ stage' = [stage EXCEPT ![p] = 2]
  /\ UNCHANGED <<cvars, streamVars, queued, held, reader, refused, evicted>>

StopTheCloser(p) ==
  /\ stage[p] = 2
  /\ closing' = TRUE
  /\ stage' = [stage EXCEPT ![p] = 3]
  /\ UNCHANGED <<tableVars, drained, requests, futures, clpc, cur, passVars,
                 streamVars, pollerVars, reader, refused, evicted>>

CloseReadSignal(p) ==
  /\ stage[p] = 3
  /\ stage' = [stage EXCEPT ![p] = 4]
  /\ UNCHANGED <<cvars, streamVars, pollerVars, reader, refused, evicted>>

(* With the last close the reader returns its error, and the owner goes on *)
(* to cancel the tasks, which stops a reader that waits.                   *)
CloseSignal(p) ==
  /\ stage[p] = 4
  /\ stage' = [stage EXCEPT ![p] = 5]
  /\ reader' = IF p = "reader" \/ reader = "reading" THEN "quit" ELSE reader
  /\ UNCHANGED <<cvars, streamVars, pollerVars, refused, evicted>>

StopAll(p) ==
  \/ CloseAllSessions(p) \/ StopThePoller(p) \/ StopTheCloser(p)
  \/ CloseReadSignal(p) \/ CloseSignal(p)

OpenStep(s) ==
  \/ MakeKcp(s) \/ NoMoreConv(s) \/ Register(s) \/ RegisterFails(s)
  \/ Insert(s) \/ TellReader(s) \/ TellPoller(s)

Next ==
  \/ \E s \in Streams :
       \/ OpenStep(s) \/ GiveUp(s) \/ DropStream(s) \/ TimesOut(s)
       \/ Drain(s) /\ UNCHANGED <<streamVars, pollerVars, readerVars>>
  \/ CloserStep /\ UNCHANGED <<streamVars, pollerVars, readerVars>>
  \/ PollerTakes \/ PollerEnds \/ PollerDropped
  \/ \E k \in Keys : RefuseInput(k)
  \/ RemoveRefused \/ SocketFails \/ QuitReader \/ StopPoller
  \/ \E p \in Stoppers : StopAll(p)

Spec == Init /\ [][Next]_vars
-----------------------------------------------------------------------------
(* The closer goes on, and is woken by what module Closer names: a session *)
(* gets rounds while a running poller has it (module Poller).  The poller  *)
(* takes what was registered, ends when it is stopped, and a dropped       *)
(* session drains (the close delay).  No call of the application is fair.  *)
Served == IF poller = "running" THEN held ELSE {}

Fairness ==
  /\ WF_vars(CloserMoves /\ UNCHANGED <<streamVars, pollerVars, readerVars>>)
  /\ WF_vars(CloserIsWoken(Served) /\ UNCHANGED <<streamVars, pollerVars, readerVars>>)
  /\ WF_vars(PollerTakes) /\ WF_vars(PollerEnds)
  /\ \A s \in Streams :
       WF_vars(/\ spc[s] = "dropped" /\ Drain(s)
               /\ UNCHANGED <<streamVars, pollerVars, readerVars>>)

FairSpec == Spec /\ Fairness
-----------------------------------------------------------------------------
(* The first four hold when calls of open do not overlap (MaxOpening = 1): *)
(* allocate does not reserve the conv it returns, so two calls between     *)
(* allocate and manage get the same one, and the second insertion hides    *)
(* the first session from the reader and from the closer.                  *)

(* Two streams that are open at the same time never share a conv           *)
(* (KcpConv::allocate and manage).                                         *)
Live == {s \in Streams : spc[s] \in {"mapped", "told", "open"} /\ s \notin closed}
UniqueConv == \A s, t \in Live : conv[s] = conv[t] => s = t

Mapped(s) == conv[s] # None /\ table[conv[s]] = s

(* A session that open has inserted stays in the table under its conv      *)
(* until it is closed: whatever is taken out is closed, and nothing is     *)
(* replaced.                                                               *)
MappedOrClosed ==
  \A s \in Streams :
    spc[s] \in {"mapped", "told", "open", "dropped"} =>
      Mapped(s) \/ s \in closed

(* What the closer waits to close is a session whose own stream was        *)
(* dropped.  The one exception: the reader has removed a session for a     *)
(* refused datagram, a new stream got its conv, and the Drop of the old    *)
(* stream sends the closer to the new session (remove_kcp, close_kcp).     *)
DroppedAfterEviction(k) == \E t \in evicted : conv[t] = k /\ spc[t] = "dropped"

OwnClose ==
  \A i \in DOMAIN futures :
    spc[futures[i].stream] = "dropped" \/ DroppedAfterEviction(futures[i].key)

(* The Drop of a connector closes the session of every stream it has       *)
(* handed out, whatever the reader, the closer and the poller were doing.  *)
DropClosesAll ==
  stage["owner"] >= 1 =>
    \A s \in Streams : spc[s] \in {"open", "dropped"} => s \in closed

(* The close of a dropped stream is never forgotten: its key is in the     *)
(* closer's queue or in its hands, or a future waits for it - until its    *)
(* session is out of the table.  The exception is a pass that finds        *)
(* several futures ready and remembers only the last one.                  *)
CloseNotForgotten ==
  \A s \in Streams :
    spc[s] = "dropped" /\ ~ closing =>
      \/ ~ Mapped(s)
      \/ cur = conv[s] \/ \E i \in DOMAIN requests : requests[i] = conv[s]
      \/ \E i \in DOMAIN futures : futures[i].stream = s
      \/ s \in missed

(* So the session of a dropped stream leaves the table and its conv is     *)
(* free again.  The exceptions: its removal was missed; it is stranded in  *)
(* the queue of a poller that has stopped, and gets no rounds; or it was   *)
(* closed between the two locks of a poll_close, and the closer, which has *)
(* put its waker in too late, sleeps from then on (run_async_close).       *)
Stranded(s) == queued = s /\ poller # "running"

DroppedIsRemoved ==
  \A s \in Streams :
    spc[s] = "dropped" ~>
      \/ ~ Mapped(s) \/ closing
      \/ s \in missed \/ Stranded(s) \/ []Asleep(s)
-----------------------------------------------------------------------------
(* What module Poller proves of the poller is what it does to sessions     *)
(* here, seen through the same abstract specification.                     *)
custody == INSTANCE Custody
             WITH Sessions <- Streams, accepting <- poller = "running",
                  queued <- {queued} \ {None}, kept <- held,
                  cancelled <- Cancelled

ImplementsCustody == custody!Spec
=============================================================================
