------------------------------- MODULE Closer -------------------------------
(***************************************************************************)
(* The session table of a connector or a listener (KcpManager) and the     *)
(* background task that empties it: run_async_close of src/client.rs and   *)
(* kcp_async_close of src/server.rs, which are the same but for the key -  *)
(* a conv there, a peer and a conv here.                                   *)
(*                                                                         *)
(* Dropping a stream puts its KEY in the closer's queue.  The task looks   *)
(* the key up, keeps one poll_close future per request, and removes a      *)
(* session when its future has completed.  Every lock of the code is one   *)
(* action: other tasks act between the queue, the lookup, the two locks of *)
(* a poll_close and the removal.                                           *)
(*                                                                         *)
(* A session is closed, or drained when poll_close is ready for it: the    *)
(* peer has acknowledged everything and the close delay is over.  Module   *)
(* Session shows that a dropped session comes to one of the two.           *)
(***************************************************************************)
EXTENDS Naturals, Sequences, SequencesExt, FiniteSetsExt

CONSTANTS Streams,  \* the streams handed out, each named as its session
          Keys,
          None

ASSUME CloserAssumption == None \notin Streams \cup Keys

VARIABLES table,      \* the sessions map
          closed,     \* sessions that are closed, by anybody
          drained,    \* those of the futures that poll_close would find
                      \* ready
          requests,   \* the closer's queue: keys of dropped streams
          closing,    \* the queue of the closer is closed
          futures,    \* the poll_close futures, in order
          clpc,       \* where the closer is
          cur,        \* the key it has in hand
          at,         \* how far its pass over the futures is, or 0
          hand,       \* history: the session that cur is for, in a pass
          missed,     \* history: ready in a pass, and not removed by it
          late        \* history: those of the futures that poll_close has
                      \* put a waker in after the close, when nobody is
                      \* left to take it out

tableVars == <<table, closed>>
passVars == <<at, hand, missed, late>>
closerVars == <<requests, closing, futures, clpc, cur, passVars>>
cvars == <<tableVars, drained, closerVars>>

CloserTypeOK ==
  /\ table \in [Keys -> Streams \cup {None}]
  /\ closed \subseteq Streams /\ drained \subseteq Streams
  /\ missed \subseteq Streams /\ late \subseteq Streams
  /\ requests \in Seq(Keys)
  /\ futures \in Seq([key : Keys, stream : Streams])
  /\ closing \in BOOLEAN
  /\ clpc \in {"recv", "lookup", "pass", "between", "remove", "asleep", "ended"}
  /\ cur \in Keys \cup {None}
  /\ at \in Nat /\ hand \in Streams \cup {None}

CloserInit ==
  /\ table = [k \in Keys |-> None]
  /\ closed = {} /\ drained = {} /\ missed = {} /\ late = {}
  /\ requests = << >> /\ closing = FALSE /\ futures = << >>
  /\ clpc = "recv" /\ cur = None /\ at = 0 /\ hand = None
-----------------------------------------------------------------------------
(* close_kcp, when a stream is dropped: block_send never waits, and its    *)
(* error is only logged.                                                   *)
RequestClose(key) == requests' = IF closing THEN requests ELSE Append(requests, key)

(* A mutated form stands before what it mutates, for checking that the     *)
(* properties can fail.  Here, the session stays in the table.             *)
TakeOutAndKeep(key) ==
  /\ closed' = closed \cup ({table[key]} \ {None})
  /\ UNCHANGED table

TakeOutOpen(key) ==
  /\ table' = [table EXCEPT ![key] = None]
  /\ UNCHANGED closed

(* remove_kcp: out of the table and force_close, under the table's lock.   *)
TakeOut(key) ==
  /\ table' = [table EXCEPT ![key] = None]
  /\ closed' = closed \cup ({table[key]} \ {None})

InTable == {table[k] : k \in Keys} \ {None}

CloseNone == UNCHANGED tableVars

(* close_all_session of the client: every session of the table is closed,  *)
(* and stays there.                                                        *)
CloseAll == closed' = closed \cup InTable /\ UNCHANGED table

(* The recv of the closer's queue.                                         *)
CloserTakes ==
  /\ clpc = "recv" /\ ~ closing /\ requests # << >>
  /\ cur' = Head(requests)
  /\ requests' = Tail(requests)
  /\ clpc' = "lookup"
  /\ UNCHANGED <<tableVars, drained, closing, futures, passVars>>

CloserLooksUpAndForgets ==
  /\ clpc = "lookup"
  /\ clpc' = "recv" /\ cur' = None
  /\ UNCHANGED <<tableVars, drained, requests, closing, futures, passVars>>

CloserLooksUp ==
  /\ clpc = "lookup"
  /\ futures' = IF table[cur] = None THEN futures
                ELSE Append(futures, [key |-> cur, stream |-> table[cur]])
  /\ clpc' = "recv" /\ cur' = None
  /\ UNCHANGED <<tableVars, drained, requests, closing, passVars>>

(* The queue was found empty.  Without futures the task waits at the queue *)
(* (module Queue); otherwise retain_mut goes over them in the same poll.   *)
(* A future that is ready leaves, and only the key of the last one is      *)
(* remembered; when none is, the task sleeps.                              *)
CloserPassStarts ==
  /\ clpc = "recv" /\ ~ closing /\ requests = << >> /\ futures # << >>
  /\ clpc' = "pass" /\ at' = 1
  /\ UNCHANGED <<tableVars, drained, requests, closing, futures, cur, hand, missed, late>>

PassGoesOn(i) ==
  IF i <= Len(futures') THEN clpc' = "pass" /\ at' = i
  ELSE clpc' = (IF cur' = None THEN "asleep" ELSE "remove") /\ at' = 0

(* The sessions of the futures.                                            *)
Waiting == {futures[i].stream : i \in DOMAIN futures}

(* poll_close: a first lock for closed(), and when it is open a second one *)
(* for the rest.  What others do comes in between, or too late.            *)
Ready(f) ==
  \/ clpc = "pass" /\ f.stream \in closed
  \/ clpc = "between" /\ f.stream \in drained

CloserPollsReady ==
  /\ clpc \in {"pass", "between"} /\ Ready(futures[at])
  /\ futures' = RemoveAt(futures, at)
  /\ cur' = futures[at].key /\ hand' = futures[at].stream
  /\ missed' = IF cur \in {None, cur'} THEN missed ELSE missed \cup {hand}
  /\ drained' = drained \cap Waiting' /\ late' = late \cap Waiting'
  /\ PassGoesOn(at)
  /\ UNCHANGED <<tableVars, requests, closing>>

CloserPollsOpen ==
  /\ clpc = "pass" /\ ~ Ready(futures[at])
  /\ clpc' = "between"
  /\ UNCHANGED <<tableVars, drained, requests, closing, futures, cur, passVars>>

CloserRegisters ==
  /\ clpc = "between" /\ ~ Ready(futures[at])
  /\ late' = late \cup ({futures[at].stream} \cap closed)
  /\ UNCHANGED <<tableVars, drained, requests, closing, futures, cur, hand, missed>>
  /\ PassGoesOn(at + 1)

CloserRemoves ==
  /\ clpc = "remove"
  /\ TakeOut(cur)
  /\ clpc' = "recv" /\ cur' = None /\ hand' = None
  /\ UNCHANGED <<drained, requests, closing, futures, at, missed, late>>

(* The queue was closed: the task ends, its futures are dropped.           *)
CloserEnds ==
  /\ clpc = "recv" /\ closing
  /\ clpc' = "ended" /\ futures' = << >> /\ drained' = {} /\ late' = {}
  /\ UNCHANGED <<tableVars, requests, closing, cur, at, hand, missed>>

(* Any waker it has left somewhere may wake it.  One of these does: its    *)
(* queue has a key or is closed; a session was closed after the closer had *)
(* put a waker in (force_close, update); or the poller has a round for an  *)
(* open session, of which poll_close is now ready.  `served' are the       *)
(* sessions that get rounds.                                               *)
CloserWakes ==
  /\ clpc = "asleep" /\ clpc' = "recv"
  /\ UNCHANGED <<tableVars, drained, requests, closing, futures, cur, passVars>>

CloserIsWoken(served) ==
  /\ \/ closing \/ requests # << >>
     \/ (Waiting \cap closed) \ late # {}
     \/ (drained \cap served) \ closed # {}
  /\ CloserWakes

CloserMoves ==
  \/ CloserTakes \/ CloserLooksUp \/ CloserPassStarts
  \/ CloserPollsReady \/ CloserPollsOpen \/ CloserRegisters
  \/ CloserRemoves \/ CloserEnds
CloserStep == CloserMoves \/ CloserWakes

(* The peer acknowledges what is in flight; the close delay is over.  What *)
(* came of it before poll_close asks, it finds when it asks.               *)
Drain(s) ==
  /\ s \in Waiting \ drained
  /\ drained' = drained \cup {s}
  /\ UNCHANGED <<tableVars, closerVars>>

(* The closer sleeps with a future for a session whose close it will not   *)
(* hear of.                                                                *)
Asleep(s) == clpc = "asleep" /\ s \in late
-----------------------------------------------------------------------------
(* The open session that is found under a key is what Registry calls its   *)
(* owner: nothing takes it out of the table, or its place, while it is     *)
(* open.                                                                   *)
Owner == [k \in Keys |-> IF table[k] \in closed THEN None ELSE table[k]]
registry == INSTANCE Registry WITH owner <- Owner, ended <- closed

ImplementsRegistry == registry!Spec
=============================================================================
