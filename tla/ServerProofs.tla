---------------------------- MODULE ServerProofs ----------------------------
(***************************************************************************)
(* Theorems about Server, for any number of sessions, peers and convs.     *)
(*                                                                         *)
(* They rest on one fact (Findable): a session that is open and past its   *)
(* insertion is in the table under its key.  It holds because nothing      *)
(* leaves the table unclosed, and nothing in it is replaced: while the     *)
(* reader has a new session in hand the place of that session is empty     *)
(* (Reserved), since the reader is the only one to fill it.  The order of  *)
(* the Drop of the listener does the rest (Ordered).                       *)
(*                                                                         *)
(* What the closer does to its own queue and futures plays no part there,  *)
(* so only the types of the table and of the streams are needed (Types).   *)
(* It is what the last part is about: who owns a session in the table.     *)
(***************************************************************************)
EXTENDS Server, CloserProofs

Types ==
  /\ table \in [Keys -> Streams \cup {None}]
  /\ spc \in [Streams -> InHand \cup {"new", "waiting", "open", "dropped", "gone"}]
  /\ key \in [Streams -> Keys \cup {None}]
  /\ acceptor \in Streams \cup {None}
  /\ stage \in 0 .. 5
  /\ aborted \subseteq {"write", "update"} \X Streams

(* Where the stream in the acceptor queue is, and who has a key.           *)
InQueue == acceptor # None => spc[acceptor] = "waiting"
Keyed == \A s \in Streams : spc[s] \notin {"new", "gone"} => key[s] # None

(* What the reader has in hand, and where it is with it.                   *)
InReadersHand ==
  /\ InQueue
  /\ Keyed
  /\ reader \in InHand => subject \in Streams /\ spc[subject] = reader
  /\ \A s \in Streams : spc[s] \in InHand => s = subject /\ reader = spc[s]
  /\ \A s \in Streams : spc[s] = "new" => key[s] = None
  /\ reader \in InHand => key[subject] \in Keys

Reserved == reader \in {"made", "registered"} => table[key[subject]] = None

Findable ==
  \A s \in Streams \ closed :
    key[s] # None /\ spc[s] \notin {"made", "registered", "gone"} => table[key[s]] = s

Ordered ==
  /\ DropClosesAll
  /\ AbortsOnlyInRace
  /\ aborted # {} => stage >= 3

IInv == Types /\ InReadersHand /\ Reserved /\ Findable /\ Ordered
-----------------------------------------------------------------------------
LEMMA NoneIsNoStream == None \notin Streams /\ None \notin Keys
  BY CloserAssumption

LEMMA Initially == Init => IInv
  <1> SUFFICES ASSUME Init PROVE IInv
    OBVIOUS
  <1> USE NoneIsNoStream DEF Init, CloserInit
  <1>1. Types
    BY DEF Types, InHand
  <1>2. InReadersHand /\ Reserved /\ Findable
    BY DEF InReadersHand, InQueue, Keyed, Reserved, Findable, InHand
  <1>3. Ordered
    BY DEF Ordered, DropClosesAll, AbortsOnlyInRace
  <1> QED
    BY <1>1, <1>2, <1>3 DEF IInv

(* IInv speaks of these variables only.                                    *)
core == <<table, closed, spc, key, acceptor, reader, subject, stage, aborted>>

LEMMA CoreKeeps == ASSUME IInv, UNCHANGED core PROVE IInv'
  BY DEF IInv, Types, InReadersHand, InQueue, Keyed, Reserved, Findable, Ordered, DropClosesAll,
     AbortsOnlyInRace, core

(* Closing more sessions disturbs nothing.                                 *)
LEMMA ClosingKeeps ==
  ASSUME IInv, closed \subseteq closed',
         UNCHANGED <<table, spc, key, acceptor, reader, subject, stage, aborted>>
  PROVE  IInv'
  BY DEF IInv, Types, InReadersHand, InQueue, Keyed, Reserved, Findable, Ordered, DropClosesAll,
     AbortsOnlyInRace

(* Taking a session out of the table and closing it.                       *)
LEMMA TakingOutKeeps ==
  ASSUME IInv, NEW k, TakeOut(k),
         UNCHANGED <<spc, key, acceptor, reader, subject, stage, aborted>>
  PROVE  IInv'
  <1> USE NoneIsNoStream DEF IInv
  <1>1. Types'
    BY DEF Types, TakeOut
  <1>2. InReadersHand' /\ Ordered'
    BY DEF InReadersHand, InQueue, Keyed, Ordered, DropClosesAll, AbortsOnlyInRace, TakeOut
  <1>3. Reserved'
    BY DEF Reserved, TakeOut, Types, InReadersHand, InQueue, Keyed, InHand
  <1>4. Findable'
    BY DEF Findable, TakeOut, Types
  <1> QED
    BY <1>1, <1>2, <1>3, <1>4

LEMMA CloserKeeps ==
  ASSUME IInv, CloserStep, UNCHANGED serverVars
  PROVE  IInv'
  <1>1. CASE CloserRemoves
    BY <1>1, TakingOutKeeps DEF CloserRemoves, serverVars, streamVars, pollerVars, readerVars
  <1>2. CASE ~ CloserRemoves
    <2>1. UNCHANGED core
      BY <1>2 DEF CloserStep, CloserMoves, CloserTakes, CloserLooksUp, CloserEnds,
         CloserPassStarts, CloserPollsReady, CloserPollsOpen, CloserRegisters, CloserWakes, core, serverVars, streamVars,
         pollerVars, readerVars, tableVars
    <2> QED
      BY <2>1, CoreKeeps
  <1> QED
    BY <1>1, <1>2
-----------------------------------------------------------------------------
(* The reader.                                                             *)
LEMMA FirstInputKeeps ==
  ASSUME IInv, NEW k \in Keys, FirstInput(k)
  PROVE  IInv'
  <1> USE NoneIsNoStream DEF IInv, InHand, cvars, tableVars, pollerVars
  <1>1. PICK s \in Streams :
          /\ spc[s] = "new" /\ spc' = [spc EXCEPT ![s] = "made"]
          /\ key' = [key EXCEPT ![s] = k] /\ subject' = s
    BY DEF FirstInput
  <1>2. /\ reader = "reading" /\ table[k] = None /\ reader' = "made"
        /\ UNCHANGED <<table, closed, acceptor, stage, aborted>>
    BY DEF FirstInput
  <1>3. Types'
    BY <1>1, <1>2 DEF Types
  <1>4. InReadersHand'
    BY <1>1, <1>2 DEF InReadersHand, InQueue, Keyed, Types
  <1>5. Reserved' /\ Findable'
    BY <1>1, <1>2 DEF Reserved, Findable, Types
  <1>6. Ordered'
    BY <1>1, <1>2 DEF Ordered, DropClosesAll, AbortsOnlyInRace, Types
  <1> QED
    BY <1>3, <1>4, <1>5, <1>6

LEMMA FirstInputRefusedKeeps ==
  ASSUME IInv, NEW k \in Keys, FirstInputRefused(k)
  PROVE  IInv'
  <1> USE NoneIsNoStream DEF IInv, InHand, readerVars
  <1>1. PICK s \in Streams :
          spc[s] = "new" /\ spc' = [spc EXCEPT ![s] = "gone"] /\ closed' = closed \cup {s}
    BY DEF FirstInputRefused
  <1>2. UNCHANGED <<table, key, acceptor, reader, subject, stage, aborted>>
    BY DEF FirstInputRefused
  <1>3. Types' /\ InReadersHand' /\ Reserved'
    BY <1>1, <1>2 DEF Types, InReadersHand, InQueue, Keyed, Reserved
  <1>4. Findable'
    BY <1>1, <1>2 DEF Findable, Types
  <1>5. Ordered'
    BY <1>1, <1>2 DEF Ordered, DropClosesAll, AbortsOnlyInRace, Types
  <1> QED
    BY <1>3, <1>4, <1>5

(* The reader goes on with its session: only Insert touches the table.     *)
LEMMA ReaderKeeps ==
  ASSUME IInv, ReaderGoesOn \/ ReaderDropped \/ \E k \in Keys : Found(k)
  PROVE  IInv'
  <1> USE NoneIsNoStream DEF IInv, InHand, cvars, tableVars, streamVars, pollerVars, readerVars
  <1>1. CASE ReaderStarts \/ \E k \in Keys : Found(k)
    BY <1>1 DEF ReaderStarts, Found, Types, InReadersHand, InQueue, Keyed, Reserved, Findable, Ordered,
       DropClosesAll, AbortsOnlyInRace
  <1>2. CASE InputTaken \/ InputRefused
    BY <1>2 DEF InputTaken, InputRefused, Back, Types, InReadersHand, InQueue, Keyed, Reserved, Findable,
       Ordered, DropClosesAll, AbortsOnlyInRace
  <1>3. CASE Register
    <2>1. /\ subject \in Streams /\ spc' = [spc EXCEPT ![subject] = "registered"]
          /\ spc[subject] = "made" /\ reader = "made" /\ reader' = "registered"
          /\ UNCHANGED <<table, closed, key, acceptor, subject, stage, aborted>>
      BY <1>3 DEF Register, InReadersHand, InQueue, Keyed
    <2>2. Types' /\ InReadersHand' /\ Reserved'
      BY <2>1 DEF Types, InReadersHand, InQueue, Keyed, Reserved
    <2>3. Findable'
      BY <2>1 DEF Findable, Types
    <2>4. Ordered'
      BY <2>1 DEF Ordered, DropClosesAll, AbortsOnlyInRace, Types
    <2> QED
      BY <2>2, <2>3, <2>4
  <1>4. CASE RegisterFails
    <2>1. /\ subject \in Streams /\ spc' = [spc EXCEPT ![subject] = "gone"]
          /\ spc[subject] = "made" /\ reader = "made" /\ reader' = "quit"
          /\ UNCHANGED <<table, closed, key, acceptor, stage, aborted>>
      BY <1>4 DEF RegisterFails, InReadersHand, InQueue, Keyed
    <2>2. Types' /\ InReadersHand' /\ Reserved'
      BY <2>1 DEF Types, InReadersHand, InQueue, Keyed, Reserved
    <2>3. Findable'
      BY <2>1 DEF Findable, Types
    <2>4. Ordered'
      BY <2>1 DEF Ordered, DropClosesAll, AbortsOnlyInRace, Types
    <2> QED
      BY <2>2, <2>3, <2>4
  <1>5. CASE Insert
    <2>1. /\ subject \in Streams /\ spc' = [spc EXCEPT ![subject] = "inserted"]
          /\ spc[subject] = "registered" /\ reader = "registered" /\ reader' = "inserted"
          /\ key[subject] \in Keys /\ table' = [table EXCEPT ![key[subject]] = subject]
          /\ UNCHANGED <<closed, key, acceptor, subject, stage, aborted>>
      BY <1>5 DEF Insert, InReadersHand, InQueue, Keyed
    <2>2. Types' /\ InReadersHand' /\ Reserved'
      BY <2>1 DEF Types, InReadersHand, InQueue, Keyed, Reserved
    <2>3. Findable'
      <3> SUFFICES ASSUME NEW s \in Streams \ closed, key[s] # None,
                          spc'[s] \notin {"made", "registered", "gone"}
                   PROVE  table'[key[s]] = s
        BY <2>1 DEF Findable
      <3>1. CASE s = subject
        BY <2>1, <3>1 DEF Types
      <3>2. CASE s # subject
        <4>1. table[key[s]] = s
          BY <2>1, <3>2 DEF Findable, Types
        <4>2. table[key[subject]] = None
          BY <2>1 DEF Reserved
        <4> QED
          BY <2>1, <3>2, <4>1, <4>2 DEF Types
      <3> QED
        BY <3>1, <3>2
    <2>4. Ordered'
      BY <2>1 DEF Ordered, DropClosesAll, AbortsOnlyInRace, Types
    <2> QED
      BY <2>2, <2>3, <2>4
  <1>6. CASE Offer
    <2>1. /\ subject \in Streams /\ spc' = [spc EXCEPT ![subject] = "waiting"]
          /\ spc[subject] = "inserted" /\ reader = "inserted" /\ reader' = "reading"
          /\ acceptor' = subject
          /\ UNCHANGED <<table, closed, key, stage, aborted>>
      BY <1>6 DEF Offer, Back, InReadersHand, InQueue, Keyed
    <2>2. Types' /\ InReadersHand' /\ Reserved'
      BY <2>1 DEF Types, InReadersHand, InQueue, Keyed, Reserved
    <2>3. Findable'
      BY <2>1 DEF Findable, Types
    <2>4. Ordered'
      BY <2>1 DEF Ordered, DropClosesAll, AbortsOnlyInRace, Types
    <2> QED
      BY <2>2, <2>3, <2>4
  <1>7. CASE ReaderDropped
    <2>1. /\ spc' = [s \in Streams |-> IF s \in {subject, acceptor} THEN "gone" ELSE spc[s]]
          /\ reader' = "quit" /\ acceptor' = None
          /\ UNCHANGED <<table, closed, key, stage, aborted>>
      BY <1>7 DEF ReaderDropped
    <2>2. Types' /\ InReadersHand' /\ Reserved'
      BY <2>1 DEF Types, InReadersHand, InQueue, Keyed, Reserved
    <2>3. Findable'
      BY <2>1 DEF Findable, Types
    <2>4. Ordered'
      BY <2>1 DEF Ordered, DropClosesAll, AbortsOnlyInRace, Types
    <2> QED
      BY <2>2, <2>3, <2>4
  <1> QED
    BY <1>1, <1>2, <1>3, <1>4, <1>5, <1>6, <1>7 DEF ReaderGoesOn
-----------------------------------------------------------------------------
(* The application.                                                        *)
LEMMA AcceptKeeps == ASSUME IInv, Accept PROVE IInv'
  <1> USE NoneIsNoStream DEF IInv, InHand, cvars, tableVars, pollerVars, readerVars
  <1>1. /\ acceptor \in Streams /\ spc' = [spc EXCEPT ![acceptor] = "open"]
        /\ acceptor' = None /\ stage = 0
        /\ UNCHANGED <<table, closed, key, reader, subject, stage, aborted>>
    BY DEF Accept, Types
  <1>2. spc[acceptor] = "waiting"
    BY <1>1, NoneIsNoStream DEF InReadersHand, InQueue
  <1>3. Types' /\ InReadersHand' /\ Reserved'
    BY <1>1, <1>2 DEF Types, InReadersHand, InQueue, Keyed, Reserved
  <1>4. Findable'
    BY <1>1, <1>2 DEF Findable, Types
  <1>5. Ordered'
    BY <1>1 DEF Ordered, DropClosesAll, AbortsOnlyInRace, Types
  <1> QED
    BY <1>3, <1>4, <1>5

LEMMA WriteKeeps == ASSUME IInv, NEW s \in Streams, Write(s) PROVE IInv'
  <1> USE DEF IInv, cvars, tableVars, streamVars, readerVars
  <1>1. /\ spc[s] = "open" /\ s \notin closed
        /\ UNCHANGED <<table, closed, spc, key, acceptor, reader, subject, stage>>
    BY DEF Write
  <1>2. stage < 1
    BY <1>1 DEF Ordered, DropClosesAll, Types
  <1>3. UNCHANGED aborted
    BY <1>2 DEF Write, Output, SenderClosed, Types
  <1> QED
    BY <1>1, <1>3, ClosingKeeps

LEMMA DropStreamKeeps == ASSUME IInv, NEW s \in Streams, DropStream(s) PROVE IInv'
  <1> USE DEF IInv, InHand, tableVars, readerVars
  <1>1. /\ spc[s] = "open" /\ spc' = [spc EXCEPT ![s] = "dropped"]
        /\ UNCHANGED <<table, closed, key, acceptor, reader, subject, stage, aborted>>
    BY DEF DropStream
  <1>2. Types' /\ InReadersHand' /\ Reserved'
    BY <1>1 DEF Types, InReadersHand, InQueue, Keyed, Reserved
  <1>3. Findable'
    BY <1>1 DEF Findable, Types
  <1>4. Ordered'
    BY <1>1 DEF Ordered, DropClosesAll, AbortsOnlyInRace, Types
  <1> QED
    BY <1>2, <1>3, <1>4

(* The poller.  Its update is the one that may find the sender queue       *)
(* closed.                                                                 *)
LEMMA UpdateDoneKeeps == ASSUME IInv, NEW s \in Streams, UpdateDone(s) PROVE IInv'
  <1> USE DEF IInv, cvars, tableVars, streamVars, readerVars
  <1>1. UNCHANGED <<table, closed, spc, key, acceptor, reader, subject, stage>>
    BY DEF UpdateDone
  <1>2. CASE UNCHANGED aborted
    BY <1>1, <1>2, ClosingKeeps
  <1>3. CASE aborted' = aborted \cup {<<"update", s>>} /\ stage >= 3
    <2>1. Types' /\ InReadersHand' /\ Reserved' /\ Findable'
      BY <1>1, <1>3 DEF Types, InReadersHand, InQueue, Keyed, Reserved, Findable
    <2>2. DropClosesAll' /\ (aborted # {} => stage >= 3)'
      BY <1>1, <1>3 DEF Ordered, DropClosesAll
    <2>3. spc[s] \in {"open", "dropped"} => s \in closed
      BY <1>3 DEF Ordered, DropClosesAll, Types
    <2>4. AbortsOnlyInRace'
      BY <1>1, <1>3, <2>3 DEF Ordered, AbortsOnlyInRace
    <2> QED
      BY <2>1, <2>2, <2>4 DEF Ordered
  <1> QED
    BY <1>2, <1>3 DEF UpdateDone, Output, SenderClosed

LEMMA PollerKeeps ==
  ASSUME IInv,
         PollerGoesOn \/ \E s \in Streams : LeavesPoller(s) \/ UpdateStarts(s)
  PROVE  IInv'
  <1> USE DEF cvars, tableVars, streamVars, readerVars, pollerVars
  <1>1. CASE PollerTakes \/ PollerStops \/ PollerDropped
    BY <1>1, ClosingKeeps DEF PollerTakes, PollerStops, PollerDropped
  <1>2. CASE PollerEnds
    BY <1>2, ClosingKeeps DEF PollerEnds
  <1>3. ASSUME NEW s \in Streams, LeavesPoller(s) \/ UpdateStarts(s) \/ UpdateTimesOut(s)
        PROVE  IInv'
    BY <1>3, ClosingKeeps DEF LeavesPoller, UpdateStarts, UpdateTimesOut
  <1> QED
    BY <1>1, <1>2, <1>3, UpdateDoneKeeps DEF PollerGoesOn

(* The Drop of the listener.  Accept is over with stage 0, so whatever is  *)
(* open or dropped by then is found in the table, and closed.              *)
LEMMA DropKeeps == ASSUME IInv, CloseAllSessions \/ DropGoesOn PROVE IInv'
  <1> USE NoneIsNoStream DEF IInv, InHand, cvars, tableVars, streamVars, readerVars, pollerVars
  <1>1. CASE CloseAllSessions
    <2>1. /\ closed' = closed \cup InTable /\ table' = [k \in Keys |-> None]
          /\ stage = 0 /\ stage' = 1
          /\ UNCHANGED <<spc, key, acceptor, reader, subject, aborted>>
      BY <1>1 DEF CloseAllSessions
    <2>2. Types' /\ InReadersHand' /\ Reserved'
      BY <2>1 DEF Types, InReadersHand, InQueue, Keyed, Reserved
    <2>3. \A s \in Streams \ closed' :
            key[s] # None => spc[s] \in {"made", "registered", "gone"}
      BY <2>1 DEF Findable, InTable, Types
    <2>4. Findable' /\ DropClosesAll'
      BY <2>1, <2>3 DEF Findable, DropClosesAll, InReadersHand, Keyed
    <2>5. Ordered'
      BY <2>1, <2>4 DEF Ordered, AbortsOnlyInRace
    <2> QED
      BY <2>2, <2>4, <2>5
  <1>2. CASE DropGoesOn
    <2>1. /\ stage \in 1 .. 4 /\ stage' = stage + 1
          /\ UNCHANGED <<table, closed, spc, key, acceptor, reader, subject, aborted>>
      BY <1>2 DEF DropGoesOn, StopTheCloser, CloseSender, CloseSignal, CancelTasks
    <2>2. Types' /\ InReadersHand' /\ Reserved' /\ Findable'
      BY <2>1 DEF Types, InReadersHand, InQueue, Keyed, Reserved, Findable
    <2>3. Ordered'
      BY <2>1 DEF Ordered, DropClosesAll, AbortsOnlyInRace
    <2> QED
      BY <2>2, <2>3
  <1> QED
    BY <1>1, <1>2

LEMMA NextKeeps == IInv /\ [Next]_vars => IInv'
  <1> SUFFICES ASSUME IInv, [Next]_vars PROVE IInv'
    OBVIOUS
  <1>1. ASSUME NEW s \in Streams, DrainDropped(s) PROVE IInv'
    BY <1>1, ClosingKeeps DEF DrainDropped, Drain, serverVars, tableVars, streamVars,
       readerVars, pollerVars
  <1>2. CASE UNCHANGED vars
    BY <1>2, ClosingKeeps DEF vars, cvars, tableVars, streamVars, readerVars
  <1> QED
    BY <1>1, <1>2, FirstInputKeeps, FirstInputRefusedKeeps, ReaderKeeps, AcceptKeeps,
       WriteKeeps, DropStreamKeeps, PollerKeeps, DropKeeps, CloserKeeps DEF Next

LEMMA Invariant == Spec => []IInv
  BY Initially, NextKeeps, PTL DEF Spec
-----------------------------------------------------------------------------
(* A peer and conv never have two open sessions: kcp_async_recv makes a    *)
(* new one only when the closer has closed and removed the old one.        *)
THEOREM OnePerPeer == Spec => []OneSessionPerPeer
  <1>1. IInv => OneSessionPerPeer
    <2> SUFFICES ASSUME IInv, NEW s \in Streams \ closed, NEW t \in Streams \ closed,
                        key[s] # None, key[s] = key[t], spc[s] # "gone", spc[t] # "gone"
                 PROVE  s = t
      BY DEF OneSessionPerPeer
    <2> USE NoneIsNoStream DEF IInv, InHand, InReadersHand, InQueue, Keyed, Findable
    <2>1. CASE spc[s] \in {"made", "registered"} /\ spc[t] \in {"made", "registered"}
      BY <2>1
    <2>2. CASE spc[s] \notin {"made", "registered"} /\ spc[t] \notin {"made", "registered"}
      BY <2>2
    <2>3. CASE spc[s] \in {"made", "registered"} <=> spc[t] \notin {"made", "registered"}
      BY <2>3 DEF Reserved
    <2> QED
      BY <2>1, <2>2, <2>3
  <1> QED
    BY <1>1, Invariant, PTL

(* The Drop of the listener closes every session whose stream the          *)
(* application has or had.                                                 *)
THEOREM ListenerClosesAll == Spec => []DropClosesAll
  <1>1. IInv => DropClosesAll
    BY DEF IInv, Ordered
  <1> QED
    BY <1>1, Invariant, PTL

(* KcpOutput::output finds its queue closed only in an update that races   *)
(* with the Drop of the listener, never in a write of the application.     *)
THEOREM WritesNeverAbort == Spec => []AbortsOnlyInRace
  <1>1. IInv => AbortsOnlyInRace
    BY DEF IInv, Ordered
  <1> QED
    BY <1>1, Invariant, PTL
-----------------------------------------------------------------------------
(* Who owns what is in the table.  Every session there was inserted under  *)
(* its key, and the close of one whose stream was dropped is tracked.      *)
FoundOne == reader = "found" => subject \in Streams
AllTypes == TypeOK /\ Shape /\ FoundOne

Placed ==
  \A k \in Keys : table[k] # None =>
    /\ key[table[k]] = k
    /\ spc[table[k]] \in {"inserted", "waiting", "open", "dropped", "gone"}
    /\ spc[table[k]] = "gone" => closing
NotYet == \A s \in Streams : spc[s] \in {"new", "made", "registered"} => Unseen(s)
InOrder == \A k \in Keys : table[k] # None => Newest(k, table[k])
Followed ==
  ~ closing =>
    \A k \in Keys :
      table[k] # None /\ spc[table[k]] = "dropped" => Tracked(k, table[k])
ClosingFirst == stage >= 2 => closing

OInv == AllTypes /\ Placed /\ NotYet /\ InOrder /\ Followed /\ ClosingFirst

LEMMA AllTypesKeep == IInv /\ AllTypes /\ [Next]_vars => AllTypes'
  <1> SUFFICES ASSUME IInv, AllTypes, [Next]_vars PROVE AllTypes'
    OBVIOUS
  <1> USE NoneIsApart DEF AllTypes, tableVars, streamVars, pollerVars, readerVars, cvars, closerVars,
          passVars, serverVars, InHand, FoundOne
  <1>0. reader \in InHand => subject \in Streams /\ key[subject] \in Keys
    BY DEF IInv, InReadersHand
  <1>1. ASSUME NEW k \in Keys, Found(k) PROVE AllTypes'
    BY <1>1 DEF Found, TypeOK, CloserTypeOK, Shape
  <1>2. ASSUME NEW k \in Keys, FirstInput(k) PROVE AllTypes'
    BY <1>2 DEF FirstInput, TypeOK, CloserTypeOK, Shape
  <1>3. ASSUME NEW k \in Keys, FirstInputRefused(k) PROVE AllTypes'
    BY <1>3 DEF FirstInputRefused, TypeOK, CloserTypeOK, Shape
  <1>4. CASE ReaderStarts \/ InputTaken \/ InputRefused
    BY <1>4 DEF ReaderStarts, InputTaken, InputRefused, Back, TypeOK, CloserTypeOK, Shape
  <1>5. CASE Register \/ RegisterFails
    BY <1>0, <1>5 DEF Register, RegisterFails, TypeOK, CloserTypeOK, Shape
  <1>6. CASE Insert
    BY <1>0, <1>6 DEF Insert, TypeOK, CloserTypeOK, Shape
  <1>7. CASE Offer \/ Accept
    BY <1>0, <1>7 DEF Offer, Back, Accept, TypeOK, CloserTypeOK, Shape
  <1>8. CASE ReaderDropped
    BY <1>8 DEF ReaderDropped, TypeOK, CloserTypeOK, Shape
  <1>9. ASSUME NEW s \in Streams, Write(s) \/ UpdateDone(s) PROVE AllTypes'
    BY <1>9 DEF Write, UpdateDone, Output, TypeOK, CloserTypeOK, Shape
  <1>10. ASSUME NEW s \in Streams, DropStream(s) PROVE AllTypes'
    <2>1. key[s] \in Keys
      BY <1>10 DEF DropStream, IInv, InReadersHand, Keyed, Types
    <2>2. requests' \in Seq(Keys)
      BY <1>10, <2>1, AppendProperties DEF DropStream, RequestClose, TypeOK, CloserTypeOK
    <2> QED
      BY <1>10, <2>2 DEF DropStream, TypeOK, CloserTypeOK, Shape
  <1>11. ASSUME NEW s \in Streams, LeavesPoller(s) \/ UpdateStarts(s) \/ UpdateTimesOut(s)
         PROVE  AllTypes'
    BY <1>11 DEF LeavesPoller, UpdateStarts, UpdateTimesOut, TypeOK, CloserTypeOK, Shape
  <1>12. CASE PollerTakes \/ PollerStops \/ PollerEnds \/ PollerDropped
    BY <1>12 DEF PollerTakes, PollerStops, PollerEnds, PollerDropped, TypeOK, CloserTypeOK, Shape
  <1>13. CASE CloseAllSessions
    BY <1>13 DEF CloseAllSessions, InTable, TypeOK, CloserTypeOK, Shape
  <1>14. CASE StopTheCloser
    BY <1>14 DEF StopTheCloser, TypeOK, CloserTypeOK, Shape
  <1>15. CASE CloseSender \/ CloseSignal \/ CancelTasks
    BY <1>15 DEF CloseSender, CloseSignal, CancelTasks, TypeOK, CloserTypeOK, Shape
  <1>16. ASSUME NEW s \in Streams, DrainDropped(s) PROVE AllTypes'
    BY <1>16 DEF DrainDropped, Drain, TypeOK, CloserTypeOK, Shape
  <1>17. CASE CloserStep /\ UNCHANGED serverVars
    BY <1>17, CloserTypes DEF TypeOK
  <1>18. CASE UNCHANGED vars
    BY <1>18 DEF vars, TypeOK, CloserTypeOK, Shape
  <1> QED
    BY <1>1, <1>2, <1>3, <1>4, <1>5, <1>6, <1>7, <1>8, <1>9, <1>10, <1>11, <1>12, <1>13, <1>14,
       <1>15, <1>16, <1>17, <1>18 DEF Next, ReaderGoesOn, PollerGoesOn, DropGoesOn

(* Steps that leave the table and the closer alone, and do to streams only *)
(* what does not matter for a session in the table.                        *)
trackVars == <<table, requests, futures, clpc, cur, passVars>>

LEMMA OElsewhere ==
  ASSUME OInv, AllTypes', UNCHANGED trackVars,
         closing => closing', ClosingFirst',
         \A s \in Streams :
           \/ UNCHANGED <<spc[s], key[s]>>
           \/ spc[s] = "new" /\ spc'[s] \in {"made", "gone"}
           \/ /\ spc'[s] = "registered" => spc[s] = "made"
              /\ spc'[s] \in {"registered", "waiting", "open", "gone"}
              /\ spc[s] \in {"made", "registered"} => spc'[s] \in {"registered", "gone"}
              /\ spc'[s] = "gone" => closing \/ spc[s] = "made"
              /\ key'[s] = key[s]
  PROVE  OInv'
  <1> USE NoneIsApart DEF OInv, trackVars, passVars
  <1>1. \A s \in Streams : Unseen(s) <=> Unseen(s)'
    BY DEF Unseen
  <1>2. \A k \in Keys : table[k] # None =>
          /\ table[k] \in Streams
          /\ spc[table[k]] \in {"inserted", "waiting", "open", "dropped", "gone"}
    BY DEF Placed, AllTypes, TypeOK, CloserTypeOK
  <1>3. Placed'
    BY <1>2 DEF Placed
  <1>4. NotYet'
    BY <1>1 DEF NotYet
  <1>5. InOrder'
    BY DEF InOrder, Newest
  <1>6. Followed'
    BY <1>2 DEF Followed, Tracked
  <1> QED
    BY <1>3, <1>4, <1>5, <1>6

LEMMA OInsertKeeps ==
  ASSUME IInv, OInv, AllTypes', Insert
  PROVE  OInv'
  <1> USE NoneIsApart DEF OInv
  <1>1. /\ subject \in Streams /\ spc[subject] = "registered" /\ key[subject] \in Keys
        /\ spc' = [spc EXCEPT ![subject] = "inserted"]
        /\ table' = [table EXCEPT ![key[subject]] = subject]
        /\ UNCHANGED <<requests, closing, futures, clpc, cur, at, hand, missed, key, subject, stage>>
    BY DEF Insert, closerVars, passVars, IInv, InReadersHand, InHand
  <1>2. /\ spc \in [Streams -> InHand \cup {"new", "waiting", "open", "dropped", "gone"}]
        /\ table \in [Keys -> Streams \cup {None}]
    BY DEF AllTypes, TypeOK, CloserTypeOK
  <1>3. Unseen(subject)
    BY <1>1 DEF NotYet
  <1>4. Placed' /\ ClosingFirst'
    BY <1>1, <1>2 DEF Placed, ClosingFirst
  <1>5. NotYet'
    BY <1>1, <1>2 DEF NotYet, Unseen
  <1>6. InOrder'
    <2> SUFFICES ASSUME NEW k \in Keys, table'[k] # None PROVE Newest(k, table[k])'
      BY DEF InOrder
    <2>1. CASE k = key[subject]
      BY <1>1, <1>2, <1>3, <2>1 DEF Newest, Unseen
    <2>2. CASE k # key[subject]
      <3>1. table'[k] = table[k] /\ Newest(k, table[k])
        BY <1>1, <1>2, <2>2 DEF InOrder
      <3> QED
        BY <1>1, <3>1 DEF Newest
    <2> QED
      BY <2>1, <2>2
  <1>7. Followed'
    BY <1>1, <1>2 DEF Followed, Tracked
  <1> QED
    BY <1>4, <1>5, <1>6, <1>7

LEMMA ODropStreamKeeps ==
  ASSUME IInv, OInv, AllTypes', NEW s \in Streams, DropStream(s)
  PROVE  OInv'
  <1> USE NoneIsApart DEF OInv
  <1>1. /\ spc[s] = "open" /\ spc' = [spc EXCEPT ![s] = "dropped"]
        /\ UNCHANGED <<table, closing, futures, clpc, cur, at, hand, missed, key, stage>>
    BY DEF DropStream, tableVars, passVars
  <1>2. /\ spc \in [Streams -> InHand \cup {"new", "waiting", "open", "dropped", "gone"}]
        /\ table \in [Keys -> Streams \cup {None}]
        /\ key[s] \in Keys /\ requests \in Seq(Keys)
    BY <1>1 DEF AllTypes, TypeOK, CloserTypeOK, IInv, InReadersHand, Keyed
  <1>3. Placed' /\ NotYet' /\ InOrder' /\ ClosingFirst'
    BY <1>1, <1>2 DEF Placed, NotYet, Unseen, InOrder, Newest, ClosingFirst
  <1>4. ASSUME ~ closing
        PROVE  /\ \A i \in DOMAIN requests : \E j \in DOMAIN requests' : requests'[j] = requests[i]
               /\ \E j \in DOMAIN requests' : requests'[j] = key[s]
    <2>1. requests' = Append(requests, key[s])
      BY <1>4 DEF DropStream, RequestClose
    <2>2. /\ Len(requests') = Len(requests) + 1 /\ Len(requests) \in Nat
          /\ DOMAIN requests = 1 .. Len(requests) /\ DOMAIN requests' = 1 .. Len(requests')
          /\ \A i \in 1 .. Len(requests) : requests'[i] = requests[i]
          /\ requests'[Len(requests) + 1] = key[s]
      BY <1>2, <2>1, AppendProperties, LenProperties
    <2> QED
      BY <2>2
  <1>5. Followed'
    <2> SUFFICES ASSUME ~ closing, NEW k \in Keys, table[k] # None, spc'[table[k]] = "dropped"
                 PROVE  Tracked(k, table[k])'
      BY <1>1 DEF Followed
    <2>1. CASE table[k] = s
      BY <1>4, <2>1 DEF Placed, Tracked
    <2>2. CASE table[k] # s
      <3>1. Tracked(k, table[k])
        BY <1>1, <1>2, <2>2 DEF Followed
      <3> QED
        BY <1>1, <1>4, <3>1 DEF Tracked
    <2> QED
      BY <2>1, <2>2
  <1> QED
    BY <1>3, <1>5

LEMMA OCloserKeeps ==
  ASSUME OInv, AllTypes', CloserStep, UNCHANGED serverVars
  PROVE  OInv'
  <1> USE NoneIsApart DEF OInv, serverVars, streamVars
  <1>1. CloserTypeOK /\ Shape
    BY DEF AllTypes, TypeOK
  <1>2. UNCHANGED closing /\ \A k \in Keys : table'[k] # None => table'[k] = table[k]
    BY <1>1 DEF CloserStep, CloserMoves, CloserTakes, CloserLooksUp, CloserPassStarts, CloserPollsReady,
       CloserPollsOpen, CloserRegisters, CloserWakes, CloserRemoves, CloserEnds, TakeOut, tableVars, CloserTypeOK
  <1>3. Placed' /\ ClosingFirst'
    BY <1>2 DEF Placed, ClosingFirst
  <1>4. NotYet'
    BY <1>1, CloserUnseen DEF NotYet
  <1>5. ASSUME NEW k \in Keys, table'[k] # None
        PROVE  /\ Newest(k, table[k])'
               /\ Tracked(k, table[k]) /\ ~ closing => Tracked(k, table[k])'
    <2>1. PICK s \in Streams : table[k] = s /\ table'[k] = s
      BY <1>1, <1>2, <1>5 DEF CloserTypeOK
    <2>2. \A l \in Keys : table[l] = s => l = k
      BY <2>1 DEF Placed
    <2>3. Newest(k, s)
      BY <2>1 DEF InOrder
    <2>4. /\ Newest(k, s)'
          /\ Tracked(k, s) /\ ~ closing => Tracked(k, s)'
      BY <1>1, <2>1, <2>2, <2>3, CloserTracks
    <2> QED
      BY <2>1, <2>4 DEF Newest, Tracked
  <1>6. InOrder' /\ Followed'
    BY <1>2, <1>5 DEF InOrder, Followed
  <1> QED
    BY <1>3, <1>4, <1>6

LEMMA ODropKeeps ==
  ASSUME OInv, AllTypes', CloseAllSessions \/ DropGoesOn
  PROVE  OInv'
  <1> USE NoneIsApart DEF OInv, streamVars, cvars, tableVars, closerVars, passVars, trackVars
  <1>0. stage \in 0 .. 5
    BY DEF AllTypes, TypeOK
  <1>1. CASE CloseAllSessions
    <2>1. table' = [k \in Keys |-> None] /\ stage' = 1
          /\ UNCHANGED <<requests, closing, futures, clpc, cur, at, hand, missed, spc, key>>
      BY <1>1 DEF CloseAllSessions
    <2> QED
      BY <2>1 DEF Placed, NotYet, Unseen, InOrder, Followed, ClosingFirst
  <1>2. CASE StopTheCloser
    BY <1>2, OElsewhere DEF StopTheCloser, ClosingFirst
  <1>3. CASE CloseSender \/ CloseSignal \/ CancelTasks
    BY <1>0, <1>3, OElsewhere DEF CloseSender, CloseSignal, CancelTasks, ClosingFirst
  <1> QED
    BY <1>1, <1>2, <1>3 DEF DropGoesOn

LEMMA OInvKeeps == IInv /\ OInv /\ [Next]_vars => OInv'
  <1> SUFFICES ASSUME IInv, OInv, [Next]_vars PROVE OInv'
    OBVIOUS
  <1> USE NoneIsApart DEF tableVars, streamVars, pollerVars, readerVars, cvars, closerVars, trackVars,
          passVars, InHand
  <1>0. AllTypes'
    BY AllTypesKeep DEF OInv
  <1>1. /\ spc \in [Streams -> InHand \cup {"new", "waiting", "open", "dropped", "gone"}]
        /\ key \in [Streams -> Keys \cup {None}] /\ ClosingFirst
    BY DEF OInv, AllTypes, TypeOK
  <1>2. ASSUME UNCHANGED <<trackVars, spc, key, closing, stage>> PROVE OInv'
    BY <1>0, <1>1, <1>2, OElsewhere DEF ClosingFirst
  <1>3. ASSUME NEW k \in Keys, FirstInput(k) \/ FirstInputRefused(k) PROVE OInv'
    <2>1. /\ UNCHANGED <<trackVars, closing, stage>>
          /\ \E s \in Streams : \E v \in {"made", "gone"} :
               /\ spc[s] = "new" /\ spc' = [spc EXCEPT ![s] = v]
               /\ \A t \in Streams : t # s => key'[t] = key[t]
      BY <1>1, <1>3 DEF FirstInput, FirstInputRefused
    <2>2. \A s \in Streams :
            UNCHANGED <<spc[s], key[s]>> \/ (spc[s] = "new" /\ spc'[s] \in {"made", "gone"})
      BY <1>1, <2>1
    <2>3. ClosingFirst'
      BY <1>1, <2>1 DEF ClosingFirst
    <2> QED
      BY <1>0, <2>1, <2>2, <2>3, OElsewhere
  <1>4. CASE Register \/ RegisterFails \/ Offer \/ Accept
    <2>1. PICK s \in Streams, v \in {"registered", "gone", "waiting", "open"} :
            /\ spc' = [spc EXCEPT ![s] = v]
            /\ v \in {"registered", "gone"} => spc[s] = "made"
            /\ v = "waiting" => spc[s] = "inserted"
            /\ v = "open" => spc[s] = "waiting"
      BY <1>4 DEF Register, RegisterFails, Offer, Accept, IInv, Types, InReadersHand, InQueue
    <2>2. UNCHANGED <<trackVars, closing, stage, key>>
      BY <1>4 DEF Register, RegisterFails, Offer, Accept
    <2>3. ClosingFirst'
      BY <1>1, <2>2 DEF ClosingFirst
    <2> QED
      BY <1>0, <1>1, <2>1, <2>2, <2>3, OElsewhere
  <1>5. CASE ReaderDropped
    <2>1. /\ spc' = [s \in Streams |-> IF s \in {subject, acceptor} THEN "gone" ELSE spc[s]]
          /\ UNCHANGED <<trackVars, closing, stage, key>>
      BY <1>5 DEF ReaderDropped
    <2>2. closing /\ ClosingFirst'
      BY <1>1, <1>5, <2>1 DEF ReaderDropped, Cancelled, ClosingFirst
    <2> QED
      BY <1>0, <1>1, <2>1, <2>2, OElsewhere
  <1>6. CASE ReaderStarts \/ InputTaken \/ InputRefused \/ \E k \in Keys : Found(k)
    BY <1>2, <1>6 DEF ReaderStarts, InputTaken, InputRefused, Found
  <1>7. ASSUME NEW s \in Streams,
               \/ Write(s) \/ LeavesPoller(s) \/ UpdateStarts(s) \/ UpdateTimesOut(s)
               \/ UpdateDone(s) \/ DrainDropped(s)
        PROVE  OInv'
    BY <1>2, <1>7 DEF Write, LeavesPoller, UpdateStarts, UpdateTimesOut, UpdateDone, DrainDropped,
       Drain, serverVars
  <1>8. CASE PollerTakes \/ PollerStops \/ PollerEnds \/ PollerDropped
    BY <1>2, <1>8 DEF PollerTakes, PollerStops, PollerEnds, PollerDropped
  <1>9. CASE UNCHANGED vars
    BY <1>2, <1>9 DEF vars
  <1> QED
    BY <1>0, <1>3, <1>4, <1>5, <1>6, <1>7, <1>8, <1>9, OInsertKeeps, ODropStreamKeeps, OCloserKeeps,
       ODropKeeps DEF Next, ReaderGoesOn, PollerGoesOn

LEMMA OInitially == Init => OInv
  <1> SUFFICES ASSUME Init PROVE OInv
    OBVIOUS
  <1> USE NoneIsApart DEF Init, CloserInit
  <1>1. CloserTypeOK /\ Shape
    BY EmptySeq DEF CloserTypeOK, Shape
  <1>2. AllTypes
    BY <1>1 DEF AllTypes, TypeOK, FoundOne, InHand
  <1>3. Placed /\ NotYet /\ InOrder /\ Followed /\ ClosingFirst
    BY DEF Placed, NotYet, Unseen, InOrder, Followed, ClosingFirst
  <1> QED
    BY <1>2, <1>3 DEF OInv

LEMMA OInvariant == Spec => []OInv
  <1>1. Init => IInv /\ OInv
    BY Initially, OInitially
  <1>2. (IInv /\ OInv) /\ [Next]_vars => (IInv /\ OInv)'
    BY NextKeeps, OInvKeeps
  <1> QED
    BY <1>1, <1>2, PTL DEF Spec

THEOREM TypesHold == Spec => []TypeOK
  <1>1. OInv => TypeOK
    BY DEF OInv, AllTypes
  <1> QED
    BY <1>1, OInvariant, PTL

(* A session in the table, which keeps its peer from getting a new one,    *)
(* has an owner that will take it out: a stream that is not dropped yet,   *)
(* or the closer - unless a pass displaced it.                             *)
THEOREM TableIsOwned == Spec => []MappedIsOwned
  <1>1. OInv => MappedIsOwned
    <2> SUFFICES ASSUME OInv, NEW k \in Keys, table[k] # None, ~ closing
                 PROVE  \/ spc[table[k]] \in {"inserted", "waiting", "open"}
                        \/ /\ spc[table[k]] = "dropped"
                           /\ CloseUnderWay(table[k]) \/ table[k] \in missed
      BY DEF MappedIsOwned
    <2>1. key[table[k]] = k
      BY DEF OInv, Placed
    <2>2. CASE spc[table[k]] = "dropped"
      <3>1. Newest(k, table[k]) /\ Tracked(k, table[k])
        BY <2>2 DEF OInv, InOrder, Followed
      <3> QED
        BY <2>1, <2>2, <3>1 DEF Newest, Tracked, CloseUnderWay
    <2> QED
      BY <2>2 DEF OInv, Placed
  <1> QED
    BY <1>1, OInvariant, PTL

(* A listener is a registry of its sessions by peer and conv: every step   *)
(* of the tasks of src/server.rs either enters a new session where there   *)
(* is none, or ends some, or does neither.                                 *)
THEOREM ServerIsRegistry == Spec => ImplementsRegistry
  <1>1. Init => registry!Init
    BY RegistryInit DEF Init
  <1>2. IInv /\ OInv /\ OInv' /\ [Next]_vars => RegistryStep
    <2> SUFFICES ASSUME IInv, OInv, OInv', [Next]_vars PROVE RegistryStep
      OBVIOUS
    <2>0. CloserTypeOK /\ CloserTypeOK'
      BY DEF OInv, AllTypes, TypeOK
    <2>1. ASSUME UNCHANGED table, closed \subseteq closed' PROVE RegistryStep
      BY <2>0, <2>1, Leaves DEF CloserTypeOK
    <2>2. CASE Insert
      <3>1. /\ subject \in Streams /\ key[subject] \in Keys /\ table[key[subject]] = None
            /\ spc[subject] = "registered"
            /\ table' = [table EXCEPT ![key[subject]] = subject] /\ UNCHANGED closed
        BY <2>2 DEF Insert, IInv, InReadersHand, Reserved, InHand
      <3>2. \A k \in Keys : table[k] # subject
        BY <3>1 DEF OInv, NotYet, Unseen
      <3> QED
        BY <2>0, <3>1, <3>2, Enters DEF CloserTypeOK
    <2>3. CASE CloserStep
      BY <2>0, <2>3, CloserIsRegistry
    <2>4. CASE CloseAllSessions
      <3>1. /\ \A k \in Keys : table'[k] = None /\ table[k] \in closed' \cup {None}
            /\ closed \subseteq closed'
        BY <2>4 DEF CloseAllSessions, InTable
      <3> QED
        BY <2>0, <3>1, Leaves DEF CloserTypeOK
    <2>5. CASE \/ ReaderStarts \/ InputTaken \/ InputRefused \/ Register \/ RegisterFails
               \/ Offer \/ ReaderDropped \/ Accept
               \/ \E k \in Keys : Found(k) \/ FirstInput(k) \/ FirstInputRefused(k)
      BY <2>1, <2>5 DEF ReaderStarts, InputTaken, InputRefused, Register, RegisterFails, Offer,
         ReaderDropped, Accept, Found, FirstInput, FirstInputRefused, cvars, tableVars
    <2>6. ASSUME NEW s \in Streams,
                 \/ Write(s) \/ DropStream(s) \/ LeavesPoller(s) \/ UpdateStarts(s)
                 \/ UpdateTimesOut(s) \/ UpdateDone(s) \/ DrainDropped(s)
          PROVE  RegistryStep
      BY <2>1, <2>6 DEF Write, DropStream, LeavesPoller, UpdateStarts, UpdateTimesOut, UpdateDone,
         DrainDropped, Drain, cvars, tableVars
    <2>7. CASE PollerTakes \/ PollerStops \/ PollerEnds \/ PollerDropped \/ DropGoesOn \/ UNCHANGED vars
      BY <2>1, <2>7 DEF PollerTakes, PollerStops, PollerEnds, PollerDropped, DropGoesOn, StopTheCloser,
         CloseSender, CloseSignal, CancelTasks, vars, cvars, tableVars
    <2> QED
      BY <2>2, <2>3, <2>4, <2>5, <2>6, <2>7 DEF Next, ReaderGoesOn, PollerGoesOn
  <1>3. Spec => [](IInv /\ OInv)
    BY Invariant, OInvariant, PTL
  <1> QED
    BY <1>1, <1>2, <1>3, PTL DEF Spec, ImplementsRegistry, registry!Spec, RegistryStep
-----------------------------------------------------------------------------
(* The poller of this module against Custody, which module Poller is       *)
(* proved to implement.  A session that has not been registered is nowhere *)
(* near the poller, and nobody has closed it; one that is being updated    *)
(* stays with it.                                                          *)
NotGiven ==
  \A s \in Streams :
    spc[s] \in {"new", "made"} =>
      /\ s # queued /\ s \notin held \cup closed
      /\ reader = "found" => s # subject
InUpdate == updating # None => updating \in held /\ poller = "running"
Given == NotGiven /\ InUpdate

CustodyStep == [custody!Next]_(custody!vars)

(* Steps of the others, who close what is out of the hands of the reader.  *)
LEMMA CCloses ==
  ASSUME Given, AllTypes', UNCHANGED <<poller, queued, held, updating, Cancelled>>,
         closed \subseteq closed',
         \A s \in Streams : spc'[s] \in {"new", "made"} =>
           /\ spc[s] \in {"new", "made"} /\ s \notin closed' \ closed
           /\ reader' = "found" => s # subject'
  PROVE  CustodyStep /\ Given'
  <1>1. closed' \subseteq Streams
    BY DEF AllTypes, TypeOK, CloserTypeOK
  <1>2. custody!CloseOthers(closed')
    BY DEF custody!CloseOthers
  <1>3. CustodyStep
    BY <1>1, <1>2 DEF CustodyStep, custody!Next
  <1>4. Given'
    BY DEF Given, NotGiven, InUpdate
  <1> QED
    BY <1>3, <1>4

LEMMA CRegister ==
  ASSUME IInv, AllTypes, Given, Register
  PROVE  CustodyStep /\ Given'
  <1> USE NoneIsApart DEF cvars, tableVars, Given
  <1>1. /\ poller = "running" /\ queued = None /\ queued' = subject /\ subject \in Streams
        /\ spc[subject] = "made" /\ spc' = [spc EXCEPT ![subject] = "registered"]
        /\ reader' = "registered" /\ UNCHANGED <<closed, held, poller, updating, stage>>
    BY DEF Register, IInv, InReadersHand, InHand
  <1>2. custody!Accept(subject)
    BY <1>1 DEF custody!Accept, NotGiven, Cancelled
  <1>3. NotGiven'
    BY <1>1 DEF NotGiven, AllTypes, TypeOK
  <1>4. InUpdate'
    BY <1>1 DEF InUpdate
  <1> QED
    BY <1>1, <1>2, <1>3, <1>4 DEF CustodyStep, custody!Next

LEMMA CPoller ==
  ASSUME AllTypes, Given,
         \/ PollerTakes \/ PollerStops \/ PollerEnds \/ PollerDropped
         \/ \E s \in Streams : LeavesPoller(s) \/ UpdateTimesOut(s)
  PROVE  CustodyStep /\ Given'
  <1> USE NoneIsApart DEF cvars, tableVars, streamVars, readerVars, Given, Cancelled
  <1>1. CASE PollerTakes
    <2>1. queued \in Streams /\ custody!Take(queued)
      BY <1>1 DEF PollerTakes, custody!Take, AllTypes, TypeOK
    <2>2. Given'
      BY <1>1 DEF PollerTakes, NotGiven, InUpdate
    <2> QED
      BY <2>1, <2>2 DEF CustodyStep, custody!Next
  <1>2. CASE PollerStops
    <2>1. custody!Refuse /\ Given'
      BY <1>2 DEF PollerStops, custody!Refuse, NotGiven, InUpdate
    <2> QED
      BY <2>1 DEF CustodyStep, custody!Next
  <1>3. CASE PollerEnds
    <2>1. held \in SUBSET held /\ custody!LetGo(held)
      BY <1>3 DEF PollerEnds, custody!LetGo
    <2>2. Given'
      BY <1>3 DEF PollerEnds, NotGiven, InUpdate
    <2> QED
      BY <2>1, <2>2 DEF CustodyStep, custody!Next
  <1>4. CASE PollerDropped
    <2>1. custody!Drop
      BY <1>4 DEF PollerDropped, custody!Drop
    <2>2. Given'
      BY <1>4 DEF PollerDropped, NotGiven, InUpdate
    <2> QED
      BY <2>1, <2>2 DEF CustodyStep, custody!Next
  <1>5. ASSUME NEW s \in Streams, LeavesPoller(s) PROVE CustodyStep /\ Given'
    <2>1. {} \in SUBSET held /\ custody!LetGo({})
      BY <1>5 DEF LeavesPoller, custody!LetGo
    <2>2. Given'
      BY <1>5 DEF LeavesPoller, NotGiven, InUpdate
    <2> QED
      BY <2>1, <2>2 DEF CustodyStep, custody!Next
  <1>6. ASSUME NEW s \in Streams, UpdateTimesOut(s) PROVE CustodyStep /\ Given'
    <2>1. s \in held
      BY <1>6 DEF UpdateTimesOut, InUpdate
    <2>2. {s} \in SUBSET held /\ custody!LetGo({s})
      BY <1>6, <2>1 DEF UpdateTimesOut, custody!LetGo
    <2>3. Given'
      BY <1>6 DEF UpdateTimesOut, NotGiven, InUpdate
    <2> QED
      BY <2>2, <2>3 DEF CustodyStep, custody!Next
  <1> QED
    BY <1>1, <1>2, <1>3, <1>4, <1>5, <1>6

LEMMA CReader ==
  ASSUME IInv, OInv, AllTypes', Given,
         \/ ReaderStarts \/ InputTaken \/ InputRefused \/ RegisterFails \/ Insert \/ Offer
         \/ ReaderDropped
         \/ \E k \in Keys : Found(k) \/ FirstInput(k) \/ FirstInputRefused(k)
  PROVE  CustodyStep /\ Given'
  <1> USE DEF cvars, tableVars, streamVars, pollerVars, readerVars, Cancelled
  <1>0. spc \in [Streams -> InHand \cup {"new", "waiting", "open", "dropped", "gone"}]
        /\ closed \subseteq Streams
    BY DEF OInv, AllTypes, TypeOK, CloserTypeOK
  <1>1. CASE ReaderStarts \/ InputTaken
    BY <1>1, CCloses DEF ReaderStarts, InputTaken, Back
  <1>2. CASE InputRefused
    <2>1. \A s \in Streams : spc[s] \in {"new", "made"} => s # subject
      BY <1>2 DEF InputRefused, Given, NotGiven
    <2> QED
      BY <1>2, <2>1, CCloses DEF InputRefused, Back
  <1>3. CASE RegisterFails \/ Insert \/ Offer
    <2>1. \E v \in {"gone", "inserted", "waiting"} : spc' = [spc EXCEPT ![subject] = v]
      BY <1>3 DEF RegisterFails, Insert, Offer
    <2>2. UNCHANGED <<closed, poller, queued, held, updating, stage>> /\ reader' # "found"
      BY <1>3 DEF RegisterFails, Insert, Offer, Back
    <2> QED
      BY <1>0, <2>1, <2>2, CCloses
  <1>4. CASE ReaderDropped
    BY <1>0, <1>4, CCloses DEF ReaderDropped
  <1>5. ASSUME NEW k \in Keys, Found(k) PROVE CustodyStep /\ Given'
    <2>1. subject' = table[k] /\ table[k] # None
          /\ UNCHANGED <<closed, poller, queued, held, updating, stage, spc>>
      BY <1>5 DEF Found
    <2>2. spc[table[k]] \notin {"new", "made"}
      BY <2>1 DEF OInv, Placed
    <2> QED
      BY <2>1, <2>2, CCloses
  <1>6. ASSUME NEW k \in Keys, FirstInput(k) PROVE CustodyStep /\ Given'
    <2>1. PICK s \in Streams : spc[s] = "new" /\ spc' = [spc EXCEPT ![s] = "made"]
      BY <1>6 DEF FirstInput
    <2>2. UNCHANGED <<closed, poller, queued, held, updating, stage>> /\ reader' # "found"
      BY <1>6 DEF FirstInput
    <2> QED
      BY <1>0, <2>1, <2>2, CCloses
  <1>7. ASSUME NEW k \in Keys, FirstInputRefused(k) PROVE CustodyStep /\ Given'
    <2>1. PICK s \in Streams :
            spc' = [spc EXCEPT ![s] = "gone"] /\ closed' = closed \cup {s}
      BY <1>7 DEF FirstInputRefused
    <2>2. UNCHANGED <<poller, queued, held, updating, stage>> /\ reader' # "found"
      BY <1>7 DEF FirstInputRefused
    <2> QED
      BY <1>0, <2>1, <2>2, CCloses
  <1> QED
    BY <1>1, <1>2, <1>3, <1>4, <1>5, <1>6, <1>7

LEMMA CNext == IInv /\ OInv /\ Given /\ [Next]_vars => CustodyStep /\ Given'
  <1> SUFFICES ASSUME IInv, OInv, Given, [Next]_vars PROVE CustodyStep /\ Given'
    OBVIOUS
  <1> USE DEF tableVars, streamVars, pollerVars, readerVars, cvars, serverVars, Cancelled
  <1>0. /\ AllTypes /\ AllTypes'
        /\ spc \in [Streams -> InHand \cup {"new", "waiting", "open", "dropped", "gone"}]
        /\ closed \subseteq Streams /\ Placed /\ acceptor \in Streams \cup {None}
    BY AllTypesKeep DEF OInv, AllTypes, TypeOK, CloserTypeOK
  <1>1. ASSUME UNCHANGED <<poller, queued, held, updating, Cancelled, spc, readerVars>>,
               closed \subseteq closed', closed' \subseteq closed \cup InTable
        PROVE  CustodyStep /\ Given'
    <2>1. \A s \in InTable : spc[s] \notin {"new", "made"}
      BY <1>0 DEF InTable, Placed
    <2>2. \A s \in Streams : spc[s] \in {"new", "made"} /\ reader = "found" => s # subject
      BY DEF Given, NotGiven
    <2> QED
      BY <1>0, <1>1, <2>1, <2>2, CCloses
  <1>2. CASE CloserStep /\ UNCHANGED serverVars
    <2>1. CASE CloserRemoves
      BY <1>0, <1>1, <1>2, <2>1 DEF CloserRemoves, TakeOut, InTable, AllTypes, Shape
    <2>2. CASE ~ CloserRemoves
      <3>1. UNCHANGED closed
        BY <1>2, <2>2 DEF CloserStep, CloserMoves, CloserTakes, CloserLooksUp, CloserEnds,
           CloserPollsReady, CloserPollsOpen, CloserRegisters, CloserWakes, CloserPassStarts
      <3> QED
        BY <1>1, <1>2, <3>1
    <2> QED
      BY <2>1, <2>2
  <1>3. CASE CloseAllSessions \/ StopTheCloser \/ CloseSender \/ CloseSignal \/ UNCHANGED vars
    BY <1>1, <1>3 DEF CloseAllSessions, StopTheCloser, CloseSender, CloseSignal, vars
  <1>4. CASE CancelTasks
    <2>1. custody!Cancel
      BY <1>4 DEF CancelTasks, custody!Cancel
    <2>2. Given'
      BY <1>4 DEF CancelTasks, Given, NotGiven, InUpdate
    <2> QED
      BY <2>1, <2>2 DEF CustodyStep, custody!Next
  <1>5. ASSUME NEW s \in Streams, Write(s) \/ DrainDropped(s) PROVE CustodyStep /\ Given'
    BY <1>1, <1>5 DEF Write, DrainDropped, Drain
  <1>6. ASSUME NEW s \in Streams, UpdateStarts(s) \/ UpdateDone(s) PROVE CustodyStep /\ Given'
    <2>1. UNCHANGED <<poller, queued, held, closed, stage, spc, reader, subject>>
      BY <1>6 DEF UpdateStarts, UpdateDone
    <2>2. updating' = None \/ (updating' \in held /\ poller = "running")
      BY <1>6 DEF UpdateStarts, UpdateDone
    <2> QED
      BY <2>1, <2>2 DEF CustodyStep, custody!vars, Given, NotGiven, InUpdate
  <1>7. CASE Accept \/ \E s \in Streams : DropStream(s)
    <2>1. \E s \in Streams : \E v \in {"open", "dropped"} : spc' = [spc EXCEPT ![s] = v]
      BY <1>0, <1>7 DEF Accept, DropStream
    <2>2. UNCHANGED <<poller, queued, held, updating, closed, stage, reader, subject>>
      BY <1>7 DEF Accept, DropStream
    <2>3. \A s \in Streams : spc'[s] \in {"new", "made"} =>
            spc[s] \in {"new", "made"} /\ (reader = "found" => s # subject)
      BY <1>0, <2>1 DEF Given, NotGiven
    <2> QED
      BY <1>0, <2>2, <2>3, CCloses
  <1> QED
    BY <1>0, <1>2, <1>3, <1>4, <1>5, <1>6, <1>7, CRegister, CPoller, CReader
       DEF Next, ReaderGoesOn, PollerGoesOn, DropGoesOn

(* What this module takes the poller of src/poller.rs for is what module   *)
(* Poller implements: it is given a session once, before anybody has       *)
(* closed it, and lets an open one go only when the listener cancels it.   *)
THEOREM ServerIsCustody == Spec => ImplementsCustody
  <1>1. Init => custody!Init /\ Given
    BY NoneIsApart DEF Init, CloserInit, custody!Init, Given, NotGiven, InUpdate, Cancelled
  <1>2. (IInv /\ OInv) /\ Given /\ [Next]_vars => CustodyStep /\ Given'
    BY CNext
  <1>3. Spec => [](IInv /\ OInv)
    BY Invariant, OInvariant, PTL
  <1> QED
    BY <1>1, <1>2, <1>3, PTL DEF Spec, ImplementsCustody, custody!Spec, CustodyStep
=============================================================================
