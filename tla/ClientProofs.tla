---------------------------- MODULE ClientProofs ----------------------------
(***************************************************************************)
(* Theorems about Client, for any number of streams and convs.             *)
(*                                                                         *)
(* The first part is about every client, with calls of open that overlap:  *)
(* what the closer keeps track of.  The second part is about calls of open *)
(* one at a time.  In both kcp may refuse the datagrams of any session.    *)
(***************************************************************************)
EXTENDS Client, CloserProofs, FiniteSetTheorems, Arithmetic

RefusedIsKey == reader = "refused" => refused \in Keys

(* What is in the table, and what is not there yet.                        *)
Placed ==
  \A k \in Keys : table[k] # None =>
    conv[table[k]] = k /\ spc[table[k]] \in {"mapped", "told", "open", "dropped", "failed"}
HasConv ==
  \A s \in Streams :
    spc[s] \in Opening \cup {"open", "dropped"} => conv[s] \in Keys
NotYet == \A s \in Streams : spc[s] \in {"none", "made", "registered"} => Unseen(s)

InOrder == \A k \in Keys : table[k] # None => Newest(k, table[k])
Followed ==
  ~ closing =>
    \A k \in Keys :
      table[k] # None /\ spc[table[k]] = "dropped" => Tracked(k, table[k])

Types == TypeOK /\ Shape /\ RefusedIsKey /\ HasConv
IInv == Types /\ Placed /\ NotYet /\ InOrder /\ Followed
-----------------------------------------------------------------------------
LEMMA Bounded ==
  ASSUME NEW x \in Nat, NEW m \in Nat \ {0}
  PROVE  (x % m) + 1 \in 1 .. m
  OBVIOUS

LEMMA NthIsKey ==
  ASSUME TypeOK, NEW n \in 0 .. MaxConv - 1
  PROVE  Nth(n) \in Keys
  <1>1. nextConv - 1 + n \in Nat /\ MaxConv \in Nat \ {0} /\ Keys = 1 .. MaxConv
    BY ClientAssumption DEF TypeOK
  <1> QED
    BY <1>1, Bounded DEF Nth

(* KcpConv::allocate goes over every conv in one turn.                     *)
LEMMA OneTurn ==
  ASSUME NEW m \in Nat \ {0}, NEW c \in 1 .. m, NEW k \in 1 .. m
  PROVE  \E n \in 0 .. m - 1 : ((c - 1 + n) % m) + 1 = k
  <1>1. k - 1 \in Nat /\ k - 1 < m
    OBVIOUS
  <1>2. (k - 1) % m = k - 1 /\ (m + (k - 1)) % m = k - 1
    BY <1>1, Small, OnceAround
  <1>3. CASE k >= c
    <2>1. k - c \in 0 .. m - 1 /\ c - 1 + (k - c) = k - 1
      BY <1>3
    <2>2. ((c - 1 + (k - c)) % m) + 1 = k
      BY <1>2, <2>1
    <2> QED
      BY <2>1, <2>2
  <1>4. CASE k < c
    <2>1. /\ k - c + m \in 0 .. m - 1
          /\ c - 1 + (k - c + m) = m + (k - 1)
      BY <1>4
    <2>2. ((c - 1 + (k - c + m)) % m) + 1 = k
      BY <1>2, <2>1
    <2> QED
      BY <2>1, <2>2
  <1> QED
    BY <1>3, <1>4

LEMMA NthReaches ==
  ASSUME TypeOK, NEW k \in Keys
  PROVE  \E n \in 0 .. MaxConv - 1 : Nth(n) = k
  BY ClientAssumption, OneTurn DEF TypeOK, Nth

LEMMA TakeOutTypes ==
  ASSUME CloserTypeOK, NEW k \in Keys, TakeOut(k)
  PROVE  /\ table' \in [Keys -> Streams \cup {None}]
         /\ closed' \subseteq Streams
  BY NoneIsApart DEF CloserTypeOK, TakeOut

LEMMA TypesKeep == Types /\ [Next]_vars => Types'
  <1> SUFFICES ASSUME Types, [Next]_vars PROVE Types'
    OBVIOUS
  <1> USE NoneIsApart DEF Types, tableVars, streamVars, pollerVars, readerVars, cvars, closerVars,
          passVars, Opening
  <1>1. ASSUME NEW s \in Streams, MakeKcp(s) PROVE Types'
    <2>1. PICK n \in 0 .. MaxConv - 1 :
            nextConv' = Nth(n) /\ conv' = [conv EXCEPT ![s] = Nth(n)]
      BY <1>1 DEF MakeKcp
    <2>2. Nth(n) \in Keys
      BY NthIsKey
    <2> QED
      BY <1>1, <2>1, <2>2 DEF MakeKcp, TypeOK, CloserTypeOK, Shape,
                              RefusedIsKey, HasConv
  <1>2. ASSUME NEW s \in Streams,
               \/ NoMoreConv(s) \/ Register(s) \/ RegisterFails(s)
               \/ TellReader(s) \/ TellPoller(s) \/ GiveUp(s)
        PROVE  Types'
    BY <1>2 DEF NoMoreConv, Register, RegisterFails, TellReader, TellPoller,
                GiveUp, TypeOK, CloserTypeOK, Shape,
       RefusedIsKey, HasConv
  <1>3. ASSUME NEW s \in Streams, Insert(s) PROVE Types'
    BY <1>3 DEF Insert, TypeOK, CloserTypeOK, Shape, RefusedIsKey, HasConv
  <1>4. ASSUME NEW s \in Streams, DropStream(s) PROVE Types'
    BY <1>4, AppendProperties DEF DropStream, RequestClose, HasConv, TypeOK,
                                  CloserTypeOK, Shape,
       RefusedIsKey
  <1>5. ASSUME NEW s \in Streams,
               TimesOut(s) \/ (Drain(s) /\ UNCHANGED <<streamVars, pollerVars, readerVars>>)
        PROVE  Types'
    BY <1>5 DEF TimesOut, Drain, TypeOK, CloserTypeOK, Shape, RefusedIsKey,
                HasConv
  <1>6. CASE CloserStep /\ UNCHANGED <<streamVars, pollerVars, readerVars>>
    BY <1>6, CloserTypes DEF TypeOK, RefusedIsKey, HasConv
  <1>7. CASE \/ PollerTakes \/ PollerEnds \/ PollerDropped \/ QuitReader
             \/ StopPoller \/ SocketFails
    BY <1>7 DEF PollerTakes, PollerEnds, PollerDropped, QuitReader, StopPoller,
                SocketFails,
       TypeOK, CloserTypeOK, Shape, RefusedIsKey, HasConv
  <1>8. ASSUME NEW k \in Keys, RefuseInput(k) PROVE Types'
    BY <1>8 DEF RefuseInput, TypeOK, CloserTypeOK, Shape, RefusedIsKey, HasConv
  <1>9. CASE RemoveRefused
    BY <1>9, TakeOutTypes DEF RemoveRefused, TypeOK, CloserTypeOK, Shape,
                              RefusedIsKey, HasConv
  <1>10. ASSUME NEW p \in Stoppers, StopAll(p) PROVE Types'
    <2>1. CASE CloseAllSessions(p)
      BY <1>10, <2>1 DEF CloseAllSessions, CloseAll, InTable, TypeOK,
                         CloserTypeOK, Shape,
         RefusedIsKey, HasConv
    <2>2. CASE StopThePoller(p)
      BY <1>10, <2>2 DEF StopThePoller, TypeOK, CloserTypeOK, Shape,
                         RefusedIsKey, HasConv
    <2>3. CASE StopTheCloser(p)
      BY <1>10, <2>3 DEF StopTheCloser, TypeOK, CloserTypeOK, Shape,
                         RefusedIsKey, HasConv
    <2>4. CASE CloseReadSignal(p)
      BY <1>10, <2>4 DEF CloseReadSignal, TypeOK, CloserTypeOK, Shape,
                         RefusedIsKey, HasConv
    <2>5. CASE CloseSignal(p)
      BY <1>10, <2>5 DEF CloseSignal, TypeOK, CloserTypeOK, Shape,
                         RefusedIsKey, HasConv
    <2> QED
      BY <1>10, <2>1, <2>2, <2>3, <2>4, <2>5 DEF StopAll
  <1>11. CASE UNCHANGED vars
    BY <1>11 DEF vars, TypeOK, CloserTypeOK, Shape, RefusedIsKey, HasConv
  <1> QED
    BY <1>1, <1>2, <1>3, <1>4, <1>5, <1>6, <1>7, <1>8, <1>9, <1>10, <1>11
       DEF Next, OpenStep
-----------------------------------------------------------------------------
(* The variables that the close of a session is tracked by.                *)
trackVars == <<table, requests, closing, futures, clpc, cur, passVars>>

LEMMA TrackKeeps ==
  ASSUME IInv, Types', UNCHANGED <<trackVars, spc, conv>>
  PROVE  IInv'
  BY DEF IInv, trackVars, passVars, Placed, NotYet, Unseen, InOrder, Newest,
  Followed, Tracked

(* A step of open, which leaves the table alone.                           *)
LEMMA StreamKeeps ==
  ASSUME IInv, Types', UNCHANGED trackVars, NEW s \in Streams, NEW v,
         spc' = [spc EXCEPT ![s] = v],
         \/ /\ spc[s] = "none" /\ v = "made"
            /\ \E k \in Keys : conv' = [conv EXCEPT ![s] = k]
         \/ /\ spc[s] \in {"none", "made", "mapped", "told"}
            /\ v \in {"failed", "registered", "told", "open"}
            /\ v \in {"told", "open"} => spc[s] \in {"mapped", "told"}
            /\ v = "registered" => spc[s] = "made"
            /\ UNCHANGED conv
  PROVE  IInv'
  <1> USE NoneIsApart DEF IInv, trackVars, passVars
  <1>1. spc \in [Streams -> Opening \cup {"none", "open", "dropped", "failed"}]
        /\ conv \in [Streams -> Keys \cup {None}] /\ table \in [Keys -> Streams \cup {None}]
    BY DEF Types, TypeOK, CloserTypeOK
  <1>2. \A t \in Streams : Unseen(t) <=> Unseen(t)'
    BY DEF Unseen
  <1>3. spc[s] = "none" => Unseen(s)
    BY DEF NotYet
  <1>4. Placed'
    BY <1>1, <1>3 DEF Placed, Unseen
  <1>5. NotYet'
    BY <1>1, <1>2 DEF NotYet
  <1>6. InOrder'
    BY DEF InOrder, Newest
  <1>7. Followed'
    BY <1>1 DEF Followed, Tracked
  <1> QED
    BY <1>4, <1>5, <1>6, <1>7

LEMMA InsertKeeps ==
  ASSUME IInv, Types', NEW s \in Streams, Insert(s)
  PROVE  IInv'
  <1> USE NoneIsApart DEF IInv
  <1>1. /\ spc[s] = "registered" /\ spc' = [spc EXCEPT ![s] = "mapped"]
        /\ table' = [table EXCEPT ![conv[s]] = s]
        /\ UNCHANGED <<requests, closing, futures, clpc, cur, at, hand, missed, conv>>
    BY DEF Insert, closerVars, passVars
  <1>2. /\ spc \in [Streams -> Opening \cup {"none", "open", "dropped", "failed"}]
        /\ table \in [Keys -> Streams \cup {None}]
        /\ conv[s] \in Keys
    BY <1>1 DEF Types, TypeOK, CloserTypeOK, HasConv, Opening
  <1>3. Unseen(s)
    BY <1>1 DEF NotYet
  <1>4. Placed'
    BY <1>1, <1>2 DEF Placed
  <1>5. NotYet'
    BY <1>1, <1>2 DEF NotYet, Unseen
  <1>6. Newest(conv[s], s)'
    BY <1>1, <1>3 DEF Newest, Unseen
  <1>7. InOrder'
    <2> SUFFICES ASSUME NEW k \in Keys, table'[k] # None PROVE Newest(k, table[k])'
      BY DEF InOrder
    <2>1. CASE k = conv[s]
      BY <1>1, <1>2, <1>6, <2>1 DEF Newest
    <2>2. CASE k # conv[s]
      <3>1. table'[k] = table[k] /\ Newest(k, table[k])
        BY <1>1, <1>2, <2>2 DEF InOrder
      <3> QED
        BY <1>1, <3>1 DEF Newest
    <2> QED
      BY <2>1, <2>2
  <1>8. Followed'
    BY <1>1, <1>2 DEF Followed, Tracked
  <1> QED
    BY <1>4, <1>5, <1>7, <1>8

LEMMA DropStreamKeeps ==
  ASSUME IInv, Types', NEW s \in Streams, DropStream(s)
  PROVE  IInv'
  <1> USE NoneIsApart DEF IInv
  <1>1. /\ spc[s] = "open" /\ spc' = [spc EXCEPT ![s] = "dropped"]
        /\ UNCHANGED <<table, closing, futures, clpc, cur, at, hand, missed, conv>>
    BY DEF DropStream, tableVars, passVars
  <1>2. /\ spc \in [Streams -> Opening \cup {"none", "open", "dropped", "failed"}]
        /\ table \in [Keys -> Streams \cup {None}]
        /\ conv[s] \in Keys /\ requests \in Seq(Keys)
    BY <1>1 DEF Types, TypeOK, CloserTypeOK, HasConv
  <1>3. Placed' /\ NotYet' /\ InOrder'
    BY <1>1, <1>2 DEF Placed, NotYet, Unseen, InOrder, Newest
  <1>4. ASSUME ~ closing
        PROVE  /\ \A i \in DOMAIN requests : \E j \in DOMAIN requests' : requests'[j] = requests[i]
               /\ \E j \in DOMAIN requests' : requests'[j] = conv[s]
    <2>1. requests' = Append(requests, conv[s])
      BY <1>4 DEF DropStream, RequestClose
    <2>2. /\ Len(requests') = Len(requests) + 1 /\ Len(requests) \in Nat
          /\ DOMAIN requests = 1 .. Len(requests) /\ DOMAIN requests' = 1 .. Len(requests')
          /\ \A i \in 1 .. Len(requests) : requests'[i] = requests[i]
          /\ requests'[Len(requests) + 1] = conv[s]
      BY <1>2, <2>1, AppendProperties, LenProperties
    <2> QED
      BY <2>2
  <1>5. Followed'
    <2> SUFFICES ASSUME ~ closing, NEW k \in Keys, table[k] # None, spc'[table[k]] = "dropped"
                 PROVE  Tracked(k, table[k])'
      BY <1>1 DEF Followed
    <2>1. CASE table[k] = s
      BY <1>4, <2>1 DEF Placed, Tracked
    <2>2. CASE table[k] # s
      <3>1. Tracked(k, table[k])
        BY <1>1, <1>2, <2>2 DEF Followed
      <3> QED
        BY <1>1, <1>4, <3>1 DEF Tracked
    <2> QED
      BY <2>1, <2>2
  <1> QED
    BY <1>3, <1>5

LEMMA RemoveRefusedKeeps ==
  ASSUME IInv, Types', RemoveRefused
  PROVE  IInv'
  <1> USE NoneIsApart DEF IInv
  <1>1. /\ table' = [table EXCEPT ![refused] = None]
        /\ UNCHANGED <<requests, closing, futures, clpc, cur, at, hand, missed, spc, conv>>
    BY DEF RemoveRefused, TakeOut, closerVars, passVars, streamVars
  <1>2. table \in [Keys -> Streams \cup {None}]
    BY DEF Types, TypeOK, CloserTypeOK
  <1>3. \A k \in Keys : table'[k] # None => table'[k] = table[k]
    BY <1>1, <1>2
  <1>4. Placed' /\ NotYet'
    BY <1>1, <1>2, <1>3 DEF Placed, NotYet, Unseen
  <1>5. InOrder' /\ Followed'
    BY <1>1, <1>3 DEF InOrder, Newest, Followed, Tracked
  <1> QED
    BY <1>4, <1>5

LEMMA CloserKeeps ==
  ASSUME IInv, Types', CloserStep, UNCHANGED streamVars
  PROVE  IInv'
  <1> USE NoneIsApart DEF IInv, streamVars
  <1>1. CloserTypeOK /\ Shape
    BY DEF Types, TypeOK
  <1>2. \A k \in Keys : table'[k] # None => table'[k] = table[k]
    BY <1>1 DEF CloserStep, CloserMoves, CloserTakes, CloserLooksUp,
                CloserPassStarts, CloserPollsReady,
       CloserPollsOpen, CloserRegisters, CloserWakes, CloserRemoves,
       CloserEnds, TakeOut, tableVars, CloserTypeOK
  <1>3. UNCHANGED closing
    BY DEF CloserStep, CloserMoves, CloserTakes, CloserLooksUp,
    CloserPassStarts, CloserPollsReady,
       CloserPollsOpen, CloserRegisters, CloserWakes, CloserRemoves, CloserEnds
  <1>4. Placed'
    BY <1>2 DEF Placed
  <1>5. NotYet'
    BY <1>1, CloserUnseen DEF NotYet
  <1>6. ASSUME NEW k \in Keys, table'[k] # None
        PROVE  /\ Newest(k, table[k])'
               /\ Tracked(k, table[k]) /\ ~ closing => Tracked(k, table[k])'
    <2> DEFINE s == table[k]
    <2>1. s \in Streams /\ table'[k] = s
      BY <1>1, <1>2, <1>6 DEF CloserTypeOK
    <2>2. \A l \in Keys : table[l] = s => l = k
      BY <2>1 DEF Placed
    <2>3. Newest(k, s)
      BY <2>1 DEF InOrder
    <2>4. PICK t \in Streams : t = s
      BY <2>1
    <2>5. /\ Newest(k, t)'
          /\ Tracked(k, t) /\ ~ closing => Tracked(k, t)'
      BY <1>1, <2>1, <2>2, <2>3, <2>4, CloserTracks
    <2> QED
      BY <2>1, <2>4, <2>5 DEF Newest, Tracked
  <1>7. InOrder' /\ Followed'
    BY <1>2, <1>3, <1>6 DEF InOrder, Followed
  <1> QED
    BY <1>4, <1>5, <1>7

LEMMA IInvKeeps == IInv /\ [Next]_vars => IInv'
  <1> SUFFICES ASSUME IInv, [Next]_vars PROVE IInv'
    OBVIOUS
  <1> USE DEF tableVars, streamVars, pollerVars, readerVars, cvars, closerVars, trackVars
  <1>0. Types'
    BY TypesKeep DEF IInv
  <1>1. ASSUME NEW s \in Streams, OpenStep(s) \/ GiveUp(s) PROVE IInv'
    <2>1. CASE MakeKcp(s)
      <3>1. PICK n \in 0 .. MaxConv - 1 : conv' = [conv EXCEPT ![s] = Nth(n)]
        BY <2>1 DEF MakeKcp
      <3>2. Nth(n) \in Keys
        BY NthIsKey DEF IInv, Types
      <3> QED
        BY <1>0, <2>1, <3>1, <3>2, StreamKeeps DEF MakeKcp, MayOpen
    <2>2. CASE \/ NoMoreConv(s) \/ Register(s) \/ RegisterFails(s)
               \/ TellReader(s) \/ TellPoller(s) \/ GiveUp(s)
      BY <1>0, <2>2, StreamKeeps DEF NoMoreConv, MayOpen, Register,
                                     RegisterFails, TellReader, TellPoller,
                                     GiveUp
    <2> QED
      BY <1>0, <1>1, <2>1, <2>2, InsertKeeps DEF OpenStep
  <1>2. ASSUME NEW s \in Streams,
               TimesOut(s) \/ (Drain(s) /\ UNCHANGED <<streamVars, pollerVars, readerVars>>)
        PROVE  IInv'
    BY <1>0, <1>2, TrackKeeps DEF TimesOut, Drain
  <1>3. CASE \/ PollerTakes \/ PollerEnds \/ PollerDropped \/ QuitReader
             \/ StopPoller \/ SocketFails
    BY <1>0, <1>3, TrackKeeps DEF PollerTakes, PollerEnds, PollerDropped,
                                  QuitReader, StopPoller,
       SocketFails
  <1>4. ASSUME NEW k \in Keys, RefuseInput(k) PROVE IInv'
    BY <1>0, <1>4, TrackKeeps DEF RefuseInput
  <1>5. ASSUME NEW p \in Stoppers, StopAll(p) PROVE IInv'
    <2>1. CASE \/ CloseAllSessions(p) \/ StopThePoller(p)
               \/ CloseReadSignal(p) \/ CloseSignal(p)
      BY <1>0, <2>1, TrackKeeps DEF CloseAllSessions, CloseAll, StopThePoller,
                                    CloseReadSignal,
         CloseSignal
    <2>2. CASE StopTheCloser(p)
      BY <1>0, <2>2 DEF StopTheCloser, IInv, passVars, Placed, NotYet, Unseen,
                        InOrder, Newest, Followed
    <2> QED
      BY <1>5, <2>1, <2>2 DEF StopAll
  <1>6. CASE UNCHANGED vars
    BY <1>0, <1>6, TrackKeeps DEF vars
  <1> QED
    BY <1>0, <1>1, <1>2, <1>3, <1>4, <1>5, <1>6, DropStreamKeeps, RemoveRefusedKeeps, CloserKeeps
       DEF Next

LEMMA Initially == Init => IInv
  <1> SUFFICES ASSUME Init PROVE IInv
    OBVIOUS
  <1> USE NoneIsApart, ClientAssumption DEF Init, CloserInit
  <1>1. CloserTypeOK /\ Shape
    BY EmptySeq DEF CloserTypeOK, Shape
  <1>2. 1 \in Keys
    OBVIOUS
  <1>3. Types
    BY <1>1, <1>2 DEF Types, TypeOK, RefusedIsKey, HasConv, Opening
  <1>4. Placed /\ NotYet /\ InOrder /\ Followed
    BY DEF Placed, NotYet, Unseen, InOrder, Followed
  <1> QED
    BY <1>3, <1>4 DEF IInv

LEMMA Invariant == Spec => []IInv
  BY Initially, IInvKeeps, PTL DEF Spec
-----------------------------------------------------------------------------
THEOREM TypesHold == Spec => []TypeOK
  <1>1. IInv => TypeOK
    BY DEF IInv, Types
  <1> QED
    BY <1>1, Invariant, PTL

(* allocate finds a conv, the first free one after its counter, if there   *)
(* is a free one at all.                                                   *)
THEOREM AllocateFindsFree ==
  ASSUME TypeOK
  PROVE  (\E n \in 0 .. MaxConv - 1 : Free(n) /\ \A m \in 0 .. n - 1 : ~ Free(m))
           <=> \E k \in Keys : table[k] = None
  <1>0. MaxConv \in Nat \ {0}
    BY ClientAssumption
  <1>1. ASSUME NEW k \in Keys, table[k] = None
        PROVE  \E n \in 0 .. MaxConv - 1 : Free(n) /\ \A m \in 0 .. n - 1 : ~ Free(m)
    <2> DEFINE S == {n \in 0 .. MaxConv - 1 : Free(n)}
    <2>1. S # {} /\ S \in SUBSET Nat
      BY <1>0, <1>1, NthReaches DEF Free
    <2>2. PICK n \in S : \A m \in S : n <= m
      <3> HIDE DEF S
      <3> QED
        BY <2>1, LeastElement
    <2>3. \A m \in 0 .. n - 1 : m \in 0 .. MaxConv - 1 /\ ~ (n <= m)
      BY <1>0
    <2> QED
      BY <2>2, <2>3
  <1>2. ASSUME NEW n \in 0 .. MaxConv - 1, Free(n) PROVE \E k \in Keys : table[k] = None
    BY <1>2, NthIsKey DEF Free
  <1> QED
    BY <1>1, <1>2

(* A call of open fails for want of a conv only when every conv is in the  *)
(* table, and never gets one that is: across the wrap of the counter too.  *)
ConvsRunOutLast ==
  [][\A s \in Streams :
       /\ NoMoreConv(s) => \A k \in Keys : table[k] # None
       /\ MakeKcp(s) => conv'[s] \in Keys /\ table[conv'[s]] = None]_vars

THEOREM OpenGetsFreeConv == Spec => ConvsRunOutLast
  <1>1. ASSUME IInv, NEW s \in Streams, NoMoreConv(s) PROVE \A k \in Keys : table[k] # None
    BY <1>1, AllocateFindsFree DEF NoMoreConv, IInv, Types
  <1>2. ASSUME IInv, NEW s \in Streams, MakeKcp(s)
        PROVE  conv'[s] \in Keys /\ table[conv'[s]] = None
    <2>1. PICK n \in 0 .. MaxConv - 1 : Free(n) /\ conv' = [conv EXCEPT ![s] = Nth(n)]
      BY <1>2 DEF MakeKcp
    <2>2. conv'[s] = Nth(n) /\ Nth(n) \in Keys
      BY <1>2, <2>1, NthIsKey DEF IInv, Types, TypeOK
    <2> QED
      BY <2>1, <2>2 DEF Free
  <1>3. IInv /\ [Next]_vars =>
          [\A s \in Streams :
             /\ NoMoreConv(s) => \A k \in Keys : table[k] # None
             /\ MakeKcp(s) => conv'[s] \in Keys /\ table[conv'[s]] = None]_vars
    BY <1>1, <1>2
  <1> QED
    BY <1>3, Invariant, PTL DEF Spec, ConvsRunOutLast

(* run_async_close never forgets the close of a dropped stream, but for a  *)
(* pass that displaces it: whatever the reader, the other streams and the  *)
(* calls of open do to the table meanwhile.                                *)
THEOREM CloseIsTracked == Spec => []CloseNotForgotten
  <1>1. IInv => CloseNotForgotten
    <2> SUFFICES ASSUME IInv, NEW s \in Streams, spc[s] = "dropped", ~ closing, Mapped(s)
                 PROVE  \/ cur = conv[s] \/ \E i \in DOMAIN requests : requests[i] = conv[s]
                        \/ \E i \in DOMAIN futures : futures[i].stream = s
                        \/ s \in missed
      BY DEF CloseNotForgotten
    <2>1. conv[s] \in Keys /\ table[conv[s]] = s /\ s # None
      BY NoneIsApart DEF IInv, Types, HasConv, Mapped
    <2>2. Newest(conv[s], s) /\ Tracked(conv[s], s)
      BY <2>1 DEF IInv, InOrder, Followed
    <2> QED
      BY <2>2 DEF Newest, Tracked
  <1> QED
    BY <1>1, Invariant, PTL
-----------------------------------------------------------------------------
(* Calls of open one at a time.  The conv that allocate has returned is    *)
(* free until the insertion (Reserved), for nobody else inserts: so an     *)
(* insertion replaces nothing.                                             *)
OneOpening == \A s, t \in InProgress : s = t
Reserved == \A s \in Streams : spc[s] \in {"made", "registered"} => table[conv[s]] = None
OwnerIsLast == stage["owner"] >= 1 => InProgress = {} /\ DropClosesAll

SInv == OneOpening /\ Reserved /\ MappedOrClosed /\ OwnerIsLast

LEMMA NobodyOpens ==
  ASSUME MaxOpening = 1, IsFiniteSet(Streams), NEW s \in Streams, MayOpen(s)
  PROVE  InProgress = {}
  <1>1. IsFiniteSet(InProgress)
    BY FS_Subset DEF InProgress
  <1>2. Cardinality(InProgress) \in Nat /\ Cardinality(InProgress) < 1
    BY <1>1, FS_CardinalityType DEF MayOpen
  <1> QED
    BY <1>1, <1>2, FS_EmptySet

LEMMA SClosingKeeps ==
  ASSUME SInv, closed \subseteq closed', UNCHANGED <<table, spc, conv, stage>>
  PROVE  SInv'
  BY DEF SInv, OneOpening, InProgress, Reserved, MappedOrClosed, Mapped,
  OwnerIsLast, DropClosesAll

LEMMA STakingOutKeeps ==
  ASSUME CloserTypeOK, SInv, NEW k \in Keys, TakeOut(k), UNCHANGED <<spc, conv, stage>>
  PROVE  SInv'
  <1> USE NoneIsApart DEF SInv, TakeOut, CloserTypeOK
  <1>1. OneOpening' /\ OwnerIsLast'
    BY DEF OneOpening, InProgress, OwnerIsLast, DropClosesAll
  <1>2. Reserved' /\ MappedOrClosed'
    BY DEF Reserved, MappedOrClosed, Mapped
  <1> QED
    BY <1>1, <1>2

LEMMA SOpenKeeps ==
  ASSUME MaxOpening = 1, IsFiniteSet(Streams), IInv, SInv,
         NEW s \in Streams, OpenStep(s) \/ GiveUp(s)
  PROVE  SInv'
  <1> USE NoneIsApart DEF SInv, readerVars, cvars, tableVars
  <1>0. /\ spc \in [Streams -> Opening \cup {"none", "open", "dropped", "failed"}]
        /\ conv \in [Streams -> Keys \cup {None}] /\ table \in [Keys -> Streams \cup {None}]
        /\ \A t \in Streams : spc[t] \in Opening \cup {"open", "dropped"} => conv[t] \in Keys
    BY DEF IInv, Types, TypeOK, CloserTypeOK, HasConv
  <1>1. CASE MakeKcp(s)
    <2>1. PICK k \in Keys : conv' = [conv EXCEPT ![s] = k] /\ table[k] = None
      BY <1>1, NthIsKey DEF MakeKcp, Free, IInv, Types
    <2>2. InProgress = {} /\ spc' = [spc EXCEPT ![s] = "made"] /\ spc[s] = "none"
          /\ stage["owner"] = 0 /\ UNCHANGED <<table, closed, stage>>
      BY <1>1, NobodyOpens DEF MakeKcp, MayOpen
    <2>3. OneOpening' /\ Reserved' /\ OwnerIsLast'
      BY <1>0, <2>1, <2>2 DEF OneOpening, InProgress, Opening, Reserved,
                              OwnerIsLast
    <2>4. MappedOrClosed'
      BY <1>0, <2>1, <2>2 DEF MappedOrClosed, Mapped
    <2> QED
      BY <2>3, <2>4
  <1>2. CASE Insert(s)
    <2>1. /\ spc[s] = "registered" /\ spc' = [spc EXCEPT ![s] = "mapped"]
          /\ table' = [table EXCEPT ![conv[s]] = s] /\ table[conv[s]] = None
          /\ UNCHANGED <<closed, conv, stage>>
      BY <1>2 DEF Insert, streamVars, Reserved
    <2>2. s \in InProgress /\ \A t \in Streams : spc[t] \in {"made", "registered"} => t = s
      BY <2>1 DEF OneOpening, InProgress, Opening
    <2>3. OneOpening' /\ Reserved' /\ OwnerIsLast'
      BY <1>0, <2>1, <2>2 DEF OneOpening, InProgress, Opening, Reserved,
                              OwnerIsLast
    <2>4. MappedOrClosed'
      BY <1>0, <2>1 DEF MappedOrClosed, Mapped
    <2> QED
      BY <2>3, <2>4
  <1>3. CASE \/ NoMoreConv(s) \/ Register(s) \/ RegisterFails(s)
             \/ TellReader(s) \/ TellPoller(s) \/ GiveUp(s)
    <2>1. PICK v \in {"registered", "failed", "told", "open"} :
            /\ spc' = [spc EXCEPT ![s] = v]
            /\ v = "registered" => spc[s] = "made"
            /\ v \in {"told", "open"} => spc[s] \in {"mapped", "told"}
      BY <1>3 DEF NoMoreConv, Register, RegisterFails, TellReader, TellPoller,
                  GiveUp
    <2>2. UNCHANGED <<table, closed, conv, stage>>
      BY <1>3 DEF NoMoreConv, Register, RegisterFails, TellReader, TellPoller,
                  GiveUp
    <2>3. InProgress' \subseteq InProgress /\ (spc[s] \in {"mapped", "told"} => s \in InProgress)
      BY <1>0, <2>1 DEF InProgress, Opening
    <2>4. OneOpening' /\ Reserved'
      BY <1>0, <2>1, <2>2, <2>3 DEF OneOpening, Reserved
    <2>5. OwnerIsLast'
      BY <1>0, <2>1, <2>2, <2>3 DEF OwnerIsLast, DropClosesAll
    <2>6. MappedOrClosed'
      BY <1>0, <2>1, <2>2 DEF MappedOrClosed, Mapped
    <2> QED
      BY <2>4, <2>5, <2>6
  <1> QED
    BY <1>1, <1>2, <1>3 DEF OpenStep

LEMMA SDropStreamKeeps ==
  ASSUME IInv, SInv, NEW s \in Streams, DropStream(s)
  PROVE  SInv'
  <1> USE DEF SInv, readerVars, tableVars
  <1>1. /\ spc[s] = "open" /\ spc' = [spc EXCEPT ![s] = "dropped"]
        /\ UNCHANGED <<table, closed, conv, stage>>
    BY DEF DropStream
  <1>2. spc \in [Streams -> Opening \cup {"none", "open", "dropped", "failed"}]
    BY DEF IInv, Types, TypeOK
  <1>3. OneOpening' /\ Reserved' /\ MappedOrClosed'
    BY <1>1, <1>2 DEF OneOpening, InProgress, Opening, Reserved,
                      MappedOrClosed, Mapped
  <1>4. OwnerIsLast'
    BY <1>1, <1>2 DEF InProgress, Opening, OwnerIsLast, DropClosesAll
  <1> QED
    BY <1>3, <1>4

LEMMA SStopKeeps ==
  ASSUME IInv, SInv, NEW p \in Stoppers, StopAll(p)
  PROVE  SInv'
  <1> USE DEF SInv, streamVars, cvars, tableVars
  <1>0. stage \in [Stoppers -> 0 .. 5] /\ "owner" \in Stoppers
    BY ClientAssumption DEF IInv, Types, TypeOK
  <1>1. UNCHANGED <<table, spc, conv>> /\ closed \subseteq closed'
    BY DEF StopAll, CloseAllSessions, CloseAll, StopThePoller, StopTheCloser,
    CloseReadSignal, CloseSignal
  <1>2. OneOpening' /\ Reserved' /\ MappedOrClosed'
    BY <1>1 DEF OneOpening, InProgress, Reserved, MappedOrClosed, Mapped
  <1>3. CASE p = "owner" /\ CloseAllSessions(p)
    <2>1. InProgress = {} /\ closed' = closed \cup InTable
      BY <1>3 DEF CloseAllSessions, MayStop, CloseAll
    <2>2. \A s \in Streams : Mapped(s) /\ spc[s] \in {"open", "dropped"} => s \in InTable
      BY NoneIsApart DEF Mapped, InTable, IInv, Types, HasConv
    <2>3. InProgress' = {} /\ DropClosesAll'
      BY <1>1, <2>1, <2>2 DEF InProgress, DropClosesAll, MappedOrClosed
    <2> QED
      BY <1>2, <2>3 DEF OwnerIsLast
  <1>4. CASE ~ (p = "owner" /\ CloseAllSessions(p))
    <2>1. stage'["owner"] >= 1 => stage["owner"] >= 1
      BY <1>0, <1>4 DEF StopAll, CloseAllSessions, StopThePoller,
                        StopTheCloser, CloseReadSignal, CloseSignal
    <2>2. OwnerIsLast'
      BY <1>1, <2>1 DEF OwnerIsLast, InProgress, DropClosesAll
    <2> QED
      BY <1>2, <2>2
  <1> QED
    BY <1>3, <1>4

LEMMA SInvKeeps ==
  ASSUME MaxOpening = 1, IsFiniteSet(Streams)
  PROVE  IInv /\ SInv /\ [Next]_vars => SInv'
  <1> SUFFICES ASSUME IInv, SInv, [Next]_vars PROVE SInv'
    OBVIOUS
  <1> USE DEF tableVars, streamVars, pollerVars, readerVars, cvars, closerVars
  <1>0. CloserTypeOK /\ Shape /\ RefusedIsKey
    BY DEF IInv, Types, TypeOK
  <1>1. ASSUME NEW s \in Streams,
               TimesOut(s) \/ (Drain(s) /\ UNCHANGED <<streamVars, pollerVars, readerVars>>)
        PROVE  SInv'
    BY <1>1, SClosingKeeps DEF TimesOut, Drain
  <1>2. CASE \/ PollerTakes \/ PollerEnds \/ PollerDropped \/ QuitReader
             \/ StopPoller \/ SocketFails
    BY <1>2, SClosingKeeps DEF PollerTakes, PollerEnds, PollerDropped,
                               QuitReader, StopPoller,
       SocketFails
  <1>3. ASSUME NEW k \in Keys, RefuseInput(k) PROVE SInv'
    BY <1>3, SClosingKeeps DEF RefuseInput
  <1>4. CASE RemoveRefused
    BY <1>0, <1>4, STakingOutKeeps DEF RemoveRefused, RefusedIsKey
  <1>5. CASE CloserStep /\ UNCHANGED <<streamVars, pollerVars, readerVars>>
    <2>1. CASE CloserRemoves
      BY <1>0, <1>5, <2>1, STakingOutKeeps DEF CloserRemoves, Shape
    <2>2. CASE ~ CloserRemoves
      <3>1. UNCHANGED <<table, closed>>
        BY <1>5, <2>2 DEF CloserStep, CloserMoves, CloserTakes, CloserLooksUp,
                          CloserEnds,
           CloserPassStarts, CloserPollsReady, CloserPollsOpen,
           CloserRegisters, CloserWakes
      <3> QED
        BY <1>5, <3>1, SClosingKeeps
    <2> QED
      BY <2>1, <2>2
  <1>6. CASE UNCHANGED vars
    BY <1>6, SClosingKeeps DEF vars
  <1> QED
    BY <1>1, <1>2, <1>3, <1>4, <1>5, <1>6, SOpenKeeps, SDropStreamKeeps, SStopKeeps
       DEF Next

LEMMA SInitially == Init => SInv
  BY ClientAssumption DEF Init, CloserInit, SInv, OneOpening, InProgress,
                          Opening, Reserved, MappedOrClosed,
     OwnerIsLast

LEMMA SInvariant ==
  ASSUME MaxOpening = 1, IsFiniteSet(Streams)
  PROVE  Spec => [](IInv /\ SInv)
  <1>1. Init => IInv /\ SInv
    BY Initially, SInitially
  <1>2. (IInv /\ SInv) /\ [Next]_vars => (IInv /\ SInv)'
    BY IInvKeeps, SInvKeeps
  <1> QED
    BY <1>1, <1>2, PTL DEF Spec

(* Two streams that are open at the same time never share a conv, when     *)
(* calls of open do not overlap (KcpConv::allocate and manage).            *)
THEOREM ConvsAreUnique ==
  ASSUME MaxOpening = 1, IsFiniteSet(Streams)
  PROVE  Spec => []UniqueConv
  <1>1. SInv => UniqueConv
    BY DEF SInv, UniqueConv, Live, MappedOrClosed, Mapped
  <1> QED
    BY <1>1, SInvariant, PTL

(* Nothing replaces or takes out the session of a stream unclosed, when    *)
(* calls of open do not overlap.                                           *)
THEOREM StreamsStayMapped ==
  ASSUME MaxOpening = 1, IsFiniteSet(Streams)
  PROVE  Spec => []MappedOrClosed
  <1>1. SInv => MappedOrClosed
    BY DEF SInv
  <1> QED
    BY <1>1, SInvariant, PTL

(* The Drop of a connector closes the session of every stream it has       *)
(* handed out, when calls of open do not overlap.                          *)
THEOREM ConnectorClosesAll ==
  ASSUME MaxOpening = 1, IsFiniteSet(Streams)
  PROVE  Spec => []DropClosesAll
  <1>1. SInv => DropClosesAll
    BY DEF SInv, OwnerIsLast, DropClosesAll
  <1> QED
    BY <1>1, SInvariant, PTL

(* A connector is a registry of its sessions by conv, when calls of open   *)
(* do not overlap: every step of the tasks of src/client.rs either enters  *)
(* a new session under a free conv, or ends some, or does neither.         *)
THEOREM ClientIsRegistry ==
  ASSUME MaxOpening = 1, IsFiniteSet(Streams)
  PROVE  Spec => ImplementsRegistry
  <1>1. Init => registry!Init
    BY RegistryInit DEF Init
  <1>2. IInv /\ SInv /\ IInv' /\ [Next]_vars => RegistryStep
    <2> SUFFICES ASSUME IInv, SInv, IInv', [Next]_vars PROVE RegistryStep
      OBVIOUS
    <2>0. CloserTypeOK /\ CloserTypeOK'
      BY DEF IInv, Types, TypeOK
    <2>1. ASSUME UNCHANGED table, closed \subseteq closed' PROVE RegistryStep
      BY <2>0, <2>1, Leaves DEF CloserTypeOK
    <2>2. ASSUME NEW s \in Streams, Insert(s) PROVE RegistryStep
      <3>1. /\ conv[s] \in Keys /\ table[conv[s]] = None /\ \A k \in Keys : table[k] # s
            /\ table' = [table EXCEPT ![conv[s]] = s] /\ UNCHANGED closed
        BY <2>2 DEF Insert, IInv, Types, HasConv, Opening, SInv, Reserved,
                    NotYet, Unseen
      <3> QED
        BY <2>0, <3>1, Enters DEF CloserTypeOK
    <2>3. CASE RemoveRefused
      BY <2>0, <2>3, TakesOut DEF RemoveRefused
    <2>4. CASE CloserStep
      BY <2>0, <2>4, CloserIsRegistry
    <2>5. ASSUME NEW s \in Streams,
                 \/ OpenStep(s) /\ ~ Insert(s)
                 \/ GiveUp(s) \/ DropStream(s) \/ TimesOut(s) \/ Drain(s)
          PROVE  RegistryStep
      BY <2>1, <2>5 DEF OpenStep, MakeKcp, NoMoreConv, Register, RegisterFails,
                        TellReader, TellPoller, GiveUp,
         DropStream, TimesOut, Drain, cvars, tableVars
    <2>6. CASE \/ PollerTakes \/ PollerEnds \/ PollerDropped \/ SocketFails
               \/ QuitReader
               \/ StopPoller \/ UNCHANGED vars \/ \E k \in Keys : RefuseInput(k)
      BY <2>1, <2>6 DEF PollerTakes, PollerEnds, PollerDropped, SocketFails,
                        QuitReader, StopPoller,
         RefuseInput, vars, cvars, tableVars
    <2>7. ASSUME NEW p \in Stoppers, StopAll(p) PROVE RegistryStep
      BY <2>1, <2>7 DEF StopAll, CloseAllSessions, CloseAll, StopThePoller,
                        StopTheCloser,
         CloseReadSignal, CloseSignal, cvars, tableVars
    <2> QED
      BY <2>2, <2>3, <2>4, <2>5, <2>6, <2>7 DEF Next
  <1> QED
    BY <1>1, <1>2, SInvariant, PTL DEF Spec, ImplementsRegistry, registry!Spec,
                                       RegistryStep
-----------------------------------------------------------------------------
(* What the closer waits to close is what was dropped.  As long as no      *)
(* dropped stream of a conv has lost its session to a refused datagram,    *)
(* only the closer takes a session of that conv out: so the conv is in one *)
(* place of the closer at a time (OnePlace), and the session found under   *)
(* it there is one whose own stream was dropped (AllDoomed), for the       *)
(* session of an open stream keeps its place in the table (Kept).          *)
Doomed(k) == table[k] # None /\ spc[table[k]] = "dropped"

OnePlace(k) ==
  /\ \A i, j \in DOMAIN requests : requests[i] = k /\ requests[j] = k => i = j
  /\ \A i, j \in DOMAIN futures : futures[i].key = k /\ futures[j].key = k => i = j
  /\ \A i \in DOMAIN requests, j \in DOMAIN futures :
       ~ (requests[i] = k /\ futures[j].key = k)
  /\ cur = k =>
       /\ \A i \in DOMAIN requests : requests[i] # k
       /\ \A j \in DOMAIN futures : futures[j].key # k

AllDoomed(k) ==
  /\ \A i \in DOMAIN requests : requests[i] = k => Doomed(k)
  /\ \A j \in DOMAIN futures :
       futures[j].key = k => Doomed(k) /\ futures[j].stream = table[k]
  /\ cur = k => Doomed(k)

Kept(k) ==
  \A s \in Streams \ evicted :
    conv[s] = k /\ spc[s] \in {"mapped", "told", "open"} => table[k] = s

Clean(k) == OnePlace(k) /\ AllDoomed(k) /\ Kept(k)

WasPlaced == \A t \in evicted : t \in Streams /\ spc[t] \notin {"none", "made", "registered"}

KInv == WasPlaced /\ \A k \in Keys : DroppedAfterEviction(k) \/ Clean(k)

placeVars == <<requests, futures, cur>>

(* What has been evicted stays so, under its conv, and a dropped stream    *)
(* stays dropped.                                                          *)
LEMMA EvictedStays ==
  ASSUME IInv, WasPlaced, [Next]_vars
  PROVE  /\ WasPlaced'
         /\ \A k : DroppedAfterEviction(k) => DroppedAfterEviction(k)'
  <1> USE DEF tableVars, streamVars, pollerVars, readerVars, cvars, closerVars
  <1>0. /\ spc \in [Streams -> Opening \cup {"none", "open", "dropped", "failed"}]
        /\ conv \in [Streams -> Keys \cup {None}]
    BY DEF IInv, Types, TypeOK
  <1>1. ASSUME UNCHANGED <<conv, spc>>, evicted' = evicted
        PROVE  WasPlaced' /\ \A k : DroppedAfterEviction(k) => DroppedAfterEviction(k)'
    BY <1>1 DEF WasPlaced, DroppedAfterEviction
  <1>2. ASSUME NEW s \in Streams, OpenStep(s) \/ GiveUp(s) \/ DropStream(s)
        PROVE  WasPlaced' /\ \A k : DroppedAfterEviction(k) => DroppedAfterEviction(k)'
    <2>1. PICK v \in {"made", "registered", "mapped", "told", "failed", "open", "dropped"} :
            /\ spc' = [spc EXCEPT ![s] = v] /\ spc[s] # "dropped"
            /\ v = "made" => spc[s] = "none"
            /\ v = "registered" => spc[s] = "made"
      BY <1>2 DEF OpenStep, MakeKcp, MayOpen, NoMoreConv, Register,
                  RegisterFails, Insert,
         TellReader, TellPoller, GiveUp, DropStream
    <2>2. evicted' = evicted /\ \A t \in Streams : t # s => conv'[t] = conv[t]
      <3>1. CASE MakeKcp(s)
        <4>1. PICK n \in 0 .. MaxConv - 1 : conv' = [conv EXCEPT ![s] = Nth(n)]
          BY <3>1 DEF MakeKcp
        <4> QED
          BY <1>0, <3>1, <4>1 DEF MakeKcp
      <3>2. CASE ~ MakeKcp(s)
        BY <1>2, <3>2 DEF OpenStep, NoMoreConv, Register, RegisterFails,
                          Insert, TellReader,
           TellPoller, GiveUp, DropStream
      <3> QED
        BY <3>1, <3>2
    <2>3. WasPlaced'
      BY <1>0, <2>1, <2>2 DEF WasPlaced
    <2>4. \A t \in evicted : t \in Streams /\ (spc[t] = "dropped" => t # s /\ spc'[t] = "dropped")
      BY <1>0, <2>1 DEF WasPlaced
    <2> QED
      BY <2>2, <2>3, <2>4 DEF DroppedAfterEviction
  <1>3. CASE RemoveRefused
    <2>1. evicted' = evicted \cup ({table[refused]} \ {None}) /\ UNCHANGED <<conv, spc>>
      BY <1>3 DEF RemoveRefused
    <2>2. refused \in Keys /\ table \in [Keys -> Streams \cup {None}]
      BY <1>3 DEF RemoveRefused, IInv, Types, TypeOK, CloserTypeOK, RefusedIsKey
    <2>3. WasPlaced'
      BY <2>1, <2>2 DEF WasPlaced, IInv, Placed
    <2> QED
      BY <2>1, <2>3 DEF DroppedAfterEviction
  <1>4. ASSUME NEW s \in Streams,
               TimesOut(s) \/ (Drain(s) /\ UNCHANGED <<streamVars, pollerVars, readerVars>>)
        PROVE  UNCHANGED <<conv, spc, evicted>>
    BY <1>4 DEF TimesOut
  <1>5. CASE \/ PollerTakes \/ PollerEnds \/ PollerDropped \/ QuitReader
             \/ StopPoller \/ SocketFails
    BY <1>1, <1>5 DEF PollerTakes, PollerEnds, PollerDropped, QuitReader,
                      StopPoller, SocketFails
  <1>6. ASSUME NEW k \in Keys, RefuseInput(k) PROVE UNCHANGED <<conv, spc, evicted>>
    BY <1>6 DEF RefuseInput
  <1>7. ASSUME NEW p \in Stoppers, StopAll(p) PROVE UNCHANGED <<conv, spc, evicted>>
    BY <1>7 DEF StopAll, CloseAllSessions, StopThePoller, StopTheCloser,
                CloseReadSignal, CloseSignal
  <1>8. CASE UNCHANGED vars
    BY <1>1, <1>8 DEF vars
  <1> QED
    BY <1>1, <1>2, <1>3, <1>4, <1>5, <1>6, <1>7, <1>8 DEF Next

(* Steps that leave the closer alone, and what it has to remove in the     *)
(* table.                                                                  *)
LEMMA KElsewhere ==
  ASSUME NEW k, Clean(k), UNCHANGED placeVars,
         Doomed(k) => Doomed(k)' /\ table'[k] = table[k],
         Kept(k)'
  PROVE  Clean(k)'
  BY DEF Clean, OnePlace, AllDoomed, placeVars

LEMMA KTakes ==
  ASSUME IInv, NEW k \in Keys, Clean(k), CloserTakes, UNCHANGED <<streamVars, evicted>>
  PROVE  Clean(k)'
  <1> USE NoneIsApart DEF Clean, streamVars, tableVars
  <1>1. /\ requests \in Seq(Keys) /\ requests # << >>
        /\ cur' = Head(requests) /\ requests' = Tail(requests)
        /\ cur = None
        /\ UNCHANGED <<table, futures>>
    BY DEF CloserTakes, IInv, Types, TypeOK, CloserTypeOK, Shape
  <1>2. /\ 1 \in DOMAIN requests /\ cur' = requests[1] /\ cur' \in Keys
        /\ \A j \in DOMAIN requests' :
             j \in Nat \ {0} /\ j + 1 \in DOMAIN requests /\ requests'[j] = requests[j + 1]
    <2>1. /\ Head(requests) \in Keys /\ Head(requests) = requests[1]
          /\ requests' \in Seq(Keys) /\ Len(requests') = Len(requests) - 1
          /\ \A j \in 1 .. Len(requests) - 1 : requests'[j] = requests[j + 1]
          /\ Len(requests) \in Nat \ {0}
          /\ DOMAIN requests = 1 .. Len(requests) /\ DOMAIN requests' = 1 .. Len(requests')
      BY <1>1, HeadTailProperties, LenProperties, EmptySeq
    <2> QED
      BY <1>1, <2>1
  <1>3. OnePlace(k)'
    BY <1>1, <1>2 DEF OnePlace
  <1>4. AllDoomed(k)'
    BY <1>1, <1>2 DEF AllDoomed, Doomed
  <1>5. Kept(k)'
    BY <1>1 DEF Kept
  <1> QED
    BY <1>3, <1>4, <1>5

LEMMA KLooksUp ==
  ASSUME IInv, NEW k \in Keys, Clean(k), CloserLooksUp, UNCHANGED <<streamVars, evicted>>
  PROVE  Clean(k)'
  <1> USE NoneIsApart DEF Clean, streamVars, tableVars
  <1>1. /\ cur \in Keys /\ cur' = None
        /\ UNCHANGED <<table, requests>>
        /\ \A i \in DOMAIN futures : i \in DOMAIN futures' /\ futures'[i] = futures[i]
        /\ \A i \in DOMAIN futures' \ DOMAIN futures :
             /\ futures'[i].key = cur /\ futures'[i].stream = table[cur]
             /\ \A j \in DOMAIN futures' : ~ j > i
        /\ DOMAIN futures' \subseteq Int
    <2>1. CloserTypeOK /\ Shape
      BY DEF IInv, Types, TypeOK
    <2>2. futures' \in Seq(Futures)
      BY <2>1, LookedUp
    <2>3. DOMAIN futures' \subseteq Int
      BY <2>2, LenProperties
    <2> QED
      BY <2>1, <2>3, LookedUp DEF CloserLooksUp
  <1>2. OnePlace(k)'
    BY <1>1 DEF OnePlace
  <1>3. AllDoomed(k)'
    BY <1>1 DEF AllDoomed, Doomed
  <1>4. Kept(k)'
    BY <1>1 DEF Kept
  <1> QED
    BY <1>2, <1>3, <1>4

LEMMA KPollsReady ==
  ASSUME IInv, NEW k \in Keys, Clean(k), CloserPollsReady, UNCHANGED <<streamVars, evicted>>
  PROVE  Clean(k)'
  <1> USE NoneIsApart DEF Clean, streamVars, tableVars
  <1>1. /\ at \in DOMAIN futures /\ cur' = futures[at].key
        /\ UNCHANGED <<table, requests>>
        /\ DOMAIN futures' \subseteq Int /\ at \in Int
        /\ \A i \in DOMAIN futures' :
             /\ i < at => i \in DOMAIN futures /\ futures'[i] = futures[i]
             /\ i >= at => i + 1 \in DOMAIN futures /\ futures'[i] = futures[i + 1]
    <2>1. CloserTypeOK /\ Shape
      BY DEF IInv, Types, TypeOK
    <2> QED
      BY <2>1, PolledReady DEF CloserPollsReady
  <1>2. \A i \in DOMAIN futures' : \E j \in DOMAIN futures :
          j # at /\ futures'[i] = futures[j] /\ j = (IF i < at THEN i ELSE i + 1)
    BY <1>1
  <1>3. OnePlace(k)'
    BY <1>1, <1>2 DEF OnePlace
  <1>4. AllDoomed(k)'
    BY <1>1, <1>2 DEF AllDoomed, Doomed
  <1>5. Kept(k)'
    BY <1>1 DEF Kept
  <1> QED
    BY <1>3, <1>4, <1>5

LEMMA KCloserKeeps ==
  ASSUME IInv, NEW k \in Keys, Clean(k), CloserStep, UNCHANGED <<streamVars, evicted>>
  PROVE  Clean(k)'
  <1> USE NoneIsApart DEF Clean, streamVars, tableVars
  <1>1. CASE CloserPassStarts \/ CloserPollsOpen \/ CloserRegisters \/ CloserWakes
    <2>1. UNCHANGED <<table, placeVars>>
      BY <1>1 DEF CloserPassStarts, CloserPollsOpen, CloserRegisters,
                  CloserWakes, placeVars
    <2> QED
      BY <2>1, KElsewhere DEF Doomed, Kept
  <1>2. CASE CloserRemoves
    <2>1. /\ cur \in Keys /\ cur' = None /\ table' = [table EXCEPT ![cur] = None]
          /\ UNCHANGED <<requests, futures>>
          /\ table \in [Keys -> Streams \cup {None}]
      BY <1>2 DEF CloserRemoves, TakeOut, IInv, Types, TypeOK, CloserTypeOK, Shape
    <2>2. OnePlace(k)'
      BY <2>1 DEF OnePlace
    <2>3. k # cur => table'[k] = table[k] /\ (Doomed(k) <=> Doomed(k)')
      BY <2>1 DEF Doomed
    <2>4. AllDoomed(k)'
      BY <2>1, <2>3 DEF AllDoomed, OnePlace
    <2>5. Kept(k)'
      BY <2>1, <2>3 DEF Kept, AllDoomed, Doomed
    <2> QED
      BY <2>2, <2>4, <2>5
  <1>3. CASE CloserEnds
    <2>1. cur = None /\ cur' = None /\ DOMAIN futures' = {} /\ UNCHANGED <<table, requests>>
      BY <1>3 DEF CloserEnds, IInv, Types, Shape
    <2> QED
      BY <2>1 DEF OnePlace, AllDoomed, Doomed, Kept
  <1> QED
    BY <1>1, <1>2, <1>3, KTakes, KLooksUp, KPollsReady DEF CloserStep, CloserMoves

(* The Drop of a stream that was not evicted finds its own session under   *)
(* its conv; that of an evicted one is the exception.                      *)
LEMMA KDropStream ==
  ASSUME IInv, NEW k \in Keys, Clean(k), NEW s \in Streams, DropStream(s)
  PROVE  Clean(k)' \/ DroppedAfterEviction(k)'
  <1> USE NoneIsApart DEF Clean, readerVars, tableVars
  <1>1. /\ spc[s] = "open" /\ spc' = [spc EXCEPT ![s] = "dropped"]
        /\ UNCHANGED <<table, closing, futures, cur, conv, evicted>>
    BY DEF DropStream
  <1>2. /\ spc \in [Streams -> Opening \cup {"none", "open", "dropped", "failed"}]
        /\ conv[s] \in Keys /\ requests \in Seq(Keys)
        /\ table \in [Keys -> Streams \cup {None}]
    BY <1>1 DEF IInv, Types, TypeOK, CloserTypeOK, HasConv
  <1>3. Doomed(k) => Doomed(k)' /\ table'[k] = table[k]
    BY <1>1, <1>2 DEF Doomed
  <1>4. Kept(k)'
    BY <1>1, <1>2 DEF Kept
  <1>5. CASE closing
    BY <1>1, <1>3, <1>4, <1>5, KElsewhere DEF DropStream, RequestClose, placeVars
  <1>6. CASE ~ closing
    <2>1. requests' = Append(requests, conv[s])
      BY <1>6 DEF DropStream, RequestClose
    <2>2. /\ DOMAIN requests' = 1 .. Len(requests) + 1 /\ Len(requests) \in Nat
          /\ DOMAIN requests = 1 .. Len(requests)
          /\ \A i \in 1 .. Len(requests) : requests'[i] = requests[i]
          /\ requests'[Len(requests) + 1] = conv[s]
      BY <1>2, <2>1, AppendProperties, LenProperties
    <2>3. \A i \in DOMAIN requests' :
            \/ i \in DOMAIN requests /\ requests'[i] = requests[i]
            \/ i = Len(requests) + 1 /\ requests'[i] = conv[s]
      BY <2>2
    <2>4. CASE k # conv[s]
      BY <1>1, <1>3, <1>4, <2>3, <2>4 DEF OnePlace, AllDoomed
    <2>5. CASE k = conv[s] /\ s \in evicted
      BY <1>1, <1>2, <2>5 DEF DroppedAfterEviction
    <2>6. CASE k = conv[s] /\ s \notin evicted
      <3>1. table[k] = s /\ ~ Doomed(k) /\ Doomed(k)'
        BY <1>1, <1>2, <2>6 DEF Kept, Doomed
      <3> QED
        BY <1>1, <1>4, <2>3, <3>1 DEF OnePlace, AllDoomed
    <2> QED
      BY <2>4, <2>5, <2>6
  <1> QED
    BY <1>5, <1>6

LEMMA KOpenKeeps ==
  ASSUME IInv, SInv, WasPlaced, NEW k \in Keys, Clean(k),
         NEW s \in Streams, OpenStep(s) \/ GiveUp(s)
  PROVE  Clean(k)'
  <1> USE NoneIsApart DEF Clean, readerVars, cvars, tableVars, closerVars, placeVars
  <1>0. /\ spc \in [Streams -> Opening \cup {"none", "open", "dropped", "failed"}]
        /\ table \in [Keys -> Streams \cup {None}] /\ conv \in [Streams -> Keys \cup {None}]
        /\ \A t \in Streams : spc[t] \in Opening \cup {"open", "dropped"} => conv[t] \in Keys
    BY DEF IInv, Types, TypeOK, CloserTypeOK, HasConv
  <1>1. CASE Insert(s)
    <2>1. /\ spc[s] = "registered" /\ spc' = [spc EXCEPT ![s] = "mapped"]
          /\ table' = [table EXCEPT ![conv[s]] = s] /\ table[conv[s]] = None
          /\ conv[s] \in Keys /\ UNCHANGED <<placeVars, conv, evicted>>
      BY <1>0, <1>1 DEF Insert, streamVars, SInv, Reserved, Opening
    <2>2. Doomed(k) => Doomed(k)' /\ table'[k] = table[k]
      BY <1>0, <2>1 DEF Doomed
    <2>3. Kept(k)'
      BY <1>0, <2>1 DEF Kept
    <2> QED
      BY <2>1, <2>2, <2>3, KElsewhere
  <1>2. CASE ~ Insert(s)
    <2>1. UNCHANGED <<table, placeVars, evicted>>
      BY <1>2 DEF OpenStep, MakeKcp, NoMoreConv, Register, RegisterFails,
                  TellReader, TellPoller,
         GiveUp
    <2>2. PICK v \in {"made", "registered", "failed", "told", "open"} :
            /\ spc' = [spc EXCEPT ![s] = v] /\ spc[s] # "dropped"
            /\ v \in {"told", "open"} => spc[s] \in {"mapped", "told"}
            /\ conv' = conv \/ v = "made"
            /\ \A t \in Streams : t # s => conv'[t] = conv[t]
      <3>1. CASE MakeKcp(s)
        <4>1. PICK n \in 0 .. MaxConv - 1 : conv' = [conv EXCEPT ![s] = Nth(n)]
          BY <3>1 DEF MakeKcp
        <4> QED
          BY <1>0, <3>1, <4>1 DEF MakeKcp, MayOpen
      <3>2. CASE ~ MakeKcp(s)
        BY <1>2, <3>2 DEF OpenStep, MayOpen, NoMoreConv, Register,
                          RegisterFails, TellReader,
           TellPoller, GiveUp
      <3> QED
        BY <3>1, <3>2
    <2>3. Doomed(k) => Doomed(k)' /\ table'[k] = table[k]
      BY <1>0, <2>1, <2>2 DEF Doomed
    <2>4. Kept(k)'
      BY <1>0, <2>1, <2>2 DEF Kept
    <2> QED
      BY <2>1, <2>3, <2>4, KElsewhere
  <1> QED
    BY <1>1, <1>2

(* The reader removes a session whose stream is open: the closer has not   *)
(* got its conv.  When the stream was dropped that is the exception.       *)
LEMMA KRemoveRefused ==
  ASSUME IInv, NEW k \in Keys, Clean(k), RemoveRefused
  PROVE  Clean(k)' \/ DroppedAfterEviction(k)'
  <1> USE NoneIsApart DEF Clean, closerVars, streamVars
  <1>1. /\ refused \in Keys /\ table \in [Keys -> Streams \cup {None}]
        /\ table' = [table EXCEPT ![refused] = None]
        /\ evicted' = evicted \cup ({table[refused]} \ {None})
        /\ UNCHANGED <<placeVars, spc, conv>>
    BY DEF RemoveRefused, TakeOut, IInv, Types, TypeOK, CloserTypeOK,
    RefusedIsKey, placeVars
  <1>2. CASE k = refused /\ Doomed(k)
    <2>1. table[k] \in evicted' /\ conv[table[k]] = k
      BY <1>1, <1>2 DEF Doomed, IInv, Placed
    <2> QED
      BY <1>1, <1>2, <2>1 DEF DroppedAfterEviction, Doomed
  <1>3. CASE k # refused \/ ~ Doomed(k)
    <2>1. Doomed(k) => Doomed(k)' /\ table'[k] = table[k]
      BY <1>1, <1>3 DEF Doomed
    <2>2. Kept(k)'
      BY <1>1 DEF Kept
    <2> QED
      BY <1>1, <2>1, <2>2, KElsewhere
  <1> QED
    BY <1>2, <1>3

LEMMA KInvKeeps == IInv /\ SInv /\ KInv /\ [Next]_vars => KInv'
  <1> SUFFICES ASSUME IInv, SInv, WasPlaced, [Next]_vars, NEW k \in Keys, Clean(k)
               PROVE  Clean(k)' \/ DroppedAfterEviction(k)'
    BY EvictedStays DEF KInv
  <1> USE DEF tableVars, streamVars, pollerVars, readerVars, cvars, closerVars
  <1>0. ASSUME UNCHANGED <<table, placeVars, spc, conv, evicted>> PROVE Clean(k)'
    BY <1>0, KElsewhere DEF Clean, Doomed, Kept
  <1> USE DEF placeVars
  <1>1. ASSUME NEW s \in Streams,
               TimesOut(s) \/ (Drain(s) /\ UNCHANGED <<streamVars, pollerVars, readerVars>>)
        PROVE  Clean(k)'
    BY <1>0, <1>1 DEF TimesOut, Drain
  <1>2. CASE \/ PollerTakes \/ PollerEnds \/ PollerDropped \/ QuitReader
             \/ StopPoller \/ SocketFails
    BY <1>0, <1>2 DEF PollerTakes, PollerEnds, PollerDropped, QuitReader,
                      StopPoller, SocketFails
  <1>3. ASSUME NEW l \in Keys, RefuseInput(l) PROVE Clean(k)'
    BY <1>0, <1>3 DEF RefuseInput
  <1>4. ASSUME NEW p \in Stoppers, StopAll(p) PROVE Clean(k)'
    BY <1>0, <1>4 DEF StopAll, CloseAllSessions, CloseAll, StopThePoller,
                      StopTheCloser,
       CloseReadSignal, CloseSignal
  <1>5. CASE UNCHANGED vars
    BY <1>0, <1>5 DEF vars
  <1> QED
    BY <1>1, <1>2, <1>3, <1>4, <1>5, KRemoveRefused, KOpenKeeps, KDropStream, KCloserKeeps
       DEF Next

LEMMA KInitially == Init => KInv
  BY NoneIsApart DEF Init, CloserInit, KInv, WasPlaced, Clean, OnePlace,
                     AllDoomed, Kept

(* The closer only ever waits to close a session whose own stream was      *)
(* dropped, or whose conv it has from a dropped stream that had lost its   *)
(* session to a refused datagram - when calls of open do not overlap,      *)
(* whatever kcp refuses.                                                   *)
THEOREM ClosesItsOwn ==
  ASSUME MaxOpening = 1, IsFiniteSet(Streams)
  PROVE  Spec => []OwnClose
  <1>1. Init => IInv /\ SInv /\ KInv
    BY Initially, SInitially, KInitially
  <1>2. (IInv /\ SInv /\ KInv) /\ [Next]_vars => (IInv /\ SInv /\ KInv)'
    BY IInvKeeps, SInvKeeps, KInvKeeps
  <1>3. IInv /\ KInv => OwnClose
    <2> SUFFICES ASSUME IInv, KInv, NEW i \in DOMAIN futures
                 PROVE  \/ spc[futures[i].stream] = "dropped"
                        \/ DroppedAfterEviction(futures[i].key)
      BY DEF OwnClose
    <2>1. futures \in Seq(Futures)
      BY DEF IInv, Types, TypeOK, CloserTypeOK, Futures
    <2>2. futures[i] \in Futures
      BY <2>1, ElementOfSeq, LenProperties
    <2>3. futures[i].key \in Keys
      BY <2>2 DEF Futures
    <2> QED
      BY <2>3 DEF KInv, Clean, AllDoomed, Doomed
  <1> QED
    BY <1>1, <1>2, <1>3, PTL DEF Spec
-----------------------------------------------------------------------------
(* The poller of this module against Custody, which module Poller is       *)
(* proved to implement.  A session that has not been registered is nowhere *)
(* near the poller, and nobody has closed it.                              *)
NotGiven ==
  \A s \in Streams :
    spc[s] \in {"none", "made"} => s # queued /\ s \notin held \cup closed

CustodyStep == [custody!Next]_(custody!vars)

(* Steps of the others, who close what they find in the table.             *)
LEMMA CCloses ==
  ASSUME IInv, NotGiven, Types', UNCHANGED <<poller, queued, held, Cancelled>>,
         closed \subseteq closed', closed' \subseteq closed \cup InTable,
         \A s \in Streams : spc'[s] \in {"none", "made"} => spc[s] \in {"none", "made"}
  PROVE  CustodyStep /\ NotGiven'
  <1>1. closed' \subseteq Streams
    BY DEF Types, TypeOK, CloserTypeOK
  <1>2. custody!CloseOthers(closed')
    BY DEF custody!CloseOthers
  <1>3. CustodyStep
    BY <1>1, <1>2 DEF CustodyStep, custody!Next
  <1>4. \A s \in InTable : spc[s] \notin {"none", "made"}
    BY DEF InTable, IInv, Placed
  <1>5. NotGiven'
    BY <1>4 DEF NotGiven
  <1> QED
    BY <1>3, <1>5

LEMMA CRegister ==
  ASSUME IInv, NotGiven, NEW s \in Streams, Register(s)
  PROVE  CustodyStep /\ NotGiven'
  <1> USE NoneIsApart DEF cvars, tableVars, Cancelled
  <1>1. /\ poller = "running" /\ queued = None /\ queued' = s /\ spc[s] = "made"
        /\ UNCHANGED <<closed, held, poller, stage>> /\ spc' = [spc EXCEPT ![s] = "registered"]
    BY DEF Register, readerVars
  <1>2. custody!Accept(s)
    BY <1>1 DEF custody!Accept, NotGiven
  <1>3. NotGiven'
    BY <1>1 DEF NotGiven, IInv, Types, TypeOK
  <1> QED
    BY <1>2, <1>3 DEF CustodyStep, custody!Next

LEMMA CPoller ==
  ASSUME IInv, NotGiven,
         PollerTakes \/ PollerEnds \/ PollerDropped \/ \E s \in Streams : TimesOut(s)
  PROVE  CustodyStep /\ NotGiven'
  <1> USE DEF cvars, tableVars, streamVars, pollerVars, readerVars, Cancelled
  <1>1. CASE PollerTakes
    <2>1. queued \in Streams /\ custody!Take(queued)
      BY <1>1, NoneIsApart DEF PollerTakes, custody!Take, IInv, Types, TypeOK
    <2>2. NotGiven'
      BY <1>1, NoneIsApart DEF PollerTakes, NotGiven
    <2> QED
      BY <2>1, <2>2 DEF CustodyStep, custody!Next
  <1>2. CASE PollerEnds
    <2>1. held \in SUBSET held /\ custody!LetGo(held)
      BY <1>2 DEF PollerEnds, custody!LetGo
    <2>2. NotGiven'
      BY <1>2 DEF PollerEnds, NotGiven
    <2> QED
      BY <2>1, <2>2 DEF CustodyStep, custody!Next
  <1>3. CASE PollerDropped
    <2>1. custody!Drop
      BY <1>3 DEF PollerDropped, custody!Drop
    <2>2. NotGiven'
      BY <1>3 DEF PollerDropped, NotGiven
    <2> QED
      BY <2>1, <2>2 DEF CustodyStep, custody!Next
  <1>4. ASSUME NEW s \in Streams, TimesOut(s) PROVE CustodyStep /\ NotGiven'
    <2>1. {s} \in SUBSET held /\ custody!LetGo({s})
      BY <1>4 DEF TimesOut, custody!LetGo
    <2>2. NotGiven'
      BY <1>4 DEF TimesOut, NotGiven
    <2> QED
      BY <2>1, <2>2 DEF CustodyStep, custody!Next
  <1> QED
    BY <1>1, <1>2, <1>3, <1>4

LEMMA CStops ==
  ASSUME IInv, NotGiven,
         \/ StopPoller
         \/ \E p \in Stoppers : StopThePoller(p) \/ CloseReadSignal(p) \/ CloseSignal(p)
  PROVE  CustodyStep /\ NotGiven'
  <1> USE DEF cvars, tableVars, streamVars, pollerVars, readerVars, Cancelled
  <1>0. stage \in [Stoppers -> 0 .. 5] /\ "owner" \in Stoppers
    BY ClientAssumption DEF IInv, Types, TypeOK
  <1>1. NotGiven'
    BY DEF StopPoller, StopThePoller, CloseReadSignal, CloseSignal, NotGiven
  <1>2. CASE StopPoller \/ \E p \in Stoppers : StopThePoller(p)
    <2>1. custody!Refuse
      BY <1>0, <1>2 DEF StopPoller, StopThePoller, custody!Refuse
    <2> QED
      BY <1>1, <2>1 DEF CustodyStep, custody!Next
  <1>3. ASSUME NEW p \in Stoppers, CloseReadSignal(p) \/ CloseSignal(p)
        PROVE  CustodyStep /\ NotGiven'
    <2>1. CASE p = "owner" /\ CloseSignal(p)
      <3>1. custody!Cancel
        BY <1>0, <2>1 DEF CloseSignal, custody!Cancel
      <3> QED
        BY <1>1, <3>1 DEF CustodyStep, custody!Next
    <2>2. CASE p # "owner" \/ ~ CloseSignal(p)
      BY <1>0, <1>1, <1>3, <2>2 DEF CloseReadSignal, CloseSignal, CustodyStep,
                                    custody!vars
    <2> QED
      BY <2>1, <2>2
  <1> QED
    BY <1>2, <1>3

LEMMA CNext == IInv /\ NotGiven /\ [Next]_vars => CustodyStep /\ NotGiven'
  <1> SUFFICES ASSUME IInv, NotGiven, [Next]_vars PROVE CustodyStep /\ NotGiven'
    OBVIOUS
  <1> USE DEF tableVars, streamVars, pollerVars, readerVars, cvars, Cancelled
  <1>0. /\ Types' /\ stage \in [Stoppers -> 0 .. 5] /\ table \in [Keys -> Streams \cup {None}]
        /\ spc \in [Streams -> Opening \cup {"none", "open", "dropped", "failed"}]
    BY TypesKeep DEF IInv, Types, TypeOK, CloserTypeOK
  <1>1. ASSUME NEW k \in Keys, TakeOut(k), UNCHANGED <<spc, poller, queued, held, stage>>
        PROVE  CustodyStep /\ NotGiven'
    BY <1>0, <1>1, CCloses DEF TakeOut, InTable
  <1>2. ASSUME UNCHANGED <<closed, poller, queued, held, Cancelled>>,
               \A s \in Streams : spc'[s] \in {"none", "made"} => spc[s] \in {"none", "made"}
        PROVE  CustodyStep /\ NotGiven'
    BY <1>0, <1>2, CCloses
  <1>3. ASSUME NEW s \in Streams,
               \/ MakeKcp(s) \/ NoMoreConv(s) \/ RegisterFails(s) \/ Insert(s)
               \/ TellReader(s) \/ TellPoller(s)
               \/ GiveUp(s) \/ DropStream(s)
        PROVE  CustodyStep /\ NotGiven'
    <2>1. \E v \in {"made", "failed", "mapped", "told", "open", "dropped"} :
            spc' = [spc EXCEPT ![s] = v] /\ (v = "made" => spc[s] = "none")
      BY <1>3 DEF MakeKcp, MayOpen, NoMoreConv, RegisterFails, Insert,
                  TellReader, TellPoller, GiveUp, DropStream
    <2>2. UNCHANGED <<closed, poller, queued, held, stage>>
      BY <1>3 DEF MakeKcp, NoMoreConv, RegisterFails, Insert, TellReader,
                  TellPoller, GiveUp, DropStream
    <2> QED
      BY <1>0, <1>2, <2>1, <2>2
  <1>4. CASE CloserStep /\ UNCHANGED <<streamVars, pollerVars, readerVars>>
    <2>1. CASE CloserRemoves
      BY <1>1, <1>4, <2>1 DEF CloserRemoves, IInv, Types, Shape
    <2>2. CASE ~ CloserRemoves
      <3>1. UNCHANGED closed
        BY <1>4, <2>2 DEF CloserStep, CloserMoves, CloserTakes, CloserLooksUp,
                          CloserEnds,
           CloserPollsReady, CloserPollsOpen, CloserRegisters, CloserWakes,
           CloserPassStarts
      <3> QED
        BY <1>2, <1>4, <3>1
    <2> QED
      BY <2>1, <2>2
  <1>5. CASE RemoveRefused
    BY <1>1, <1>5 DEF RemoveRefused, IInv, Types, RefusedIsKey
  <1>6. CASE \/ SocketFails \/ QuitReader \/ UNCHANGED vars
             \/ \E k \in Keys : RefuseInput(k)
    BY <1>2, <1>6 DEF SocketFails, QuitReader, vars, RefuseInput
  <1>7. ASSUME NEW s \in Streams, Drain(s) /\ UNCHANGED <<streamVars, pollerVars, readerVars>>
        PROVE  CustodyStep /\ NotGiven'
    BY <1>2, <1>7 DEF Drain
  <1>8. ASSUME NEW p \in Stoppers, CloseAllSessions(p) \/ StopTheCloser(p)
        PROVE  CustodyStep /\ NotGiven'
    <2>1. UNCHANGED <<poller, queued, held, spc, Cancelled>>
      BY ClientAssumption, <1>0, <1>8 DEF CloseAllSessions, StopTheCloser
    <2>2. closed \subseteq closed' /\ closed' \subseteq closed \cup InTable
      BY <1>8 DEF CloseAllSessions, CloseAll, StopTheCloser
    <2> QED
      BY <1>0, <2>1, <2>2, CCloses
  <1> QED
    BY <1>3, <1>4, <1>5, <1>6, <1>7, <1>8, CRegister, CPoller, CStops
       DEF Next, OpenStep, StopAll

(* What this module takes the poller of src/poller.rs for is what module   *)
(* Poller implements: it is given a session once, before anybody has       *)
(* closed it, and lets an open one go only when the connector cancels it.  *)
THEOREM ClientIsCustody == Spec => ImplementsCustody
  <1>1. Init => custody!Init /\ NotGiven
    BY NoneIsApart, ClientAssumption DEF Init, CloserInit, custody!Init,
                                         NotGiven, Cancelled
  <1> QED
    BY <1>1, CNext, Invariant, PTL DEF Spec, ImplementsCustody, custody!Spec,
                                       CustodyStep
=============================================================================
