---------------------------- MODULE CloserProofs ----------------------------
(***************************************************************************)
(* What a step of the closer does to the close of a session, for Client    *)
(* and Server alike.                                                       *)
(*                                                                         *)
(* The close of a session that is in the table under a key is tracked: the *)
(* key is in the queue or on its way to a lookup, or a future waits for    *)
(* the session, or the pass has it in hand and removes it at its end, or   *)
(* another future of the pass displaced it (missed).  A future of another  *)
(* session with the same key could displace it unnoticed; there is none    *)
(* behind it, for a session is inserted once, and what is looked up        *)
(* afterwards under its key is that session (Newest).                      *)
(***************************************************************************)
EXTENDS Closer, SequenceTheorems, TLAPS

(* Where the closer is, and what it has in hand there.                     *)
Shape ==
  /\ clpc \in {"recv", "asleep", "ended"} => cur = None
  /\ hand = None <=> clpc = "lookup" \/ cur = None
  /\ clpc \in {"lookup", "remove"} => cur \in Keys
  /\ clpc \in {"pass", "between"} => at \in 1 .. Len(futures)

Tracked(k, s) ==
  \/ \E i \in DOMAIN requests : requests[i] = k
  \/ clpc = "lookup" /\ cur = k
  \/ \E i \in DOMAIN futures : futures[i].stream = s
  \/ hand = s
  \/ s \in missed

Newest(k, s) ==
  /\ \A i \in DOMAIN futures : futures[i].stream = s =>
       /\ futures[i].key = k
       /\ \A j \in DOMAIN futures : j > i /\ futures[j].key = k => futures[j].stream = s
  /\ hand = s =>
       /\ cur = k
       /\ clpc \in {"pass", "between"} =>
            \A j \in DOMAIN futures : j >= at /\ futures[j].key = k => futures[j].stream = s

(* Nobody has looked the session up yet.                                   *)
Unseen(s) ==
  /\ \A k \in Keys : table[k] # s
  /\ \A i \in DOMAIN futures : futures[i].stream # s
  /\ hand # s
-----------------------------------------------------------------------------
LEMMA NoneIsApart == None \notin Streams /\ None \notin Keys
  BY CloserAssumption

LEMMA Removed ==
  ASSUME NEW S, NEW q \in Seq(S), NEW n \in 1 .. Len(q)
  PROVE  /\ RemoveAt(q, n) \in Seq(S)
         /\ Len(RemoveAt(q, n)) = Len(q) - 1
         /\ \A i \in 1 .. Len(q) - 1 :
              RemoveAt(q, n)[i] = IF i < n THEN q[i] ELSE q[i + 1]
  <1> DEFINE a == SubSeq(q, 1, n - 1)
             b == SubSeq(q, n + 1, Len(q))
  <1>0. Len(q) \in Nat
    BY LenProperties
  <1>1. a \in Seq(S) /\ Len(a) = n - 1 /\ \A i \in 1 .. n - 1 : a[i] = q[i]
    BY <1>0, SubSeqProperties
  <1>2. /\ b \in Seq(S) /\ Len(b) = Len(q) - n
        /\ \A i \in 1 .. Len(q) - n : b[i] = q[i + n]
    BY <1>0, SubSeqProperties
  <1> HIDE DEF a, b
  <1>3. /\ a \o b \in Seq(S) /\ Len(a \o b) = Len(q) - 1
        /\ \A i \in 1 .. Len(q) - 1 : (a \o b)[i] = IF i < n THEN q[i] ELSE q[i + 1]
    <2>1. /\ a \o b \in Seq(S) /\ Len(a \o b) = Len(q) - 1
          /\ \A i \in 1 .. Len(q) - 1 :
               (a \o b)[i] = IF i <= n - 1 THEN a[i] ELSE b[i - (n - 1)]
      BY <1>0, <1>1, <1>2, ConcatProperties
    <2>2. \A i \in 1 .. Len(q) - 1 : i >= n => b[i - (n - 1)] = q[i + 1]
      <3> SUFFICES ASSUME NEW i \in 1 .. Len(q) - 1, i >= n
                   PROVE  b[i - (n - 1)] = q[i + 1]
        OBVIOUS
      <3>1. i - (n - 1) \in 1 .. Len(q) - n /\ (i - (n - 1)) + n = i + 1
        BY <1>0
      <3> QED
        BY <1>2, <3>1
    <2>3. \A i \in 1 .. Len(q) - 1 : i <= n - 1 <=> i < n
      BY <1>0
    <2> QED
      BY <1>0, <1>1, <2>1, <2>2, <2>3
  <1> QED
    BY <1>3 DEF RemoveAt, a, b

(* What each step does to the two sequences.                               *)
Futures == [key : Keys, stream : Streams]

LEMMA Taken ==
  ASSUME CloserTypeOK, CloserTakes
  PROVE  /\ requests' \in Seq(Keys) /\ cur' \in Keys
         /\ \A i \in DOMAIN requests :
              requests[i] = cur' \/ \E j \in DOMAIN requests' : requests'[j] = requests[i]
  <1>1. requests \in Seq(Keys) /\ requests # << >> /\ cur' = Head(requests)
        /\ requests' = Tail(requests)
    BY DEF CloserTakes, CloserTypeOK
  <1>2. /\ Head(requests) \in Keys /\ Head(requests) = requests[1]
        /\ requests' \in Seq(Keys) /\ Len(requests') = Len(requests) - 1
        /\ \A j \in 1 .. Len(requests) - 1 : requests'[j] = requests[j + 1]
        /\ Len(requests) \in Nat
        /\ DOMAIN requests = 1 .. Len(requests) /\ DOMAIN requests' = 1 .. Len(requests')
    BY <1>1, HeadTailProperties, LenProperties
  <1>3. ASSUME NEW i \in DOMAIN requests, i # 1
        PROVE  i - 1 \in DOMAIN requests' /\ requests'[i - 1] = requests[i]
    BY <1>2, <1>3
  <1> QED
    BY <1>1, <1>2, <1>3

LEMMA LookedUp ==
  ASSUME CloserTypeOK, Shape, CloserLooksUp
  PROVE  /\ cur \in Keys
         /\ futures' \in Seq(Futures)
         /\ DOMAIN futures \subseteq Int
         /\ \A i \in DOMAIN futures : i \in DOMAIN futures' /\ futures'[i] = futures[i]
         /\ \A i \in DOMAIN futures' \ DOMAIN futures :
              /\ futures'[i].key = cur /\ futures'[i].stream = table[cur]
              /\ \A j \in DOMAIN futures' : ~ j > i
         /\ table[cur] # None => \E i \in DOMAIN futures' : futures'[i].stream = table[cur]
  <1>1. cur \in Keys /\ table[cur] \in Streams \cup {None} /\ futures \in Seq(Futures)
    BY DEF CloserLooksUp, Shape, CloserTypeOK, Futures
  <1>2. DOMAIN futures = 1 .. Len(futures) /\ Len(futures) \in Nat
    BY <1>1, LenProperties
  <1>3. CASE table[cur] = None
    <2>1. futures' = futures
      BY <1>3 DEF CloserLooksUp
    <2> QED
      BY <1>1, <1>2, <1>3, <2>1
  <1>4. CASE table[cur] # None
    <2> DEFINE f == [key |-> cur, stream |-> table[cur]]
               n == Len(futures) + 1
    <2>1. f \in Futures /\ f.key = cur /\ f.stream = table[cur]
      BY <1>1, <1>4 DEF Futures
    <2>2. futures' = Append(futures, f)
      BY <1>4 DEF CloserLooksUp
    <2> HIDE DEF f
    <2>3. /\ futures' \in Seq(Futures) /\ Len(futures') = n
          /\ \A i \in 1 .. Len(futures) : futures'[i] = futures[i]
          /\ futures'[n] = f
      BY <1>1, <2>1, <2>2, AppendProperties
    <2>4. DOMAIN futures' = 1 .. n
      BY <2>3, LenProperties
    <2> QED
      BY <1>1, <1>2, <1>4, <2>1, <2>3, <2>4
  <1> QED
    BY <1>3, <1>4

LEMMA PolledReady ==
  ASSUME CloserTypeOK, Shape, CloserPollsReady
  PROVE  /\ at \in 1 .. Len(futures)
         /\ futures \in Seq(Futures) /\ futures' \in Seq(Futures)
         /\ futures[at].key \in Keys /\ futures[at].stream \in Streams
         /\ DOMAIN futures = 1 .. Len(futures) /\ DOMAIN futures' = 1 .. Len(futures')
         /\ Len(futures) \in Nat /\ Len(futures') = Len(futures) - 1
         /\ \A i \in 1 .. Len(futures) - 1 :
              futures'[i] = IF i < at THEN futures[i] ELSE futures[i + 1]
  <1>1. at \in 1 .. Len(futures) /\ futures \in Seq(Futures)
        /\ futures' = RemoveAt(futures, at)
    BY DEF CloserPollsReady, Shape, CloserTypeOK, Futures
  <1>2. futures[at] \in Futures
    BY <1>1, ElementOfSeq
  <1>3. futures[at].key \in Keys /\ futures[at].stream \in Streams
    BY <1>2 DEF Futures
  <1> QED
    BY <1>1, <1>3, Removed, LenProperties
-----------------------------------------------------------------------------
LEMMA CloserTypes ==
  ASSUME CloserTypeOK, Shape, CloserStep
  PROVE  CloserTypeOK' /\ Shape'
  <1> USE NoneIsApart DEF tableVars, passVars
  <1>1. CASE CloserTakes
    BY <1>1, Taken DEF CloserTakes, CloserTypeOK, Shape
  <1>2. CASE CloserLooksUp
    BY <1>2, LookedUp DEF CloserLooksUp, CloserTypeOK, Shape, Futures
  <1>3. CASE CloserPassStarts
    <2>1. Len(futures) \in Nat /\ Len(futures) >= 1
      BY <1>3, LenProperties, EmptySeq DEF CloserPassStarts, CloserTypeOK
    <2> QED
      BY <1>3, <2>1 DEF CloserPassStarts, CloserTypeOK, Shape
  <1>4. CASE CloserPollsReady
    <2>1. /\ cur' \in Keys /\ hand' \in Streams
          /\ missed' \subseteq Streams
          /\ clpc' \in {"pass", "remove"} /\ at' \in Nat
          /\ clpc' = "pass" => at' \in 1 .. Len(futures')
          /\ futures' \in Seq(Futures)
          /\ drained' \subseteq Streams /\ late' \subseteq Streams
          /\ UNCHANGED <<tableVars, requests, closing>>
      <3>1. cur' \in Keys /\ hand' \in Streams
        BY <1>4, PolledReady DEF CloserPollsReady
      <3>2. missed' \subseteq Streams
        BY <1>4 DEF CloserPollsReady, CloserTypeOK, Shape
      <3>3. /\ clpc' \in {"pass", "remove"} /\ at' \in Nat
            /\ clpc' = "pass" => at' \in 1 .. Len(futures')
        BY <1>4, <3>1, PolledReady DEF CloserPollsReady, PassGoesOn
      <3>4. drained' \subseteq Streams /\ late' \subseteq Streams
        BY <1>4 DEF CloserPollsReady, CloserTypeOK
      <3> QED
        BY <1>4, <3>1, <3>2, <3>3, <3>4, PolledReady DEF CloserPollsReady
    <2> QED
      BY <2>1 DEF CloserTypeOK, Shape, Futures
  <1>5. CASE CloserRegisters
    <2>1. Len(futures) \in Nat
      BY LenProperties DEF CloserTypeOK
    <2> QED
      BY <1>5, <2>1 DEF CloserRegisters, PassGoesOn, CloserTypeOK, Shape
  <1>6. CASE CloserRemoves
    BY <1>6 DEF CloserRemoves, TakeOut, CloserTypeOK, Shape
  <1>7. CASE CloserEnds
    BY <1>7, EmptySeq DEF CloserEnds, CloserTypeOK, Shape
  <1>8. CASE CloserPollsOpen \/ CloserWakes
    BY <1>8 DEF CloserPollsOpen, CloserWakes, CloserTypeOK, Shape
  <1> QED
    BY <1>1, <1>2, <1>3, <1>4, <1>5, <1>6, <1>7, <1>8 DEF CloserStep, CloserMoves

LEMMA CloserUnseen ==
  ASSUME CloserTypeOK, Shape, CloserStep, NEW s \in Streams, Unseen(s)
  PROVE  Unseen(s)'
  <1> USE NoneIsApart DEF Unseen, tableVars, passVars
  <1>1. CASE CloserTakes \/ CloserPassStarts \/ CloserPollsOpen \/ CloserEnds \/ CloserWakes
    BY <1>1 DEF CloserTakes, CloserPassStarts, CloserPollsOpen, CloserEnds, CloserWakes
  <1>2. CASE CloserLooksUp
    BY <1>2, LookedUp DEF CloserLooksUp
  <1>3. CASE CloserPollsReady
    BY <1>3, PolledReady DEF CloserPollsReady
  <1>4. CASE CloserRegisters
    BY <1>4 DEF CloserRegisters
  <1>5. CASE CloserRemoves
    BY <1>5 DEF CloserRemoves, TakeOut, CloserTypeOK, Shape
  <1> QED
    BY <1>1, <1>2, <1>3, <1>4, <1>5 DEF CloserStep, CloserMoves

(* A step that leaves a session in the table leaves its close tracked.     *)
LEMMA CloserTracks ==
  ASSUME CloserTypeOK, Shape, CloserStep, NEW k \in Keys, NEW s \in Streams,
         \A l \in Keys : table[l] = s => l = k,
         table[k] = s, table'[k] = s, Newest(k, s)
  PROVE  /\ Newest(k, s)'
         /\ Tracked(k, s) /\ ~ closing => Tracked(k, s)'
  <1> USE NoneIsApart DEF tableVars, passVars
  <1>0. s # None
    OBVIOUS
  <1>1. CASE CloserTakes
    <2>1. Newest(k, s)'
      BY <1>0, <1>1 DEF CloserTakes, Newest, Shape
    <2>2. Tracked(k, s) => Tracked(k, s)'
      BY <1>1, Taken DEF CloserTakes, Tracked
    <2> QED
      BY <2>1, <2>2
  <1>2. CASE CloserLooksUp
    <2>0. /\ UNCHANGED <<hand, missed, requests>>
          /\ hand = None /\ clpc = "lookup" /\ clpc' = "recv"
      BY <1>2 DEF CloserLooksUp, Shape
    <2>1. Newest(k, s)'
      <3>1. ASSUME NEW i \in DOMAIN futures', futures'[i].stream = s
            PROVE  futures'[i].key = k
        BY <1>2, <3>1, LookedUp DEF Newest
      <3>2. ASSUME NEW i \in DOMAIN futures', futures'[i].stream = s,
                   NEW j \in DOMAIN futures', j > i, futures'[j].key = k
            PROVE  futures'[j].stream = s
        BY <1>2, <3>2, LookedUp DEF Newest
      <3> QED
        BY <1>0, <2>0, <3>1, <3>2 DEF Newest
    <2>2. ASSUME \E i \in DOMAIN futures : futures[i].stream = s
          PROVE  Tracked(k, s)'
      <3>1. PICK i \in DOMAIN futures : futures[i].stream = s
        BY <2>2
      <3>2. i \in DOMAIN futures' /\ futures'[i] = futures[i]
        BY <1>2, <3>1, LookedUp
      <3> QED
        BY <3>1, <3>2 DEF Tracked
    <2>3. ASSUME cur = k
          PROVE  Tracked(k, s)'
      <3>1. \E i \in DOMAIN futures' : futures'[i].stream = s
        BY <1>0, <1>2, <2>3, LookedUp
      <3> QED
        BY <3>1 DEF Tracked
    <2>4. ASSUME cur # k, Tracked(k, s)
          PROVE  Tracked(k, s)'
      BY <1>0, <2>0, <2>2, <2>4 DEF Tracked
    <2> QED
      BY <2>1, <2>3, <2>4
  <1>3. CASE CloserPassStarts
    BY <1>0, <1>3 DEF CloserPassStarts, Newest, Tracked, Shape
  <1>4. CASE CloserPollsReady
    <2> DEFINE n == at
    <2>1. /\ clpc \in {"pass", "between"} /\ cur' = futures[n].key /\ hand' = futures[n].stream
          /\ missed' = (IF cur \in {None, cur'} THEN missed ELSE missed \cup {hand})
          /\ UNCHANGED <<table, requests>>
          /\ clpc' = "pass" => at' = n
          /\ clpc' \notin {"lookup", "between"}
      BY <1>4 DEF CloserPollsReady, PassGoesOn
    <2>2. /\ n \in 1 .. Len(futures) /\ Len(futures) \in Nat
          /\ futures[n].key \in Keys
          /\ DOMAIN futures = 1 .. Len(futures) /\ DOMAIN futures' = 1 .. Len(futures) - 1
          /\ \A i \in 1 .. Len(futures) - 1 :
               futures'[i] = IF i < n THEN futures[i] ELSE futures[i + 1]
      BY <1>4, PolledReady
    <2>3. \A j \in DOMAIN futures : j >= n /\ hand = s /\ futures[j].key = k => futures[j].stream = s
      BY <2>1 DEF Newest
    <2> HIDE DEF n
    <2>4. ASSUME NEW i \in DOMAIN futures', futures'[i].stream = s
          PROVE  /\ futures'[i].key = k
                 /\ \A j \in DOMAIN futures' :
                      j > i /\ futures'[j].key = k => futures'[j].stream = s
      <3> DEFINE from(j) == IF j < n THEN j ELSE j + 1
      <3>1. \A j \in DOMAIN futures' : from(j) \in DOMAIN futures /\ futures'[j] = futures[from(j)]
        BY <2>2
      <3>2. \A j \in DOMAIN futures' : j > i => from(j) > from(i)
        BY <2>2
      <3> HIDE DEF from
      <3> QED
        BY <2>4, <3>1, <3>2 DEF Newest
    <2>5. ASSUME hand' = s
          PROVE  /\ cur' = k
                 /\ \A j \in DOMAIN futures' :
                      j >= n /\ futures'[j].key = k => futures'[j].stream = s
      <3>1. n \in DOMAIN futures /\ futures[n].stream = s
        BY <2>1, <2>2, <2>5
      <3>2. \A j \in DOMAIN futures' :
              j >= n => j + 1 \in DOMAIN futures /\ futures'[j] = futures[j + 1] /\ j + 1 > n
        BY <2>2
      <3> QED
        BY <2>1, <3>1, <3>2 DEF Newest
    <2>6. Newest(k, s)'
      BY <2>1, <2>4, <2>5 DEF Newest
    <2>7. ASSUME NEW i \in DOMAIN futures, futures[i].stream = s
          PROVE  Tracked(k, s)'
      <3>1. CASE i = n
        BY <2>1, <2>7, <3>1 DEF Tracked
      <3>2. CASE i < n
        <4>1. i \in DOMAIN futures' /\ futures'[i] = futures[i]
          BY <2>2, <3>2
        <4> QED
          BY <2>7, <4>1 DEF Tracked
      <3>3. CASE i > n
        <4>1. i - 1 \in DOMAIN futures' /\ futures'[i - 1] = futures[i]
          BY <2>2, <3>3
        <4> QED
          BY <2>7, <4>1 DEF Tracked
      <3> QED
        BY <2>2, <3>1, <3>2, <3>3
    <2>8. ASSUME hand = s
          PROVE  Tracked(k, s)'
      <3>1. cur = k /\ cur # None
        BY <2>8 DEF Newest
      <3>2. CASE cur' = k
        <4>1. n \in DOMAIN futures /\ n >= n /\ futures[n].key = k
          BY <2>1, <2>2, <3>2
        <4>2. hand' = s
          BY <2>1, <2>3, <2>8, <4>1
        <4> QED
          BY <4>2 DEF Tracked
      <3>3. CASE cur' # k
        <4>1. s \in missed'
          BY <2>1, <2>8, <3>1, <3>3
        <4> QED
          BY <4>1 DEF Tracked
      <3> QED
        BY <3>2, <3>3
    <2> QED
      BY <2>1, <2>6, <2>7, <2>8 DEF Tracked
  <1>5. CASE CloserRegisters
    <2>1. /\ clpc = "between" /\ clpc' \notin {"lookup", "between"}
          /\ clpc' = "pass" => at' = at + 1
          /\ UNCHANGED <<requests, futures, cur, hand, missed>>
      BY <1>5 DEF CloserRegisters, PassGoesOn
    <2>2. at \in Nat
      BY DEF CloserTypeOK
    <2>3. DOMAIN futures = 1 .. Len(futures) /\ Len(futures) \in Nat
      BY LenProperties DEF CloserTypeOK
    <2>4. \A j \in DOMAIN futures : j >= at + 1 => j >= at
      BY <2>2, <2>3
    <2>5. Newest(k, s)'
      BY <2>1, <2>3, <2>4 DEF Newest
    <2>6. Tracked(k, s) => Tracked(k, s)'
      BY <2>1 DEF Tracked
    <2> QED
      BY <2>5, <2>6
  <1>6. CASE CloserRemoves
    <2>1. cur # k
      BY <1>0, <1>6 DEF CloserRemoves, TakeOut, CloserTypeOK
    <2>2. hand # s
      BY <2>1 DEF Newest
    <2> QED
      BY <1>0, <1>6, <2>1, <2>2 DEF CloserRemoves, Newest, Tracked
  <1>7. CASE CloserEnds
    BY <1>0, <1>7 DEF CloserEnds, Newest, Shape
  <1>8. CASE CloserPollsOpen \/ CloserWakes
    BY <1>0, <1>8 DEF CloserPollsOpen, CloserWakes, Newest, Tracked, Shape
  <1> QED
    BY <1>1, <1>2, <1>3, <1>4, <1>5, <1>6, <1>7, <1>8 DEF CloserStep, CloserMoves
-----------------------------------------------------------------------------
(* The steps of a registry: sessions are closed, and may leave the table   *)
(* with that; a new session takes an empty place.                          *)
RegistryStep == [registry!Next]_(registry!vars)

LEMMA RegistryInit == CloserInit => registry!Init
  BY DEF CloserInit, registry!Init, Owner

LEMMA Leaves ==
  ASSUME table \in [Keys -> Streams \cup {None}], closed' \subseteq Streams,
         closed \subseteq closed',
         \A k \in Keys : table'[k] = table[k] \/ (table'[k] = None /\ table[k] \in closed' \cup {None})
  PROVE  RegistryStep
  <1> DEFINE S == closed' \ closed
  <1>1. S \in SUBSET Streams /\ S \cap closed = {} /\ closed' = closed \cup S
    OBVIOUS
  <1>2. Owner' = [k \in Keys |-> IF Owner[k] \in S THEN None ELSE Owner[k]]
    BY NoneIsApart DEF Owner
  <1>3. registry!Leave(S)
    BY <1>1, <1>2 DEF registry!Leave
  <1> QED
    BY <1>1, <1>3 DEF RegistryStep, registry!Next

LEMMA Enters ==
  ASSUME table \in [Keys -> Streams \cup {None}], NEW k \in Keys, NEW s \in Streams,
         table[k] = None, \A l \in Keys : table[l] # s,
         table' = [table EXCEPT ![k] = s], UNCHANGED closed
  PROVE  RegistryStep
  <1> USE NoneIsApart
  <1>1. CASE s \in closed
    <2>1. Owner' = Owner
      BY <1>1 DEF Owner
    <2> QED
      BY <2>1 DEF RegistryStep, registry!vars
  <1>2. CASE s \notin closed
    <2>1. Owner[k] = None /\ \A l \in Keys : Owner[l] # s
      BY DEF Owner
    <2>2. Owner' = [Owner EXCEPT ![k] = s]
      BY <1>2 DEF Owner
    <2>3. registry!Enter(k, s)
      BY <1>2, <2>1, <2>2 DEF registry!Enter
    <2> QED
      BY <2>3 DEF RegistryStep, registry!Next
  <1> QED
    BY <1>1, <1>2

LEMMA TakesOut ==
  ASSUME CloserTypeOK, CloserTypeOK', NEW k, TakeOut(k)
  PROVE  RegistryStep
  <1>1. /\ table' = [table EXCEPT ![k] = None]
        /\ closed' = closed \cup ({table[k]} \ {None})
        /\ table \in [Keys -> Streams \cup {None}] /\ closed' \subseteq Streams
    BY DEF TakeOut, CloserTypeOK
  <1>2. \A l \in Keys : table'[l] = table[l] \/ (table'[l] = None /\ table[l] \in closed' \cup {None})
    BY <1>1
  <1>3. closed \subseteq closed'
    BY <1>1
  <1> QED
    BY <1>1, <1>2, <1>3, Leaves

LEMMA CloserIsRegistry ==
  ASSUME CloserTypeOK, CloserTypeOK', CloserStep
  PROVE  RegistryStep
  <1>1. CASE CloserRemoves
    BY <1>1, TakesOut DEF CloserRemoves
  <1>2. CASE ~ CloserRemoves
    BY <1>2, Leaves DEF CloserStep, CloserMoves, CloserTakes, CloserLooksUp, CloserEnds,
       CloserPassStarts, CloserPollsReady, CloserPollsOpen, CloserRegisters, CloserWakes,
       tableVars, CloserTypeOK
  <1> QED
    BY <1>1, <1>2
=============================================================================
