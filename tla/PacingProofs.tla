---------------------------- MODULE PacingProofs ----------------------------
(***************************************************************************)
(* Theorems about Pacing, for any number of sessions, any clock, interval, *)
(* timeout and close delay.                                                *)
(*                                                                         *)
(* The properties bound the true time by what was last read from a clock   *)
(* that wraps.  The invariant behind them relates the time of the last     *)
(* round (wake - slept) to the sessions that round has seen: which input   *)
(* it had seen in time (Judged), and which update it sleeps towards        *)
(* (Awaited).  What the loop over the list makes of the sleeps its         *)
(* sessions want (LoopResult) is proved by induction on the list.          *)
(***************************************************************************)
EXTENDS Pacing, Arithmetic

Timer ==
  /\ slept <= wake
  /\ held # {} => t <= wake /\ wake <= t + slept
  /\ held = {} => slept = 0

(* What is recorded of a session is past, or near.                         *)
Recorded ==
  \A s \in Sessions :
    /\ heard[s] <= t /\ due[s] <= t + Interval
    /\ lastUpdate[s] = IF s \in silent THEN lastSend(s) ELSE 0
    /\ state[s] = "new" => s \in silent
    /\ state[s] \in {"new", "reading"} => slowed[s] = 0

(* The timer is set for the update of a reading session, if not before.    *)
Awaited ==
  \A s \in Polled :
    state[s] = "reading" /\ s \notin fresh \cup skipped \cup masked =>
      wake <= due[s] /\ slept <= Interval

(* The last round, which was at r, has not found the session too silent.   *)
InTimeAt(s, r) ==
  \/ r <= heard[s] \/ Cycle(heard[s]) # Cycle(r)
  \/ r <= heard[s] + Limit(s)

Judged == \A s \in Polled \ skipped : InTimeAt(s, wake - slept)

IInv == TypeOK /\ Timer /\ Recorded /\ Awaited /\ Judged /\ PanicsOnlyAtWrap
-----------------------------------------------------------------------------
LEMMA Constants ==
  /\ Clock \in Nat \ {0} /\ Interval \in Nat \ {0} /\ Timeout \in Nat \ {0}
  /\ CloseDelay \in Nat \ {0} /\ Slow \in Nat /\ Interval < Clock
  /\ Start \in Nat /\ MaxTime \in Nat /\ Start <= MaxTime
  BY PacingAssumption

(* The clock, and what check computes with it.                             *)
LEMMA Reading ==
  ASSUME TypeOK, Recorded, NEW s \in Sessions
  PROVE  /\ t \in Nat /\ now \in 0 .. Clock - 1
         /\ heard[s] \in Nat /\ lastSend(s) \in 0 .. Clock - 1
         /\ due[s] \in Nat /\ Ahead(s) \in 0 .. Interval
         /\ Raised(s, 1) \in Nat /\ Raised(s, 2) \in Nat
         /\ slowed[s] <= Raised(s, 1) /\ Raised(s, 1) <= Raised(s, 2)
         /\ state[s] = "reading" => Raised(s, 2) = 0
  <1>1. t \in Nat /\ heard[s] \in Nat /\ due[s] \in Nat /\ slowed[s] \in Nat
    BY Constants DEF TypeOK
  <1>2. now \in 0 .. Clock - 1 /\ lastSend(s) \in 0 .. Clock - 1
    BY <1>1, Division, Constants DEF now, lastSend
  <1>3. Ahead(s) \in 0 .. Interval
    BY <1>1, Constants DEF Ahead, Recorded
  <1>4. /\ Raised(s, 1) \in Nat /\ Raised(s, 2) \in Nat
        /\ slowed[s] <= Raised(s, 1) /\ Raised(s, 1) <= Raised(s, 2)
    BY <1>1, Constants DEF Raised
  <1>5. state[s] = "reading" => Raised(s, 2) = 0
    BY <1>1 DEF Raised, Recorded
  <1> QED
    BY <1>1, <1>2, <1>3, <1>4, <1>5

LEMMA Wanted ==
  ASSUME TypeOK, Recorded, NEW s \in Sessions, NEW ahead \in [Sessions -> 1 .. Interval]
  PROVE  /\ AheadAfter(s, ahead) \in 0 .. Interval
         /\ updatable(s) => AheadAfter(s, ahead) \in 1 .. Interval
         /\ NextUpdate(AheadAfter(s, ahead)) \in 0 .. Clock - 1
         /\ Sleep(s, ahead) \in 0 .. Clock - 1
  <1>1. /\ AheadAfter(s, ahead) \in 0 .. Interval
        /\ updatable(s) => AheadAfter(s, ahead) \in 1 .. Interval
    BY Reading, Constants DEF AheadAfter
  <1>2. NextUpdate(AheadAfter(s, ahead)) \in 0 .. Clock - 1
    <2>1. now + AheadAfter(s, ahead) \in Nat
      BY <1>1, Reading, Constants
    <2> QED
      BY <2>1, Constants, Division DEF NextUpdate
  <1>3. Clock + NextUpdate(AheadAfter(s, ahead)) + Raised(s, 2) - now \in Nat
    BY <1>2, Reading, Constants
  <1> QED
    BY <1>1, <1>2, <1>3, Constants, Division DEF Sleep

(* A session that is not closing wants to sleep until its update.          *)
LEMMA ReadingSleep ==
  ASSUME TypeOK, Recorded, NEW s \in Sessions, NEW ahead \in [Sessions -> 1 .. Interval],
         state[s] = "reading"
  PROVE  Sleep(s, ahead) = AheadAfter(s, ahead)
  <1> DEFINE a == AheadAfter(s, ahead)
  <1>1. a \in Nat /\ a < Clock /\ now \in Nat /\ now < Clock /\ Raised(s, 2) = 0
    BY Wanted, Reading, Constants
  <1> HIDE DEF a
  <1>2. CASE now + a < Clock
    <2>1. (now + a) % Clock = now + a
      BY <1>1, <1>2, Small, Constants
    <2>2. Clock + (now + a) + 0 - now = Clock + a
      BY <1>1, Constants
    <2> QED
      BY <1>1, <2>1, <2>2, OnceAround, Constants DEF Sleep, NextUpdate, a
  <1>3. CASE now + a >= Clock
    <2> DEFINE b == (now + a) - Clock
    <2>1. b \in Nat /\ b < Clock /\ Clock + b = now + a
      BY <1>1, <1>3, Constants
    <2>2. (now + a) % Clock = b
      <3> HIDE DEF b
      <3> QED
        BY <2>1, OnceAround, Constants
    <2>3. Clock + b + 0 - now = a
      BY <1>1, Constants
    <2>4. a % Clock = a
      BY <1>1, Small, Constants
    <2> HIDE DEF b
    <2> QED
      BY <1>1, <2>2, <2>3, <2>4 DEF Sleep, NextUpdate, a
  <1> QED
    BY <1>1, <1>2, <1>3, Constants

(* Away from the wrap check sees a time that is past now.                  *)
LEMMA AwayFromWrap ==
  ASSUME TypeOK, Recorded, NEW s \in Sessions, ~ AcrossWrap(s)
  PROVE  /\ Cycle(heard[s]) = Cycle(t) /\ t - heard[s] = now - lastSend(s)
         /\ now + Interval + Raised(s, 2) < Clock
  <1> DEFINE later == t + Interval + Raised(s, 2)
  <1>1. later \in Nat /\ heard[s] <= t /\ t <= later /\ heard[s] \in Nat /\ t \in Nat
    BY Reading, Constants DEF Recorded
  <1>2. heard[s] \div Clock = later \div Clock
    BY DEF AcrossWrap, Cycle
  <1> HIDE DEF later
  <1>3. t \div Clock = heard[s] \div Clock /\ t \div Clock = later \div Clock
    BY <1>1, <1>2, CycleBetween, Constants
  <1>4. later - t = (later % Clock) - now /\ t - heard[s] = now - lastSend(s)
    BY <1>1, <1>3, SameCycle, Constants DEF now, lastSend
  <1>5. later % Clock \in 0 .. Clock - 1
    BY <1>1, Division, Constants
  <1> QED
    BY <1>1, <1>3, <1>4, <1>5, Reading, Constants DEF Cycle, later
-----------------------------------------------------------------------------
(* The loop over the list, from the first session to the last.             *)
ChkStep(ahead, n, chk) ==
  IF n = 0 THEN 0
  ELSE IF made[n] \in Kept THEN Sooner(chk[n - 1], Sleep(made[n], ahead))
  ELSE chk[n - 1]

(* The recursive function of NexChk exists: it is that for a list shorter  *)
(* by one, extended by one step.                                           *)
LEMMA LoopExists ==
  ASSUME NEW ahead, NEW b \in Nat
  PROVE  \E chk : chk = [n \in 0 .. b |-> ChkStep(ahead, n, chk)]
  <1> DEFINE IsChk(k, f) == f = [n \in 0 .. k |-> ChkStep(ahead, n, f)]
             S == {k \in Nat : \E f : IsChk(k, f)}
  <1>1. 0 \in S
    <2> DEFINE f == [n \in 0 .. 0 |-> 0]
    <2>1. IsChk(0, f)
      BY DEF ChkStep
    <2> HIDE DEF IsChk, f
    <2> QED
      BY <2>1
  <1>2. ASSUME NEW k \in S PROVE k + 1 \in S
    <2>1. PICK f : IsChk(k, f)
      OBVIOUS
    <2> DEFINE h == [n \in 0 .. k + 1 |-> IF n = k + 1 THEN ChkStep(ahead, k + 1, f) ELSE f[n]]
    <2>2. \A n \in 0 .. k : f[n] = ChkStep(ahead, n, f)
      BY <2>1
    <2>3. h[k + 1] = ChkStep(ahead, k + 1, f) /\ \A n \in 0 .. k : h[n] = f[n]
      OBVIOUS
    <2>4. ASSUME NEW n \in 0 .. k + 1 PROVE h[n] = ChkStep(ahead, n, h)
      <3>1. CASE n = 0
        <4>1. h[0] = f[0] /\ f[0] = ChkStep(ahead, 0, f)
          BY <2>2, <2>3
        <4> HIDE DEF h
        <4> QED
          BY <3>1, <4>1 DEF ChkStep
      <3>2. CASE n # 0
        <4>1. n - 1 \in 0 .. k /\ h[n - 1] = f[n - 1]
          BY <2>3, <3>2
        <4>2. h[n] = ChkStep(ahead, n, f)
          BY <2>2, <2>3
        <4> HIDE DEF h
        <4> QED
          BY <3>2, <4>1, <4>2 DEF ChkStep
      <3> QED
        BY <3>1, <3>2
    <2>5. h = [n \in 0 .. k + 1 |-> h[n]]
      OBVIOUS
    <2>6. IsChk(k + 1, h)
      <3> HIDE DEF h
      <3> QED
        BY <2>4, <2>5
    <2> HIDE DEF IsChk, h
    <2> QED
      BY <2>6
  <1>3. S = Nat
    <2>1. S \in SUBSET Nat
      OBVIOUS
    <2> HIDE DEF S
    <2> QED
      BY <1>1, <1>2, <2>1, Induction
  <1> QED
    BY <1>3

LEMMA Loop ==
  ASSUME NEW ahead, Len(made) \in Nat
  PROVE  \E chk :
           /\ NexChk(ahead) = chk[Len(made)]
           /\ \A n \in 0 .. Len(made) : chk[n] = ChkStep(ahead, n, chk)
  <1> DEFINE c == CHOOSE f : f = [n \in 0 .. Len(made) |-> ChkStep(ahead, n, f)]
  <1>1. c = [n \in 0 .. Len(made) |-> ChkStep(ahead, n, c)]
    BY LoopExists
  <1>2. NexChk(ahead) = c[Len(made)]
    BY DEF NexChk, ChkStep
  <1> HIDE DEF c
  <1>3. \A n \in 0 .. Len(made) : c[n] = ChkStep(ahead, n, c)
    BY <1>1
  <1> QED
    BY <1>2, <1>3

(* What the loop makes of the sleeps: it wants no longer sleep than any    *)
(* session that no session without a sleep follows, and wants none only    *)
(* for the sake of one.                                                    *)
THEOREM LoopResult ==
  ASSUME TypeOK, Recorded, NEW ahead \in [Sessions -> 1 .. Interval]
  PROVE  /\ NexChk(ahead) \in 0 .. Clock - 1
         /\ \A s \in Kept : \/ NexChk(ahead) <= Sleep(s, ahead)
                           \/ Sleep(s, ahead) = 0 \/ s \in Masked(ahead)
         /\ NexChk(ahead) = 0 =>
              Kept = {} \/ \E s \in Kept : Sleep(s, ahead) = 0
         /\ Kept = {} => NexChk(ahead) = 0
  <1> DEFINE b == Len(made)
             sl(n) == Sleep(made[n], ahead)
  <1>1. b \in Nat /\ DOMAIN made = 1 .. b /\ \A n \in 1 .. b : made[n] \in Sessions
    BY DEF TypeOK
  <1>2. \A n \in 1 .. b : sl(n) \in 0 .. Clock - 1
    BY <1>1, Wanted
  <1>3. PICK chk : NexChk(ahead) = chk[b]
                   /\ \A n \in 0 .. b : chk[n] = ChkStep(ahead, n, chk)
    BY <1>1, Loop
  <1> DEFINE Good(n) ==
        /\ chk[n] \in 0 .. Clock - 1
        /\ \A m \in 1 .. n : made[m] \in Kept =>
             chk[n] <= sl(m) \/ \E k \in m .. n : made[k] \in Kept /\ sl(k) = 0
        /\ chk[n] = 0 => \A m \in 1 .. n : made[m] \in Kept =>
             \E k \in m .. n : made[k] \in Kept /\ sl(k) = 0
        /\ (\A m \in 1 .. n : made[m] \notin Kept) => chk[n] = 0
  <1>4. Good(0)
    <2>1. chk[0] = 0
      BY <1>1, <1>3 DEF ChkStep
    <2> QED
      BY <2>1, Constants
  <1>5. ASSUME NEW n \in 0 .. b - 1, Good(n) PROVE Good(n + 1)
    <2>1. n + 1 \in 1 .. b /\ n + 1 \in 0 .. b /\ n + 1 # 0 /\ (n + 1) - 1 = n
      BY <1>1
    <2> DEFINE x == sl(n + 1)
    <2>2. x \in 0 .. Clock - 1
      BY <1>2, <2>1
    <2>3. CASE made[n + 1] \in Kept
      <3>1. chk[n + 1] = IF chk[n] = 0 \/ x < chk[n] THEN x ELSE chk[n]
        BY <1>3, <2>1, <2>3 DEF ChkStep, Sooner
      <3>2. x = sl(n + 1) /\ n \in Nat /\ Clock \in Nat
        BY <1>1, Constants
      <3> HIDE DEF sl, x
      <3>3. chk[n + 1] \in 0 .. Clock - 1 /\ chk[n + 1] <= x
        BY <1>5, <2>2, <3>1, <3>2
      <3>4. ASSUME NEW m \in 1 .. n + 1, made[m] \in Kept
            PROVE  chk[n + 1] <= sl(m) \/ \E k \in m .. n + 1 : made[k] \in Kept /\ sl(k) = 0
        <4>1. CASE m = n + 1
          BY <3>2, <3>3, <4>1
        <4>2. CASE m # n + 1
          <5>1. m \in 1 .. n
            BY <3>2, <4>2
          <5>2. ASSUME NEW k \in m .. n, made[k] \in Kept, sl(k) = 0
                PROVE  \E j \in m .. n + 1 : made[j] \in Kept /\ sl(j) = 0
            BY <3>2, <5>1, <5>2
          <5>3. CASE \E k \in m .. n : made[k] \in Kept /\ sl(k) = 0
            BY <5>2, <5>3
          <5>4. CASE chk[n] # 0 /\ chk[n] <= sl(m)
            <6>1. chk[n] \in Nat /\ x \in Nat /\ sl(m) \in Nat
              BY <1>2, <1>5, <2>1, <2>2, <5>1
            <6> QED
              BY <3>1, <5>4, <6>1
          <5> QED
            BY <1>5, <3>4, <5>1, <5>3, <5>4
        <4> QED
          BY <4>1, <4>2
      <3>5. ASSUME chk[n + 1] = 0, NEW m \in 1 .. n + 1
            PROVE  \E k \in m .. n + 1 : made[k] \in Kept /\ sl(k) = 0
        <4>1. x = 0
          BY <3>1, <3>5
        <4>2. n + 1 \in m .. n + 1
          BY <3>2
        <4> QED
          BY <2>3, <3>2, <4>1, <4>2
      <3>6. n + 1 \in 1 .. n + 1
        BY <3>2
      <3> QED
        BY <2>3, <3>3, <3>4, <3>5, <3>6
    <2>4. CASE made[n + 1] \notin Kept
      <3>1. chk[n + 1] = chk[n]
        BY <1>3, <2>1, <2>4 DEF ChkStep
      <3> HIDE DEF sl
      <3> QED
        BY <1>5, <2>1, <2>4, <3>1
    <2> QED
      BY <2>3, <2>4
  <1> DEFINE S == {n \in 0 .. b : Good(n)}
  <1>6. b \in S
    <2>1. 0 \in S
      BY <1>1, <1>4
    <2>2. \A n \in 0 .. b - 1 : n \in S => n + 1 \in S
      <3> HIDE DEF Good
      <3> QED
        BY <1>1, <1>5
    <2> HIDE DEF S, b
    <2>3. \A n \in 0 .. b : n \in S
      BY <1>1, <2>1, <2>2, InductionUpTo
    <2> QED
      BY <1>1, <2>3
  <1>7. Good(b)
    BY <1>6
  <1>8. \A s \in Kept : \E m \in 1 .. b : made[m] = s
    BY <1>1 DEF Kept, TypeOK, Range
  <1>9. ASSUME NEW s \in Kept
        PROVE  NexChk(ahead) <= Sleep(s, ahead) \/ Sleep(s, ahead) = 0 \/ s \in Masked(ahead)
    <2>1. PICK m \in 1 .. b : made[m] = s
      BY <1>8
    <2>2. CASE chk[b] <= sl(m)
      BY <1>3, <2>1, <2>2
    <2>3. ASSUME NEW k \in m .. b, made[k] \in Kept, sl(k) = 0
          PROVE  Sleep(s, ahead) = 0 \/ s \in Masked(ahead)
      <3>1. CASE k = m
        BY <2>1, <2>3, <3>1
      <3>2. CASE k # m
        BY <1>1, <1>9, <2>1, <2>3, <3>2 DEF Masked
      <3> QED
        BY <3>1, <3>2
    <2> QED
      BY <1>7, <2>1, <2>2, <2>3
  <1> QED
    BY <1>1, <1>3, <1>7, <1>8, <1>9
-----------------------------------------------------------------------------
(* What a round does to one session.                                       *)
LEMMA Skipping ==
  ASSUME TypeOK, Recorded, NEW s \in Sessions, ~ updatable(s)
  PROVE  s \in silent /\ AcrossWrap(s)
  <1> DEFINE seen == NextUpdate(Ahead(s)) + Raised(s, 1)
  <1>1. now + Ahead(s) \in Nat /\ now \in Nat
    BY Reading, Constants
  <1>2. seen \in Nat
    <2>1. NextUpdate(Ahead(s)) \in Nat
      BY <1>1, Division, Constants DEF NextUpdate
    <2> QED
      BY <2>1, Reading
  <1>3. seen % Clock \in Nat
    <2> HIDE DEF seen
    <2> QED
      BY <1>2, Division, Constants
  <1>4. ~ (lastUpdate[s] <= seen % Clock)
    BY DEF updatable
  <1>5. s \in silent
    BY <1>3, <1>4 DEF Recorded
  <1>6. ASSUME ~ AcrossWrap(s) PROVE FALSE
    <2>1. now + Interval + Raised(s, 2) < Clock
      BY <1>6, AwayFromWrap
    <2>2. now + Ahead(s) < Clock
      BY <2>1, Reading, Constants
    <2>3. seen = now + Ahead(s) + Raised(s, 1)
      BY <1>1, <2>2, Small, Constants DEF NextUpdate
    <2>4. seen < Clock /\ now <= seen
      BY <2>1, <2>3, Reading, Constants
    <2>5. seen % Clock = seen
      <3> HIDE DEF seen
      <3> QED
        BY <1>2, <2>4, Small, Constants
    <2>6. lastSend(s) <= now
      <3>1. t - heard[s] = now - lastSend(s)
        BY <1>6, AwayFromWrap
      <3> QED
        BY <3>1, Reading DEF Recorded
    <2> HIDE DEF seen
    <2> QED
      BY <1>2, <1>4, <1>5, <2>4, <2>5, <2>6, Reading DEF Recorded
  <1> QED
    BY <1>5, <1>6

LEMMA NoSleep ==
  ASSUME TypeOK, Recorded, NEW s \in Sessions, NEW ahead \in [Sessions -> 1 .. Interval],
         Sleep(s, ahead) = 0
  PROVE  AcrossWrap(s)
  <1> DEFINE a == AheadAfter(s, ahead)
             z == a + Raised(s, 2)
  <1> SUFFICES ASSUME ~ AcrossWrap(s) PROVE FALSE
    OBVIOUS
  <1>1. a \in 1 .. Interval
    BY Skipping, Wanted
  <1>2. now + Interval + Raised(s, 2) < Clock
    BY AwayFromWrap
  <1>3. /\ z \in Nat \ {0} /\ z < Clock /\ now + a \in Nat /\ now + a < Clock
        /\ Clock + (now + a) + Raised(s, 2) - now = Clock + z
    BY <1>1, <1>2, Reading, Constants
  <1>4. (now + a) % Clock = now + a
    <2> HIDE DEF a
    <2> QED
      BY <1>3, Small, Constants
  <1>5. Sleep(s, ahead) = (Clock + z) % Clock
    <2>1. NextUpdate(a) = now + a
      BY <1>4 DEF NextUpdate
    <2> HIDE DEF z
    <2> QED
      BY <1>3, <2>1 DEF Sleep
  <1> HIDE DEF z
  <1> QED
    BY <1>3, <1>5, OnceAround, Constants

(* It gives a session up whose last input is older than its limit, unless  *)
(* the clock has wrapped since.                                            *)
LEMMA KeptInTime ==
  ASSUME TypeOK, Recorded, NEW s \in Kept, updatable(s)
  PROVE  InTimeAt(s, t)
  <1>1. s \in Sessions /\ Open(s) /\ ~ TimesOut(s)
    BY DEF Kept, TypeOK, Range
  <1> SUFFICES ASSUME Cycle(heard[s]) = Cycle(t) PROVE t <= heard[s] + Limit(s)
    BY DEF InTimeAt
  <1>2. t - heard[s] = now - lastSend(s) /\ heard[s] <= t
    BY <1>1, SameCycle, Reading, Constants DEF Cycle, now, lastSend, Recorded
  <1>3. ~ Overflows(s) /\ Silence(s) = t - heard[s]
    BY <1>1, <1>2, Reading DEF Overflows, Silence
  <1>4. CASE state[s] = "closing"
    BY <1>1, <1>3, <1>4, Reading, Constants DEF TimesOut, Limit
  <1>5. CASE state[s] # "closing"
    BY <1>1, <1>3, <1>5, Reading, Constants DEF TimesOut, Limit
  <1> QED
    BY <1>4, <1>5

LEMMA InList == TypeOK => held \subseteq Sessions
  BY DEF TypeOK, Range

(* Both exceptions of a round come from the wrap.                          *)
LEMMA RoundSkips ==
  ASSUME TypeOK, Recorded, Round
  PROVE  /\ \A s \in skipped' : s \in silent /\ AcrossWrap(s)
         /\ (slept' = 0 /\ held' # {}) \/ masked' # {} => \E s \in held' : AcrossWrap(s)
  <1>1. PICK ahead \in [Sessions -> 1 .. Interval] :
          slept' = NexChk(ahead) /\ masked' = Masked(ahead)
    BY DEF Round
  <1>2. held' = Kept /\ skipped' = {s \in Kept : ~ updatable(s)} /\ Kept \subseteq Sessions
    BY InList DEF Round, Kept
  <1>3. \A s \in Kept : Sleep(s, ahead) = 0 => AcrossWrap(s)
    BY <1>2, NoSleep
  <1>4. \A s \in skipped' : s \in silent /\ AcrossWrap(s)
    BY <1>2, Skipping
  <1>5. slept' = 0 /\ held' # {} => \E s \in held' : AcrossWrap(s)
    BY <1>1, <1>2, <1>3, LoopResult
  <1>6. masked' # {} => \E s \in held' : AcrossWrap(s)
    BY <1>1, <1>2, <1>3 DEF Masked
  <1> QED
    BY <1>4, <1>5, <1>6

(* A debug build's panic.                                                  *)
LEMMA PanicAtWrap ==
  ASSUME TypeOK, Recorded, NEW ahead \in [Sessions -> 1 .. Interval], Panics(ahead)
  PROVE  \E s \in Polled : now + Interval + Raised(s, 2) >= Clock
  <1>1. PICK s \in held :
          /\ Open(s)
          /\ \/ NextUpdate(Ahead(s)) + Raised(s, 1) >= Clock
             \/ LET sum == NextUpdate(AheadAfter(s, ahead)) + Raised(s, 2)
                IN sum >= Clock \/ sum < now
    BY DEF Panics
  <1>2. s \in Sessions /\ s \in Polled
    BY <1>1, InList DEF Polled
  <1> SUFFICES ASSUME now + Interval + Raised(s, 2) < Clock PROVE FALSE
    <2>1. now + Interval + Raised(s, 2) \in Nat
      BY <1>2, Reading, Constants
    <2> QED
      BY <1>2, <2>1, Constants
  <1>3. ASSUME NEW a \in 0 .. Interval PROVE NextUpdate(a) = now + a
    <2>1. now + a \in Nat /\ now + a < Clock
      BY <1>2, Reading, Constants
    <2> QED
      BY <2>1, Small, Constants DEF NextUpdate
  <1>4. Ahead(s) \in 0 .. Interval /\ AheadAfter(s, ahead) \in 0 .. Interval
    BY <1>2, Reading, Wanted
  <1> QED
    BY <1>1, <1>2, <1>3, <1>4, Reading, Constants
-----------------------------------------------------------------------------
LEMMA Initially == Init => IInv
  <1> SUFFICES ASSUME Init PROVE IInv
    OBVIOUS
  <1> USE DEF Init
  <1>1. TypeOK
    <2>1. /\ t \in Start .. MaxTime /\ slept \in 0 .. Clock - 1 /\ wake \in Nat
          /\ 0 \in 0 .. MaxTime /\ 0 \in 0 .. MaxTime + Interval /\ 0 \in 0 .. Clock - 1
      BY Constants
    <2>2. /\ heard \in [Sessions -> 0 .. MaxTime] /\ due \in [Sessions -> 0 .. MaxTime + Interval]
          /\ lastUpdate \in [Sessions -> 0 .. Clock - 1] /\ slowed \in [Sessions -> 0 .. Clock - 1]
      BY <2>1
    <2>3. made \in Seq(Sessions) /\ held \subseteq Range(made)
      OBVIOUS
    <2>4. /\ state \in [Sessions -> {"new", "reading", "closing", "closed"}]
          /\ silent \subseteq Sessions /\ {fresh, skipped, masked} \subseteq SUBSET Sessions
          /\ panicked \in BOOLEAN
      OBVIOUS
    <2> QED
      BY <2>1, <2>2, <2>3, <2>4 DEF TypeOK
  <1>2. Timer
    BY Constants DEF Timer
  <1>3. 0 % Clock = 0
    BY Small, Constants
  <1>4. Recorded
    BY <1>3, Constants DEF Recorded, lastSend
  <1>5. Awaited /\ Judged /\ PanicsOnlyAtWrap
    BY DEF Awaited, Judged, PanicsOnlyAtWrap, Polled
  <1> QED
    BY <1>1, <1>2, <1>4, <1>5 DEF IInv

(* One lemma for each action; a session with the same fields as before is  *)
(* judged as before.                                                       *)
LEMMA StepAdvance == IInv /\ Advance => IInv'
  <1> SUFFICES ASSUME IInv, Advance PROVE IInv'
    OBVIOUS
  <1> USE DEF IInv, sessionVars, pollerVars
  <1>1. PICK d \in 1 .. MaxTime - t : (held # {} => t + d <= wake) /\ t' = t + d
    BY DEF Advance
  <1>2. UNCHANGED <<sessionVars, pollerVars>> /\ ~ panicked
    BY DEF Advance
  <1>3. t \in Nat /\ t' \in Nat /\ t <= t' /\ t' \in Start .. MaxTime
    BY <1>1, Constants DEF TypeOK
  <1>4. TypeOK'
    BY <1>2, <1>3 DEF TypeOK
  <1>5. Timer'
    BY <1>1, <1>2, <1>3 DEF Timer, TypeOK
  <1>6. Recorded'
    BY <1>2, <1>3, Constants DEF Recorded, lastSend, TypeOK
  <1>7. Awaited' /\ Judged' /\ PanicsOnlyAtWrap'
    BY <1>2 DEF Awaited, Judged, PanicsOnlyAtWrap, Polled, Open, InTimeAt, Limit, Cycle
  <1> QED
    BY <1>4, <1>5, <1>6, <1>7

LEMMA StepRegister ==
  ASSUME IInv, NEW s \in Sessions, Register(s), ~ panicked
  PROVE  IInv'
  <1> USE DEF IInv
  <1>1. PICK e \in 1 .. Interval : due' = [due EXCEPT ![s] = t + e]
    BY DEF Register
  <1>2. /\ state[s] = "new" /\ state' = [state EXCEPT ![s] = "reading"]
        /\ heard' = [heard EXCEPT ![s] = t] /\ lastUpdate' = [lastUpdate EXCEPT ![s] = now]
        /\ made' = Append(made, s) /\ held' = held \cup {s}
        /\ wake' = IF held = {} THEN t ELSE wake
        /\ fresh' = fresh \cup {s}
        /\ UNCHANGED <<t, silent, slowed, slept, skipped, masked, panicked>>
    BY DEF Register
  <1>3. /\ t \in Nat /\ t <= MaxTime /\ wake \in Nat /\ slept \in Nat
        /\ now \in 0 .. Clock - 1
    <2>1. t \in Nat /\ t <= MaxTime /\ wake \in Nat /\ slept \in Nat
      BY Constants DEF TypeOK
    <2> QED
      BY <2>1, Division, Constants DEF now
  <1>4. TypeOK'
    <2>1. Range(made') = Range(made) \cup {s} /\ made' \in Seq(Sessions)
      <3>1. made \in Seq(Sessions)
        BY DEF TypeOK
      <3>2. DOMAIN made' = DOMAIN made \cup {Len(made) + 1} /\ made' \in Seq(Sessions)
        BY <1>2, <3>1
      <3>3. made'[Len(made) + 1] = s /\ \A n \in DOMAIN made : made'[n] = made[n]
        BY <1>2, <3>1
      <3> QED
        BY <3>2, <3>3 DEF Range
    <2> QED
      BY <1>1, <1>2, <1>3, <2>1, Constants DEF TypeOK
  <1>5. Timer'
    BY <1>2, <1>3 DEF Timer
  <1>6. s \in silent
    BY <1>2 DEF Recorded
  <1>7. Recorded'
    BY <1>1, <1>2, <1>3, <1>6, Constants DEF Recorded, lastSend, now, TypeOK
  <1>8. Awaited'
    BY <1>1, <1>2, <1>3 DEF Awaited, Polled, Open, Timer, TypeOK
  <1>9. Judged'
    <2>1. wake' - slept <= t
      BY <1>2, <1>3 DEF Timer
    <2>2. heard'[s] = t
      BY <1>2 DEF TypeOK
    <2>3. ASSUME NEW u \in Polled' \ skipped, u # s PROVE InTimeAt(u, wake - slept)'
      <3>1. /\ u \in Polled \ skipped /\ wake' = wake
            /\ heard'[u] = heard[u] /\ state'[u] = state[u]
        BY <1>2, <2>3, InList DEF Polled, Open, TypeOK
      <3> QED
        BY <1>2, <3>1 DEF Judged, InTimeAt, Limit, Cycle
    <2>4. InTimeAt(s, wake - slept)'
      BY <1>2, <2>1, <2>2 DEF InTimeAt
    <2> QED
      BY <1>2, <2>3, <2>4 DEF Judged
  <1>10. PanicsOnlyAtWrap'
    BY <1>2 DEF PanicsOnlyAtWrap
  <1> QED
    BY <1>4, <1>5, <1>7, <1>8, <1>9, <1>10

LEMMA StepInput ==
  ASSUME IInv, NEW s \in Sessions, Input(s), ~ panicked
  PROVE  IInv'
  <1> USE DEF IInv, Input, pollerVars
  <1>1. t \in Nat /\ t <= MaxTime /\ wake \in Nat /\ slept \in Nat
    BY Constants DEF TypeOK
  <1>2. TypeOK' /\ Timer'
    BY <1>1, Constants DEF TypeOK, Timer
  <1>3. Recorded'
    BY <1>1, Constants DEF Recorded, lastSend, TypeOK, Open
  <1>4. Awaited' /\ PanicsOnlyAtWrap'
    BY DEF Awaited, Polled, Open, PanicsOnlyAtWrap
  <1>5. Judged'
    <2>1. ASSUME NEW u \in Polled' \ skipped' PROVE InTimeAt(u, wake - slept)'
      <3>1. CASE u = s
        BY <1>1, <2>1, <3>1 DEF InTimeAt, Timer, TypeOK, Polled
      <3>2. CASE u # s
        BY <2>1, <3>2 DEF Judged, InTimeAt, Limit, Polled, Open, TypeOK
      <3> QED
        BY <3>1, <3>2
    <2> QED
      BY <2>1 DEF Judged
  <1> QED
    BY <1>2, <1>3, <1>4, <1>5

LEMMA StepDrop ==
  ASSUME IInv, NEW s \in Sessions, Drop(s), ~ panicked
  PROVE  IInv'
  <1> USE DEF IInv, Drop, pollerVars
  <1>1. TypeOK' /\ Timer' /\ Recorded'
    BY DEF TypeOK, Timer, Recorded, lastSend
  <1>2. Awaited' /\ PanicsOnlyAtWrap'
    BY DEF Awaited, Polled, Open, PanicsOnlyAtWrap, TypeOK
  <1>3. Judged'
    <2>1. ASSUME NEW u \in Polled' \ skipped' PROVE InTimeAt(u, wake - slept)'
      <3>1. /\ InTimeAt(u, wake - slept) /\ heard' = heard
            /\ heard[u] \in Nat /\ wake - slept \in Nat
        BY <2>1, InList DEF Judged, Polled, Open, TypeOK, Timer
      <3>2. Limit(u) \in Nat /\ Limit(u)' \in Nat /\ Limit(u) <= Limit(u)'
        BY <2>1, Constants, InList DEF Limit, TypeOK, Polled
      <3> QED
        BY <3>1, <3>2 DEF InTimeAt, Cycle
    <2> QED
      BY <2>1 DEF Judged
  <1> QED
    BY <1>1, <1>2, <1>3

LEMMA StepCloserCloses ==
  ASSUME IInv, NEW s \in Sessions, CloserCloses(s), ~ panicked
  PROVE  IInv'
  <1> USE DEF IInv, CloserCloses, pollerVars
  <1>1. TypeOK' /\ Timer' /\ Recorded'
    BY DEF TypeOK, Timer, Recorded, lastSend
  <1>2. \A u \in Polled' : u # s /\ u \in Polled /\ state'[u] = state[u]
    BY InList DEF Polled, Open, TypeOK
  <1>3. Awaited' /\ Judged' /\ PanicsOnlyAtWrap'
    BY <1>2 DEF Awaited, Judged, PanicsOnlyAtWrap, InTimeAt, Limit, Cycle
  <1> QED
    BY <1>1, <1>3

LEMMA StepRound == IInv /\ Round => IInv'
  <1> SUFFICES ASSUME IInv, Round PROVE IInv'
    OBVIOUS
  <1> USE DEF IInv
  <1>1. PICK ahead \in [Sessions -> 1 .. Interval] :
          /\ due' = [s \in Sessions |-> IF s \in Kept THEN t + AheadAfter(s, ahead) ELSE due[s]]
          /\ slept' = NexChk(ahead) /\ masked' = Masked(ahead)
    BY DEF Round
  <1>2. /\ held # {} /\ t = wake /\ ~ panicked
        /\ state' = [s \in Sessions |->
                       IF s \in held /\ TimesOut(s) THEN "closed" ELSE state[s]]
        /\ slowed' = [s \in Sessions |-> IF s \in Kept THEN Raised(s, 2) % Clock ELSE slowed[s]]
        /\ held' = Kept /\ wake' = t + slept' /\ fresh' = {}
        /\ skipped' = {s \in Kept : ~ updatable(s)}
        /\ UNCHANGED <<t, heard, silent, lastUpdate, made, panicked>>
    BY DEF Round, RoundDue
  <1>3. /\ t \in Nat /\ t <= MaxTime /\ slept' \in 0 .. Clock - 1
        /\ Kept \subseteq held /\ held \subseteq Sessions
    BY <1>1, LoopResult, InList, Constants DEF TypeOK, Kept
  <1>4. \A s \in Sessions : AheadAfter(s, ahead) \in 0 .. Interval
    BY Wanted
  <1>5. \A s \in Kept : Open(s) /\ state'[s] = state[s]
    BY <1>2, <1>3 DEF Kept
  <1>6. wake' = t + slept' /\ wake' \in Nat /\ slept' \in Nat /\ wake' - slept' = t
    <2>1. wake' = t + slept'
      BY <1>2
    <2>2. t \in Nat /\ slept' \in Nat
      BY <1>3, Constants
    <2>3. \A a, b \in Nat : a + b \in Nat /\ (a + b) - b = a
      OBVIOUS
    <2> QED
      BY <2>1, <2>2, <2>3, Zenon
  <1>7. TypeOK'
    <2>1. \A s \in Sessions : Raised(s, 2) % Clock \in 0 .. Clock - 1
      BY Reading, Division, Constants
    <2>2. masked' \subseteq Sessions
      BY <1>1, <1>3 DEF Masked
    <2>3. due' \in [Sessions -> 0 .. MaxTime + Interval]
      BY <1>1, <1>3, <1>4, Constants DEF TypeOK
    <2>4. slowed' \in [Sessions -> 0 .. Clock - 1]
      BY <1>2, <2>1 DEF TypeOK
    <2>5. state' \in [Sessions -> {"new", "reading", "closing", "closed"}]
      BY <1>2 DEF TypeOK
    <2> QED
      BY <1>2, <1>3, <2>2, <2>3, <2>4, <2>5, <1>6 DEF TypeOK
  <1>8. Timer'
    BY <1>1, <1>2, <1>3, LoopResult, Constants DEF Timer
  <1>9. Recorded'
    <2>1. ASSUME NEW s \in Sessions, state'[s] \in {"new", "reading"} PROVE slowed'[s] = 0
      <3>1. state[s] \in {"new", "reading"} /\ slowed[s] = 0
        BY <1>2, <2>1 DEF Recorded
      <3>2. s \in Kept => Raised(s, 2) = 0
        BY <3>1 DEF Raised
      <3> QED
        BY <1>2, <3>1, <3>2, Small, Constants
    <2>2. \A s \in Sessions : due'[s] <= t + Interval
      BY <1>1, <1>3, <1>4, Constants DEF Recorded
    <2> QED
      BY <1>2, <2>1, <2>2 DEF Recorded, lastSend
  <1>10. Awaited'
    <2>1. ASSUME NEW s \in Kept, state[s] = "reading", updatable(s), s \notin Masked(ahead)
          PROVE  wake' <= due'[s] /\ slept' <= Interval
      <3>1. s \in Sessions /\ AheadAfter(s, ahead) \in 1 .. Interval
        BY <1>3, <2>1, Wanted
      <3>2. Sleep(s, ahead) = AheadAfter(s, ahead)
        BY <2>1, <3>1, ReadingSleep
      <3>3. slept' <= AheadAfter(s, ahead)
        BY <1>1, <2>1, <3>1, <3>2, LoopResult
      <3> QED
        BY <1>1, <1>2, <1>3, <2>1, <3>1, <3>3, Constants
    <2> QED
      BY <1>1, <1>2, <1>5, <2>1 DEF Awaited, Polled
  <1>11. Judged'
    <2>1. ASSUME NEW s \in Kept, updatable(s) PROVE InTimeAt(s, wake - slept)'
      <3>1. InTimeAt(s, t)
        BY <2>1, KeptInTime
      <3> QED
        BY <1>2, <1>5, <1>6, <2>1, <3>1 DEF InTimeAt, Limit, Cycle
    <2> QED
      BY <1>2, <2>1 DEF Judged, Polled
  <1>12. PanicsOnlyAtWrap'
    BY <1>2 DEF PanicsOnlyAtWrap
  <1> QED
    BY <1>7, <1>8, <1>9, <1>10, <1>11, <1>12

LEMMA StepRoundPanics == IInv /\ RoundPanics => IInv'
  <1> SUFFICES ASSUME IInv, RoundPanics PROVE IInv'
    OBVIOUS
  <1> USE DEF IInv, RoundPanics, sessionVars
  <1>1. \E s \in Polled : now + Interval + Raised(s, 2) >= Clock
    BY PanicAtWrap
  <1>2. TypeOK' /\ Timer' /\ Recorded'
    BY DEF TypeOK, Timer, Recorded, lastSend
  <1>3. Awaited' /\ Judged'
    BY DEF Awaited, Judged, Polled, Open, InTimeAt, Limit, Cycle
  <1>4. PanicsOnlyAtWrap'
    BY <1>1 DEF PanicsOnlyAtWrap, Polled, Open, now, Raised
  <1> QED
    BY <1>2, <1>3, <1>4

THEOREM Invariant == Spec => []IInv
  <1>1. IInv /\ [Next]_vars => IInv'
    <2> SUFFICES ASSUME IInv, [Next]_vars PROVE IInv'
      OBVIOUS
    <2>1. CASE Advance \/ Round \/ RoundPanics
      BY <2>1, StepAdvance, StepRound, StepRoundPanics
    <2>2. ASSUME NEW s \in Sessions,
                 ~ panicked /\ (Register(s) \/ Input(s) \/ Drop(s) \/ CloserCloses(s))
          PROVE  IInv'
      BY <2>2, StepRegister, StepInput, StepDrop, StepCloserCloses
    <2>3. CASE UNCHANGED vars
      BY <2>3 DEF vars, sessionVars, pollerVars, IInv, TypeOK, Timer, Recorded, lastSend, Awaited,
         Judged, PanicsOnlyAtWrap, Polled, Open, InTimeAt, Limit, Cycle, now, Raised
    <2> QED
      BY <2>1, <2>2, <2>3 DEF Next
  <1> QED
    BY Initially, <1>1, PTL DEF Spec
-----------------------------------------------------------------------------
(* The variables have their types.                                         *)
THEOREM TypesHold == Spec => []TypeOK
  <1>1. IInv => TypeOK
    BY DEF IInv
  <1> QED
    BY Invariant, <1>1, PTL

(* A reading session is updated when kcp asks for it.                      *)
THEOREM UpdatesComeInTime == Spec => []UpdatedInTime
  <1>1. ASSUME IInv PROVE UpdatedInTime
    <2>1. ASSUME NEW s \in Polled, state[s] = "reading", s \notin fresh \cup skipped \cup masked
          PROVE  t <= due[s]
      <3>1. t <= wake /\ wake <= due[s]
        BY <1>1, <2>1 DEF IInv, Timer, Awaited, Polled
      <3>2. t \in Nat /\ wake \in Nat /\ due[s] \in Nat
        BY <1>1, <2>1, InList, Constants DEF IInv, TypeOK, Polled
      <3> QED
        BY <3>1, <3>2
    <2> QED
      BY <2>1 DEF UpdatedInTime
  <1> QED
    BY Invariant, <1>1, PTL

(* A silent peer is given up in time, between two wraps of the clock.      *)
THEOREM SilentPeersTimeOut == Spec => []TimeoutInTime
  <1>1. ASSUME IInv PROVE TimeoutInTime
    <2> USE <1>1 DEF IInv
    <2>1. ASSUME NEW s \in Polled, ~ Wrapped(s), s \notin skipped
          PROVE  t <= heard[s] + Limit(s) +
             (IF state[s] = "reading" /\ s \notin fresh \cup masked THEN Interval ELSE slept)
      <3> DEFINE r == wake - slept
      <3>1. s \in Sessions /\ s \in held
        BY InList DEF Polled
      <3>2. /\ t \in Nat /\ wake \in Nat /\ slept \in Nat /\ heard[s] \in Nat /\ r \in Nat
            /\ Limit(s) \in Nat /\ wake = r + slept /\ r <= t /\ t <= wake
        BY <3>1, Constants DEF TypeOK, Timer, Limit
      <3>3. InTimeAt(s, r)
        BY <2>1 DEF Judged
      <3>4. state[s] = "reading" /\ s \notin fresh \cup masked => slept <= Interval
        BY <2>1 DEF Awaited
      <3> HIDE DEF r
      <3>5. r <= heard[s] + Limit(s)
        <4>1. CASE r <= heard[s]
          BY <3>2, <4>1
        <4>2. CASE heard[s] <= r
          <5>1. Cycle(heard[s]) = Cycle(r)
            BY <2>1, <3>2, <4>2, CycleBetween, Constants DEF Wrapped, Cycle
          <5> QED
            BY <3>2, <3>3, <5>1 DEF InTimeAt
        <4> QED
          BY <3>2, <4>1, <4>2
      <3> QED
        BY <3>2, <3>4, <3>5, Constants
    <2> QED
      BY <2>1 DEF TimeoutInTime
  <1> QED
    BY Invariant, <1>1, PTL

(* A debug build panics only close to the wrap.                            *)
THEOREM PanicsAreAtWrap == Spec => []PanicsOnlyAtWrap
  <1>1. IInv => PanicsOnlyAtWrap
    BY DEF IInv
  <1> QED
    BY Invariant, <1>1, PTL

(* Only across the wrap a round passes a session over, forgets a sleep or  *)
(* wants none.                                                             *)
THEOREM SkipsArePastWrap == Spec => SkipsOnlyPastWrap
  <1>1. ASSUME IInv, Round
        PROVE  /\ \A s \in skipped' : s \in silent /\ AcrossWrap(s)
               /\ (slept' = 0 /\ held' # {}) \/ masked' # {} =>
                    \E s \in held' : AcrossWrap(s)
    BY <1>1, RoundSkips DEF IInv
  <1>2. IInv /\ [Next]_vars =>
          [Round =>
             /\ \A s \in skipped' : s \in silent /\ AcrossWrap(s)
             /\ (slept' = 0 /\ held' # {}) \/ masked' # {} =>
                  \E s \in held' : AcrossWrap(s)]_vars
    BY <1>1
  <1> QED
    BY Invariant, <1>2, PTL DEF Spec, SkipsOnlyPastWrap
=============================================================================
