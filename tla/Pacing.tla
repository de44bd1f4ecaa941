------------------------------- MODULE Pacing -------------------------------
(***************************************************************************)
(* When the poller of src/poller.rs updates its sessions, and when it      *)
(* gives one up: poll_update, check, updatable and update, poll_close's    *)
(* test of the clock, and what poll_input resets.                          *)
(*                                                                         *)
(* The code reads a clock of milliseconds in a u32, which goes back to 0   *)
(* every 2^32 ms (49.7 days).  Here t is the true time and t % Clock what  *)
(* the code sees.  Where a u32 sum or difference overflows a debug build   *)
(* panics and a release build goes on modulo Clock: the model does either. *)
(*                                                                         *)
(* kcp itself is outside the source: after an update it wants the next     *)
(* one within its interval (due), and ikcp_check says how far that is off. *)
(* Its own arithmetic survives the wrap.  A round takes no time, and the   *)
(* timer of a round is exact.  That a task registers its waker again       *)
(* between two rounds is the subject of module Session.                    *)
(***************************************************************************)
EXTENDS Naturals, Sequences, Functions

CONSTANTS Sessions,
          Clock,       \* 2^32
          Interval,    \* the longest time kcp waits between two updates
          Slow,        \* what check adds for a session that is closing, 10
          Timeout,     \* recv_timeout
          CloseDelay,  \* close_delay
          Start,       \* bound: the beginning of time
          MaxTime      \* bound: the end of time

ASSUME PacingAssumption ==
  /\ {Clock, Interval, Timeout, CloseDelay, Start, MaxTime} \subseteq Nat \ {0}
  /\ Slow \in Nat /\ Start <= MaxTime
  /\ Interval < Clock /\ Timeout < Clock /\ CloseDelay < Clock

VARIABLES t,           \* the true time
          state,       \* new, reading (a task waits for data), closing (the
                       \* stream was dropped, the closer waits), closed
          heard,       \* when its last input was, or it was made
          silent,      \* history: the sessions without an input as yet
          due,         \* when kcp wants its next update
          lastUpdate,  \* last_update, which only an input changes
          slowed       \* clsck_inc

VARIABLES made,        \* the sessions registered, in order: push adds at the
                       \* end of the poller's list, retain keeps the order
          held,        \* those of them that are still in the list
          wake,        \* when its timer is over
          slept,       \* how long the timer was set for
          fresh,       \* history: registered since the last round
          skipped,     \* history: not updatable in the last round
          masked,      \* history: followed in the list, in the last round, by
                       \* a session that made nex_chk 0
          panicked     \* a debug build has ended here

sessionVars == <<state, heard, silent, due, lastUpdate, slowed>>
pollerVars == <<made, held, wake, slept, fresh, skipped, masked, panicked>>
vars == <<t, sessionVars, pollerVars>>

TypeOK ==
  /\ t \in Start .. MaxTime
  /\ state \in [Sessions -> {"new", "reading", "closing", "closed"}]
  /\ heard \in [Sessions -> 0 .. MaxTime] /\ silent \subseteq Sessions
  /\ due \in [Sessions -> 0 .. MaxTime + Interval]
  /\ lastUpdate \in [Sessions -> 0 .. Clock - 1]
  /\ slowed \in [Sessions -> 0 .. Clock - 1]
  /\ made \in Seq(Sessions) /\ held \subseteq Range(made)
  /\ wake \in Nat /\ slept \in 0 .. Clock - 1
  /\ {fresh, skipped, masked} \subseteq SUBSET Sessions
  /\ panicked \in BOOLEAN

Init ==
  /\ t = Start
  /\ state = [s \in Sessions |-> "new"]
  /\ heard = [s \in Sessions |-> 0] /\ silent = Sessions
  /\ due = heard /\ lastUpdate = heard /\ slowed = heard
  /\ made = << >> /\ held = {} /\ wake = Start /\ slept = 0
  /\ fresh = {} /\ skipped = {} /\ masked = {} /\ panicked = FALSE

now == t % Clock
Open(s) == state[s] \in {"reading", "closing"}
lastSend(s) == heard[s] % Clock
-----------------------------------------------------------------------------
(* Time passes until the timer of the poller is over.                      *)
Advance ==
  /\ ~ panicked
  /\ \E d \in 1 .. MaxTime - t :
       /\ held # {} => t + d <= wake
       /\ t' = t + d
  /\ UNCHANGED <<sessionVars, pollerVars>>

(* SafeKcp::wrap, which updates kcp, and the push of poller_main.  A       *)
(* poller without sessions has no timer; another one lets it run on.       *)
Register(s) ==
  /\ state[s] = "new" /\ ~ panicked
  /\ state' = [state EXCEPT ![s] = "reading"]
  /\ heard' = [heard EXCEPT ![s] = t]
  /\ lastUpdate' = [lastUpdate EXCEPT ![s] = now]
  /\ \E e \in 1 .. Interval : due' = [due EXCEPT ![s] = t + e]
  /\ made' = Append(made, s) /\ held' = held \cup {s}
  /\ wake' = IF held = {} THEN t ELSE wake
  /\ fresh' = fresh \cup {s}
  /\ UNCHANGED <<t, silent, slowed, slept, skipped, masked, panicked>>

(* poll_input of a datagram that kcp accepts.  A mutated form stands       *)
(* before what it mutates, for checking that the properties can fail.      *)
InputForgetsClock(s) ==
  /\ Open(s)
  /\ heard' = [heard EXCEPT ![s] = t]
  /\ slowed' = [slowed EXCEPT ![s] = 0]
  /\ silent' = silent \ {s}
  /\ UNCHANGED <<t, state, due, lastUpdate, pollerVars>>

Input(s) ==
  /\ Open(s)
  /\ heard' = [heard EXCEPT ![s] = t]
  /\ slowed' = [slowed EXCEPT ![s] = 0]
  /\ silent' = silent \ {s}
  /\ lastUpdate' = [lastUpdate EXCEPT ![s] = 0]
  /\ UNCHANGED <<t, state, due, pollerVars>>

(* The stream is dropped, and the closer's first poll_close sets the flag. *)
Drop(s) ==
  /\ state[s] = "reading"
  /\ state' = [state EXCEPT ![s] = "closing"]
  /\ UNCHANGED <<t, heard, silent, due, lastUpdate, slowed, pollerVars>>

(* now.overflowing_sub(last_send), for update and for poll_close.          *)
Overflows(s) == now < lastSend(s)
Silence(s) == now - lastSend(s)

(* poll_close is ready, when kcp has nothing to send any more: the closer  *)
(* removes the session and closes it.                                      *)
CloserCloses(s) ==
  /\ state[s] = "closing" /\ ~ Overflows(s) /\ Silence(s) >= CloseDelay
  /\ state' = [state EXCEPT ![s] = "closed"]
  /\ UNCHANGED <<t, heard, silent, due, lastUpdate, slowed, pollerVars>>
-----------------------------------------------------------------------------
(* A round, poll_update.                                                   *)

(* check returns what ikcp_check does, plus clsck_inc, which it has raised *)
(* before.  It is called twice in a round.                                 *)
NextUpdateIsDelay(ahead) == ahead
NextUpdate(ahead) == (now + ahead) % Clock
Ahead(s) == IF due[s] > t THEN due[s] - t ELSE 0
Raised(s, times) == slowed[s] + (IF state[s] = "closing" THEN times * Slow ELSE 0)

updatable(s) == lastUpdate[s] <= (NextUpdate(Ahead(s)) + Raised(s, 1)) % Clock

(* update: the closer is given up after the close delay, a reader after    *)
(* the timeout.                                                            *)
OnlyCloserTimesOut(s) ==
  /\ state[s] = "closing" /\ updatable(s) /\ ~ Overflows(s)
  /\ Silence(s) > CloseDelay

TimesOut(s) ==
  /\ Open(s) /\ updatable(s) /\ ~ Overflows(s)
  /\ Silence(s) > (IF state[s] = "closing" THEN CloseDelay ELSE Timeout)

Kept == {s \in held : Open(s) /\ ~ TimesOut(s)}

(* How far ahead kcp wants the next update when the round is over: ahead   *)
(* is its choice for the sessions that were updated.                       *)
AheadAfter(s, ahead) == IF updatable(s) THEN ahead[s] ELSE Ahead(s)
Sleep(s, ahead) ==
  (Clock + NextUpdate(AheadAfter(s, ahead)) + Raised(s, 2) - now) % Clock

(* The loop over the list.  A nex_chk of 0 stands for none yet, so that a  *)
(* session that wants no sleep makes the loop forget those before it.      *)
Latest(chk, sleep) == IF chk > sleep THEN chk ELSE sleep
Sooner(chk, sleep) == IF chk = 0 \/ sleep < chk THEN sleep ELSE chk

NexChk(ahead) ==
  LET chk[n \in 0 .. Len(made)] ==
        IF n = 0 THEN 0
        ELSE IF made[n] \in Kept THEN Sooner(chk[n - 1], Sleep(made[n], ahead))
        ELSE chk[n - 1]
  IN chk[Len(made)]

Masked(ahead) ==
  {s \in Kept : \E m, n \in DOMAIN made :
     m < n /\ made[m] = s /\ made[n] \in Kept /\ Sleep(made[n], ahead) = 0}

(* The u32 sums and differences that overflow.                             *)
Panics(ahead) ==
  \E s \in held :
    /\ Open(s)
    /\ \/ NextUpdate(Ahead(s)) + Raised(s, 1) >= Clock
       \/ /\ s \in Kept
          /\ LET sum == NextUpdate(AheadAfter(s, ahead)) + Raised(s, 2)
             IN sum >= Clock \/ sum < now

RoundDue == held # {} /\ t = wake /\ ~ panicked

Round ==
  /\ RoundDue
  /\ \E ahead \in [Sessions -> 1 .. Interval] :
       /\ due' = [s \in Sessions |-> IF s \in Kept THEN t + AheadAfter(s, ahead) ELSE due[s]]
       /\ slept' = NexChk(ahead)
       /\ masked' = Masked(ahead)
  /\ state' = [s \in Sessions |-> IF s \in held /\ TimesOut(s) THEN "closed" ELSE state[s]]
  /\ slowed' = [s \in Sessions |-> IF s \in Kept THEN Raised(s, 2) % Clock ELSE slowed[s]]
  /\ held' = Kept
  /\ wake' = t + slept'
  /\ fresh' = {}
  /\ skipped' = {s \in Kept : ~ updatable(s)}
  /\ UNCHANGED <<t, heard, silent, lastUpdate, made, panicked>>

(* In a debug build the task of the poller ends here; what the rest of the *)
(* program does without it is not followed.                                *)
RoundPanics ==
  /\ RoundDue
  /\ \E ahead \in [Sessions -> 1 .. Interval] : Panics(ahead)
  /\ panicked' = TRUE
  /\ UNCHANGED <<t, sessionVars, made, held, wake, slept, fresh, skipped, masked>>

Next ==
  \/ Advance \/ Round \/ RoundPanics
  \/ \E s \in Sessions :
       ~ panicked /\ (Register(s) \/ Input(s) \/ Drop(s) \/ CloserCloses(s))

Spec == Init /\ [][Next]_vars
-----------------------------------------------------------------------------
Polled == {s \in held : Open(s)}
Cycle(time) == time \div Clock

(* A session whose stream is open is updated when kcp asks for it, however *)
(* slowly the others are closing: the round comes by then.  Three kinds    *)
(* are excepted - one registered during the sleep of the others, which has *)
(* to wait for its end, one that updatable has passed over, and one whose  *)
(* sleep the loop has forgotten.                                           *)
UpdatedInTime ==
  \A s \in Polled :
    state[s] = "reading" /\ s \notin fresh \cup skipped \cup masked => t <= due[s]

(* A round passes a session over only near the wrap or beyond it, and only *)
(* if no input has come since it was made: last_update is never set by     *)
(* update.  And only then, or for a closing session that has been slowed   *)
(* across the wrap, the poller spins, with a sleep of 0, or the loop       *)
(* forgets the sleep of a session.                                         *)
AcrossWrap(s) == Cycle(heard[s]) # Cycle(t + Interval + Raised(s, 2))

SkipsOnlyPastWrap ==
  [][Round =>
       /\ \A s \in skipped' : s \in silent /\ AcrossWrap(s)
       /\ (slept' = 0 /\ held' # {}) \/ masked' # {} => \E s \in held' : AcrossWrap(s)]_vars

(* A silent peer is given up in time: a reader at the first round after    *)
(* its timeout, and a closing session after the close delay - unless the   *)
(* clock has wrapped since the last input, which nothing makes up for.     *)
(* Where the sleep is not bounded by the interval, it is by itself.        *)
Wrapped(s) == Cycle(heard[s]) # Cycle(t)
Limit(s) ==
  IF state[s] = "closing" /\ CloseDelay > Timeout THEN CloseDelay ELSE Timeout

TimeoutInTime ==
  \A s \in Polled :
    ~ Wrapped(s) /\ s \notin skipped =>
      t <= heard[s] + Limit(s) +
             (IF state[s] = "reading" /\ s \notin fresh \cup masked THEN Interval ELSE slept)

(* A debug build panics only in a round close to the wrap, by an interval  *)
(* and what the closing session has been slowed by.                        *)
PanicsOnlyAtWrap ==
  panicked =>
    \E s \in Polled : now + Interval + Raised(s, 2) >= Clock
=============================================================================
