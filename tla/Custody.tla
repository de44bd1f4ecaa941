------------------------------ MODULE Custody ------------------------------
(***************************************************************************)
(* What a poller promises about the sessions it is given, however it is    *)
(* woken, stopped or signalled: it accepts a session once, and none after  *)
(* it has refused one; one waits at most; and unless it was cancelled it   *)
(* lets none go that is not closed.                                        *)
(***************************************************************************)
CONSTANT Sessions

VARIABLES accepting,  \* it has not begun to refuse
          queued,     \* the session that waits to be taken
          kept,       \* those it has taken and not let go
          closed,     \* those that are closed, by anybody
          cancelled

vars == <<accepting, queued, kept, closed, cancelled>>

Init ==
  /\ accepting = TRUE /\ cancelled = FALSE
  /\ queued = {} /\ kept = {} /\ closed = {}

Accept(s) ==
  /\ accepting /\ queued = {} /\ s \notin kept \cup closed
  /\ queued' = {s}
  /\ UNCHANGED <<accepting, kept, closed, cancelled>>

Take(s) ==
  /\ accepting /\ s \in queued
  /\ queued' = queued \ {s} /\ kept' = kept \cup {s}
  /\ UNCHANGED <<accepting, closed, cancelled>>

(* It closes some of what it keeps; what it lets go is closed.             *)
LetGo(S) ==
  /\ closed' = closed \cup S
  /\ kept' \subseteq kept /\ kept \ kept' \subseteq closed'
  /\ UNCHANGED <<accepting, queued, cancelled>>

CloseOthers(S) ==
  /\ closed' = closed \cup S
  /\ UNCHANGED <<accepting, queued, kept, cancelled>>

(* What is queued then is stranded.                                        *)
Refuse ==
  /\ accepting' = FALSE
  /\ UNCHANGED <<queued, kept, closed, cancelled>>

Cancel ==
  /\ cancelled' = TRUE
  /\ UNCHANGED <<accepting, queued, kept, closed>>

(* What a cancelled poller keeps goes with it.                             *)
Drop ==
  /\ cancelled
  /\ accepting' = FALSE /\ kept' = {}
  /\ UNCHANGED <<queued, closed, cancelled>>

Next ==
  \/ \E s \in Sessions : Accept(s) \/ Take(s)
  \/ \E S \in SUBSET kept : LetGo(S)
  \/ \E S \in SUBSET Sessions : CloseOthers(S)
  \/ Refuse \/ Cancel \/ Drop

Spec == Init /\ [][Next]_vars
=============================================================================
