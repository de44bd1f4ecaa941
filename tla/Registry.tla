------------------------------ MODULE Registry ------------------------------
(***************************************************************************)
(* What a connector and a listener promise about sessions, whoever opens,  *)
(* closes, times out, drops and stops: a key belongs to one open session   *)
(* at a time, which keeps it until it has ended, and a session that has    *)
(* ended never comes back.                                                 *)
(***************************************************************************)
CONSTANTS Streams, Keys, None

VARIABLES owner,  \* the open session of each key
          ended   \* the sessions that have ended

vars == <<owner, ended>>

Init == owner = [k \in Keys |-> None] /\ ended = {}

(* A new session takes a key that is free.                                 *)
Enter(k, s) ==
  /\ owner[k] = None
  /\ s \notin ended /\ \A l \in Keys : owner[l] # s
  /\ owner' = [owner EXCEPT ![k] = s]
  /\ UNCHANGED ended

(* Sessions end, together, and their keys are free.                        *)
Leave(S) ==
  /\ S \cap ended = {}
  /\ owner' = [k \in Keys |-> IF owner[k] \in S THEN None ELSE owner[k]]
  /\ ended' = ended \cup S

Next ==
  \/ \E k \in Keys, s \in Streams : Enter(k, s)
  \/ \E S \in SUBSET Streams : Leave(S)

Spec == Init /\ [][Next]_vars
=============================================================================
