------------------------------ MODULE Channel ------------------------------
(***************************************************************************)
(* What a kcp-rust Queue promises to its users, wakers and tasks left out: *)
(* messages are delivered once each, in the order in which they were       *)
(* accepted, and nothing is accepted or delivered after the close, not     *)
(* even what had been accepted before it.                                  *)
(***************************************************************************)
EXTENDS Naturals, Sequences

CONSTANT Messages

VARIABLES accepted,   \* every message accepted so far, in order
          delivered,  \* every message handed to the receiver so far, in order
          open

channelVars == <<accepted, delivered, open>>

Init == accepted = << >> /\ delivered = << >> /\ open = TRUE

Accept(m) ==
  /\ open
  /\ accepted' = Append(accepted, m)
  /\ UNCHANGED <<delivered, open>>

Deliver ==
  /\ open
  /\ Len(delivered) < Len(accepted)
  /\ delivered' = Append(delivered, accepted[Len(delivered) + 1])
  /\ UNCHANGED <<accepted, open>>

Close == open' = FALSE /\ UNCHANGED <<accepted, delivered>>

Next == (\E m \in Messages : Accept(m)) \/ Deliver \/ Close

Spec == Init /\ [][Next]_channelVars
=============================================================================
