------------------------------- MODULE Message -------------------------------
(***************************************************************************)
(* How much of a message Kcp::send hands to kcp, src/kcp/mod.rs.  kcp cuts *)
(* it into segments of mss bytes, and refuses it when they are as many as  *)
(* its receive window (IKCP_WND_RCV) or more.  So send cuts a long message *)
(* itself and returns how much it has taken; the caller sends the rest.    *)
(***************************************************************************)
EXTENDS Integers

WndRcv == 128

(* The count of segments, rounded up.                                      *)
Count(len, mss) == (len + mss - 1) \div mss

(* What is left of the message.                                            *)
Cut(len, mss) ==
  IF len > mss /\ Count(len, mss) >= WndRcv
  THEN len - mss * (Count(len, mss) - WndRcv) - mss
  ELSE len
=============================================================================
