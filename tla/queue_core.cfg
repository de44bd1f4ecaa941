SPECIFICATION FairSpec
CONSTANTS
  Senders = {s1, s2}
  Receivers = {r1, r2}
  Loops = {r1}
  Blocker = blocker
  Max = 10
  MaxSends = 2
  None = None
INVARIANTS
  ReceiverNotForgotten
PROPERTIES
  ImplementsChannel
  RegisteredSendReturns
  AcceptedIsDelivered
